----------------------------- MODULE ReaderProofs -----------------------------
(***************************************************************************)
(* HTTPReader passes everything on as it was sent, in whatever pieces it   *)
(* comes, and fails between messages only: for messages of any length, in  *)
(* any number of chunks, and buffers of any size that holds a head.        *)
(*                                                                         *)
(* What is to be sent never changes: it is the tape of the proof.  What    *)
(* has been got, what the two buffers hold and what is still to be read    *)
(* are pieces of it, and the reader's state says what comes next on it.    *)
(***************************************************************************)
EXTENDS HTTPReader, SequenceTheorems, WellFoundedInduction, TLAPS

-----------------------------------------------------------------------------
(* Induction over the naturals, for a set. *)

\* A set of naturals that is not empty has a least element.
LEMMA LeastOf ==
    ASSUME NEW T \in SUBSET Nat, T # {}
    PROVE  \E n \in T : \A m \in T : n <= m
<1>1. PICK n \in T : \A m \in T : ~ (<<m, n>> \in OpToRel(<, Nat))
    BY NatLessThanWellFounded, WFMin, Zenon
<1>2. \A m \in T : ~ (m < n)
    BY <1>1 DEF OpToRel
<1> QED
    BY <1>2

\* A set with 0 in it, and with n + 1 whenever n is, has all naturals: otherwise take
\* the least that is missing.
LEMMA SetInduction ==
    ASSUME NEW T, 0 \in T, \A n \in Nat : n \in T => n + 1 \in T
    PROVE  Nat \subseteq T
<1> DEFINE U == Nat \ T
<1> SUFFICES ASSUME U # {} PROVE FALSE
    OBVIOUS
<1>1. PICK n \in U : \A m \in U : n <= m
    BY LeastOf
<1>2. n # 0 /\ n - 1 \in Nat
    BY <1>1
<1>3. n - 1 \in T
    BY <1>1, <1>2
<1> QED
    BY <1>2, <1>3

-----------------------------------------------------------------------------
(* FlattenSeq, one sequence after the other. *)

\* f[i] is the concatenation of the first i sequences.
Joins(f, seqs, n) ==
    f = [i \in 1..n |-> IF i = 1 THEN seqs[i] ELSE f[i-1] \o seqs[i]]

\* The partial joins of a sequence of sequences, one by one.
LEMMA JoinsAt ==
    ASSUME NEW f, NEW seqs, NEW n \in Nat, Joins(f, seqs, n), NEW i \in 1..n
    PROVE  f[i] = IF i = 1 THEN seqs[i] ELSE f[i-1] \o seqs[i]
<1> DEFINE h == [j \in 1..n |-> IF j = 1 THEN seqs[j] ELSE f[j-1] \o seqs[j]]
<1>1. f = h
    BY DEF Joins
<1>2. h[i] = IF i = 1 THEN seqs[i] ELSE f[i-1] \o seqs[i]
    OBVIOUS
<1> HIDE DEF h
<1> QED
    BY <1>1, <1>2

\* The function FlattenSeq chooses exists.
LEMMA JoinsExist ==
    ASSUME NEW seqs, NEW n \in Nat
    PROVE  \E f : Joins(f, seqs, n)
<1> DEFINE T == {k \in Nat : \E f : Joins(f, seqs, k)}
<1>1. 0 \in T
  <2>1. Joins([i \in 1..0 |-> seqs[i]], seqs, 0)
    BY DEF Joins
  <2> QED
    BY <2>1
<1>2. ASSUME NEW k \in Nat, k \in T PROVE k + 1 \in T
  <2>1. PICK f : Joins(f, seqs, k)
    BY <1>2
  <2> DEFINE last == IF k = 0 THEN seqs[1] ELSE f[k] \o seqs[k+1]
             g == [i \in 1..(k+1) |-> IF i = k + 1 THEN last ELSE f[i]]
  <2>2. \A i \in 1..k : g[i] = f[i]
    OBVIOUS
  <2>3. g[k+1] = last
    OBVIOUS
  <2>4. \A i \in 1..k : f[i] = IF i = 1 THEN seqs[i] ELSE f[i-1] \o seqs[i]
    BY <2>1, JoinsAt
  <2>5. ASSUME NEW i \in 1..(k+1)
        PROVE  g[i] = IF i = 1 THEN seqs[i] ELSE g[i-1] \o seqs[i]
    <3> HIDE DEF g
    <3>1. CASE i = k + 1
      BY <2>2, <2>3, <3>1
    <3>2. CASE i # k + 1
      <4>1. i \in 1..k /\ (i = 1 \/ i - 1 \in 1..k)
        BY <3>2
      <4> QED
        BY <2>2, <2>4, <4>1
    <3> QED
      BY <3>1, <3>2
  <2>6. Joins(g, seqs, k + 1)
    BY <2>5 DEF Joins
  <2> QED
    BY <2>6
<1> HIDE DEF T
<1>3. Nat \subseteq T
    BY <1>1, <1>2, SetInduction
<1> QED
    BY <1>3 DEF T

\* The fold that builds a chunked body is the last of its partial joins.
LEMMA FlattenJoins ==
    ASSUME NEW seqs, Len(seqs) \in Nat \ {0}
    PROVE  \E f : Joins(f, seqs, Len(seqs)) /\ FlattenSeq(seqs) = f[Len(seqs)]
<1> DEFINE n == Len(seqs)
           f == CHOOSE g : Joins(g, seqs, n)
<1>1. Joins(f, seqs, n)
    BY JoinsExist
<1>2. FlattenSeq(seqs) = f[n]
    BY DEF FlattenSeq, Joins
<1> QED
    BY <1>1, <1>2

-----------------------------------------------------------------------------
(* A chunked body: each chunk tells where the next one starts. *)

BodyByte(i) == [msg : {i}, part : {"line", "data"}, val : Nat, at : Nat]

\* Where the chunks of q start: how many bytes are before them.
Starts(q) == {k \in 0..(Len(q) - 1) : q[k+1].part = "line" /\ q[k+1].at = 1}

NextStart(q, k) == k + LineLen + q[k+1].val + CRLF

\* b is Bytes(i, part, val, n), told by its elements.
Piece(S, b, i, part, val, n) ==
    /\ b \in Seq(S) /\ Len(b) = n
    /\ \A k \in 1..n : b[k] = [msg |-> i, part |-> part, val |-> val, at |-> k]

\* What Bytes makes: n bytes of one part, in their order.
LEMMA BytesFacts ==
    ASSUME NEW S, NEW i, NEW part, NEW val, NEW n \in Nat,
           \A k \in 1..n : [msg |-> i, part |-> part, val |-> val, at |-> k] \in S
    PROVE  Piece(S, Bytes(i, part, val, n), i, part, val, n)
BY DEF Bytes, Piece

\* Every byte of a piece is of the piece's part.
LEMMA AllOfOnePart ==
    ASSUME NEW S, NEW b, NEW i, NEW part, NEW val, NEW n, Piece(S, b, i, part, val, n)
    PROVE  \A k \in 1..Len(b) : b[k].part = part
BY DEF Piece

\* r is a \o b, told by its elements.
Joined(S, a, b, r) ==
    /\ r \in Seq(S) /\ Len(r) = Len(a) + Len(b)
    /\ Len(a) \in Nat /\ Len(b) \in Nat
    /\ \A k \in 1..Len(a) : r[k] = a[k]
    /\ \A k \in 1..Len(b) : r[Len(a) + k] = b[k]
    /\ \A k \in 1..Len(r) : k > Len(a) => k - Len(a) \in 1..Len(b) /\ r[k] = b[k - Len(a)]

\* What concatenation does, as a predicate: no equation between sequences is left.
LEMMA JoinFacts ==
    ASSUME NEW S, NEW a \in Seq(S), NEW b \in Seq(S)
    PROVE  Joined(S, a, b, a \o b)
BY DEF Joined

\* What a chunk looks like.
IsChunk(c, i, size) ==
    /\ c \in Seq(BodyByte(i)) /\ Len(c) = LineLen + size + CRLF
    /\ c[1].part = "line" /\ c[1].at = 1 /\ c[1].val = size
    /\ \A k \in 1..Len(c) : c[k].part = "line" /\ c[k].at = 1 => k = 1

\* A line followed by its data is a chunk.
LEMMA LineAndData ==
    ASSUME NEW i, NEW size \in Nat, NEW l, NEW d, NEW c,
           Piece(BodyByte(i), l, i, "line", size, LineLen),
           Piece(BodyByte(i), d, i, "data", size, size + CRLF),
           Joined(BodyByte(i), l, d, c)
    PROVE  IsChunk(c, i, size)
<1>1. Len(l) = 2 /\ \A k \in 1..2 : l[k] = [msg |-> i, part |-> "line", val |-> size, at |-> k]
    BY DEF Piece, LineLen
<1>2. /\ Len(d) = size + CRLF
      /\ \A k \in 1..(size + CRLF) : d[k] = [msg |-> i, part |-> "data", val |-> size, at |-> k]
    BY DEF Piece
<1>3. c \in Seq(BodyByte(i)) /\ Len(c) = 2 + size + CRLF
    BY <1>1, <1>2 DEF Joined, CRLF
<1>4. c[1] = [msg |-> i, part |-> "line", val |-> size, at |-> 1]
    BY <1>1 DEF Joined
<1>5. ASSUME NEW k \in 1..Len(c), c[k].part = "line", c[k].at = 1
      PROVE  k = 1
  <2>1. CASE k \in 1..2
    BY <1>1, <1>5, <2>1 DEF Joined
  <2>2. CASE ~ (k \in 1..2)
    <3>1. k - 2 \in 1..(size + CRLF) /\ c[k] = d[k - 2]
      BY <1>1, <1>2, <1>3, <2>2 DEF Joined
    <3>2. c[k].part = "data"
      BY <1>2, <3>1
    <3> QED
      BY <1>5, <3>2
  <2> QED
    BY <2>1, <2>2
<1>6. c[1].part = "line" /\ c[1].at = 1 /\ c[1].val = size
    BY <1>4
<1>7. Len(c) = LineLen + size + CRLF
    BY <1>3 DEF LineLen
<1> QED
    BY <1>3, <1>5, <1>6, <1>7 DEF IsChunk

\* A chunk as the model sends it is one in the sense of IsChunk.
LEMMA ChunkFacts ==
    ASSUME NEW i, NEW size \in Nat
    PROVE  IsChunk(Chunk(i, size), i, size)
<1> DEFINE l == Bytes(i, "line", size, LineLen)
           d == Bytes(i, "data", size, size + CRLF)
<1>1. Piece(BodyByte(i), l, i, "line", size, LineLen)
  <2>1. \A k \in 1..LineLen : [msg |-> i, part |-> "line", val |-> size, at |-> k] \in BodyByte(i)
    BY DEF BodyByte, LineLen
  <2>2. LineLen \in Nat
    BY DEF LineLen
  <2> QED
    BY <2>1, <2>2, BytesFacts
<1>2. Piece(BodyByte(i), d, i, "data", size, size + CRLF)
  <2>1. \A k \in 1..(size + CRLF) :
            [msg |-> i, part |-> "data", val |-> size, at |-> k] \in BodyByte(i)
    BY DEF BodyByte, CRLF
  <2>2. size + CRLF \in Nat
    BY DEF CRLF
  <2> QED
    BY <2>1, <2>2, BytesFacts
<1>3. Chunk(i, size) = l \o d
    BY DEF Chunk
<1> HIDE DEF l, d
<1>4. Joined(BodyByte(i), l, d, l \o d)
    BY <1>1, <1>2, JoinFacts DEF Piece
<1>5. IsChunk(l \o d, i, size)
    BY <1>1, <1>2, <1>4, LineAndData
<1> QED
    BY <1>3, <1>5

\* q is whole chunks, none of them the last one.
Chunks(i, q) ==
    /\ q \in Seq(BodyByte(i))
    /\ q = <<>> \/ 0 \in Starts(q)
    /\ \A k \in Starts(q) : q[k+1].val # 0 /\ NextStart(q, k) \in Starts(q) \cup {Len(q)}

\* The chunks of q and one more.
LEMMA OneChunkMore ==
    ASSUME NEW i, NEW q, NEW size \in Nat, NEW c, IsChunk(c, i, size),
           NEW r, Joined(BodyByte(i), q, c, r)
    PROVE  /\ Len(r) = Len(q) + LineLen + size + CRLF
           /\ Starts(r) = Starts(q) \cup {Len(q)}
           /\ r[Len(q) + 1].val = size
           /\ \A k \in Starts(q) : r[k+1] = q[k+1]
<1>1. /\ Len(c) = LineLen + size + CRLF
      /\ c[1].part = "line" /\ c[1].at = 1 /\ c[1].val = size
      /\ \A k \in 1..Len(c) : c[k].part = "line" /\ c[k].at = 1 => k = 1
    BY DEF IsChunk
<1>2. /\ Len(r) = Len(q) + Len(c) /\ Len(q) \in Nat
      /\ \A k \in 1..Len(q) : r[k] = q[k]
      /\ \A k \in 1..Len(r) : k > Len(q) => r[k] = c[k - Len(q)]
    BY DEF Joined
<1>3. Len(c) \in Nat /\ Len(c) > 1
    BY <1>1 DEF LineLen, CRLF
<1>4. r[Len(q) + 1] = c[1]
    BY <1>2, <1>3
<1>5. ASSUME NEW k \in 0..(Len(r) - 1)
      PROVE  k \in Starts(r) <=> k \in Starts(q) \cup {Len(q)}
  <2>1. CASE k < Len(q)
    BY <1>2, <2>1 DEF Starts
  <2>2. CASE k = Len(q)
    BY <1>1, <1>2, <1>4, <2>2 DEF Starts
  <2>3. CASE k > Len(q)
    <3>1. k + 1 - Len(q) \in 1..Len(c) /\ r[k+1] = c[k + 1 - Len(q)] /\ k + 1 - Len(q) # 1
      BY <1>2, <1>3, <2>3
    <3> QED
      BY <1>1, <1>2, <2>3, <3>1 DEF Starts
  <2> QED
    BY <1>2, <2>1, <2>2, <2>3
<1>6. Starts(r) \subseteq 0..(Len(r) - 1) /\ Starts(q) \cup {Len(q)} \subseteq 0..(Len(r) - 1)
    BY <1>2, <1>3 DEF Starts
<1>7. Starts(r) = Starts(q) \cup {Len(q)}
    BY <1>5, <1>6
<1>8. \A k \in Starts(q) : r[k+1] = q[k+1]
    BY <1>2 DEF Starts
<1>9. Len(r) = Len(q) + LineLen + size + CRLF
    BY <1>1, <1>2 DEF LineLen, CRLF
<1>10. r[Len(q) + 1].val = size
    BY <1>1, <1>4
<1> QED
    BY <1>7, <1>8, <1>9, <1>10

\* No chunks at all are chunks.
LEMMA NoChunks ==
    ASSUME NEW i
    PROVE  Chunks(i, <<>>)
<1>1. Starts(<<>>) = {}
    BY DEF Starts
<1> QED
    BY <1>1 DEF Chunks

\* Chunks with another one behind them are chunks.
LEMMA ChunksGrow ==
    ASSUME NEW i, NEW q, Chunks(i, q), NEW size \in Nat \ {0}, NEW c, IsChunk(c, i, size),
           NEW r, Joined(BodyByte(i), q, c, r)
    PROVE  Chunks(i, r)
<1>1. /\ Len(r) = Len(q) + LineLen + size + CRLF
      /\ Starts(r) = Starts(q) \cup {Len(q)}
      /\ r[Len(q) + 1].val = size
      /\ \A k \in Starts(q) : r[k+1] = q[k+1]
    BY OneChunkMore
<1>2. r \in Seq(BodyByte(i)) /\ Len(q) \in Nat
    BY DEF Joined
<1>3. 0 \in Starts(r)
  <2>1. CASE q = <<>>
    BY <1>1, <2>1
  <2>2. CASE q # <<>>
    BY <1>1, <2>2 DEF Chunks
  <2> QED
    BY <2>1, <2>2
<1>4. ASSUME NEW k \in Starts(r)
      PROVE  r[k+1].val # 0 /\ NextStart(r, k) \in Starts(r) \cup {Len(r)}
  <2>1. CASE k \in Starts(q)
    <3>1. r[k+1].val # 0 /\ NextStart(r, k) = NextStart(q, k)
      BY <1>1, <2>1 DEF Chunks, NextStart
    <3>2. NextStart(q, k) \in Starts(q) \cup {Len(q)}
      BY <2>1 DEF Chunks
    <3> QED
      BY <1>1, <3>1, <3>2
  <2>2. CASE k = Len(q)
    <3>1. NextStart(r, k) = Len(r)
      BY <1>1, <1>2, <2>2 DEF NextStart, LineLen, CRLF
    <3> QED
      BY <1>1, <2>2, <3>1
  <2> QED
    BY <1>1, <2>1, <2>2
<1> QED
    BY <1>2, <1>3, <1>4 DEF Chunks

\* FlattenSeq over the chunks of a body.
LEMMA FlattenChunks ==
    ASSUME NEW i, NEW chunks \in Seq(Nat \ {0}), NEW seqs,
           Len(seqs) = Len(chunks), \A c \in 1..Len(chunks) : seqs[c] = Chunk(i, chunks[c]),
           Len(chunks) # 0
    PROVE  Chunks(i, FlattenSeq(seqs))
<1> DEFINE n == Len(chunks)
<1>1. n \in Nat \ {0}
    OBVIOUS
<1>2. PICK f : Joins(f, seqs, n) /\ FlattenSeq(seqs) = f[n]
    BY <1>1, FlattenJoins
<1>3. ASSUME NEW c \in 1..n
      PROVE  chunks[c] \in Nat \ {0} /\ IsChunk(seqs[c], i, chunks[c])
  <2>1. chunks[c] \in Nat \ {0}
    OBVIOUS
  <2> QED
    BY <2>1, ChunkFacts
<1>4. \A c \in 1..n : f[c] = IF c = 1 THEN seqs[c] ELSE f[c-1] \o seqs[c]
    BY <1>1, <1>2, JoinsAt
<1> HIDE DEF n
<1> DEFINE T == {k \in Nat : k + 1 \in 1..n => Chunks(i, f[k+1])}
<1>5. ASSUME NEW k \in 1..n, NEW q, Chunks(i, q), f[k] = q \o seqs[k]
      PROVE  Chunks(i, f[k])
  <2>1. q \in Seq(BodyByte(i)) /\ seqs[k] \in Seq(BodyByte(i))
    BY <1>3, <1>5 DEF Chunks, IsChunk
  <2>2. Joined(BodyByte(i), q, seqs[k], q \o seqs[k])
    BY <2>1, JoinFacts
  <2>3. Chunks(i, q \o seqs[k])
    BY <1>3, <1>5, <2>2, ChunksGrow
  <2> QED
    BY <1>5, <2>3
<1>6. 0 \in T
  <2>1. seqs[1] \in Seq(BodyByte(i))
    BY <1>1, <1>3 DEF IsChunk
  <2>2. seqs[1] = <<>> \o seqs[1]
    BY <2>1
  <2>3. f[1] = <<>> \o seqs[1]
    BY <1>1, <1>4, <2>2
  <2>4. Chunks(i, <<>>) /\ 1 \in 1..n
    BY <1>1, NoChunks
  <2>5. Chunks(i, f[1])
    BY <1>5, <2>3, <2>4
  <2> QED
    BY <2>5
<1>7. ASSUME NEW k \in Nat, k \in T PROVE k + 1 \in T
  <2> SUFFICES ASSUME k + 2 \in 1..n PROVE Chunks(i, f[k+2])
    BY <1>7
  <2>1. Chunks(i, f[k+1])
    BY <1>1, <1>7
  <2> HIDE DEF T
  <2>2. k + 2 # 1 /\ (k + 2) - 1 = k + 1
    OBVIOUS
  <2>3. f[k+2] = IF k + 2 = 1 THEN seqs[k+2] ELSE f[(k+2)-1] \o seqs[k+2]
    BY <1>4, Zenon
  <2>4. f[k+2] = f[k+1] \o seqs[k+2]
    BY <2>2, <2>3, Zenon
  <2> QED
    BY <1>5, <2>1, <2>4
<1>8. Nat \subseteq T
  <2> HIDE DEF T
  <2> QED
    BY <1>6, <1>7, SetInduction
<1>9. n - 1 \in Nat /\ (n - 1) + 1 = n
    BY <1>1
<1>10. Chunks(i, f[n])
    BY <1>1, <1>8, <1>9
<1> QED
    BY <1>2, <1>10

\* b is a whole chunked body: each line says where the next one is, the last
\* one where the body ends.
Cut(i, b) ==
    /\ b \in Seq(BodyByte(i))
    /\ 0 \in Starts(b)
    /\ \A k \in Starts(b) :
          IF b[k+1].val = 0 THEN k + LineLen + CRLF = Len(b) ELSE NextStart(b, k) \in Starts(b)

\* Chunks with the empty one behind them are a whole body, cut at its lines.
LEMMA LastChunk ==
    ASSUME NEW i, NEW q, Chunks(i, q), NEW c, IsChunk(c, i, 0),
           NEW r, Joined(BodyByte(i), q, c, r)
    PROVE  Cut(i, r)
<1>1. /\ Len(r) = Len(q) + LineLen + 0 + CRLF
      /\ Starts(r) = Starts(q) \cup {Len(q)}
      /\ r[Len(q) + 1].val = 0
      /\ \A k \in Starts(q) : r[k+1] = q[k+1]
    BY OneChunkMore
<1>2. r \in Seq(BodyByte(i)) /\ Len(q) \in Nat
    BY DEF Joined
<1>3. 0 \in Starts(r)
  <2>1. CASE q = <<>>
    BY <1>1, <2>1
  <2>2. CASE q # <<>>
    BY <1>1, <2>2 DEF Chunks
  <2> QED
    BY <2>1, <2>2
<1>4. ASSUME NEW k \in Starts(r)
      PROVE  IF r[k+1].val = 0 THEN k + LineLen + CRLF = Len(r) ELSE NextStart(r, k) \in Starts(r)
  <2>1. CASE k \in Starts(q)
    <3>1. r[k+1].val # 0 /\ NextStart(r, k) = NextStart(q, k)
      BY <1>1, <2>1 DEF Chunks, NextStart
    <3>2. NextStart(q, k) \in Starts(q) \cup {Len(q)}
      BY <2>1 DEF Chunks
    <3> QED
      BY <1>1, <3>1, <3>2
  <2>2. CASE k = Len(q)
    BY <1>1, <1>2, <2>2 DEF LineLen, CRLF
  <2> QED
    BY <1>1, <2>1, <2>2
<1> QED
    BY <1>2, <1>3, <1>4 DEF Cut

\* A chunked body is cut at its lines, each of which says where the next one is.
LEMMA ChunkedBodyCut ==
    ASSUME NEW i, NEW m, m.framing = "chunked", m.chunks \in Seq(Nat \ {0})
    PROVE  Cut(i, BodyOf(i, m))
<1> DEFINE seqs == [c \in 1..Len(m.chunks) |-> Chunk(i, m.chunks[c])]
           q == FlattenSeq(seqs)
           c == Chunk(i, 0)
<1>1. Chunks(i, q)
  <2>1. CASE Len(m.chunks) = 0
    <3>1. seqs = <<>>
      BY <2>1
    <3>2. q = <<>>
      BY <3>1 DEF FlattenSeq
    <3> QED
      BY <3>2, NoChunks
  <2>2. CASE Len(m.chunks) # 0
    <3>1. Len(seqs) = Len(m.chunks)
      OBVIOUS
    <3>2. \A k \in 1..Len(m.chunks) : seqs[k] = Chunk(i, m.chunks[k])
      OBVIOUS
    <3> HIDE DEF seqs
    <3> QED
      BY <2>2, <3>1, <3>2, FlattenChunks
  <2> QED
    BY <2>1, <2>2
<1>2. IsChunk(c, i, 0)
    BY ChunkFacts
<1>3. BodyOf(i, m) = q \o c
    BY DEF BodyOf
<1> HIDE DEF q, c
<1>4. Joined(BodyByte(i), q, c, q \o c)
    BY <1>1, <1>2, JoinFacts DEF Chunks, IsChunk
<1>5. Cut(i, q \o c)
    BY <1>1, <1>2, <1>4, LastChunk
<1> QED
    BY <1>3, <1>5

-----------------------------------------------------------------------------
(* The tape: all that is sent, and all that has to be got. *)

\* b is the body of message m.
Shape(i, m, b) ==
    /\ b \in Seq(BodyByte(i))
    /\ m.framing = "empty" => Len(b) = 0
    /\ m.framing = "length" => m.size \in Nat /\ Len(b) = m.size
    /\ m.framing = "chunked" => Cut(i, b)
    /\ m.framing # "chunked" => \A k \in 1..Len(b) : b[k].part = "data"

\* The body of each framing has the shape its head declares.
LEMMA Shapes ==
    ASSUME NEW i, NEW m \in Message
    PROVE  Shape(i, m, BodyOf(i, m))
<1>1. CASE m.framing = "empty"
  <2>1. BodyOf(i, m) = <<>>
    BY <1>1 DEF BodyOf
  <2> QED
    BY <1>1, <2>1 DEF Shape
<1>2. CASE m.framing \in {"length", "upgrade", "unsized"}
  <2>1. m.size \in Nat
    BY <1>2 DEF Message
  <2>2. BodyOf(i, m) = Bytes(i, "data", 0, m.size)
    BY <1>2 DEF BodyOf
  <2>3. \A k \in 1..m.size : [msg |-> i, part |-> "data", val |-> 0, at |-> k] \in BodyByte(i)
    BY <2>1 DEF BodyByte
  <2>4. Piece(BodyByte(i), Bytes(i, "data", 0, m.size), i, "data", 0, m.size)
    BY <2>1, <2>3, BytesFacts
  <2> DEFINE b == BodyOf(i, m)
  <2>5. b \in Seq(BodyByte(i)) /\ Len(b) = m.size
    BY <2>2, <2>4 DEF Piece
  <2>6. Piece(BodyByte(i), b, i, "data", 0, m.size)
    BY <2>2, <2>4
  <2> HIDE DEF b
  <2>7. \A k \in 1..Len(b) : b[k].part = "data"
    BY <2>6, AllOfOnePart
  <2>8. m.framing # "empty" /\ m.framing # "chunked"
    BY <1>2
  <2>9. Shape(i, m, b)
    BY <2>1, <2>5, <2>7, <2>8 DEF Shape
  <2> QED
    BY <2>9 DEF b
<1>3. CASE m.framing = "chunked"
  <2>1. m.chunks \in Seq(Nat \ {0})
    BY <1>3 DEF Message
  <2>2. Cut(i, BodyOf(i, m))
    BY <1>3, <2>1, ChunkedBodyCut
  <2> QED
    BY <1>3, <2>2 DEF Shape, Cut
<1> QED
  <2>1. m.framing \in {"empty", "length", "upgrade", "unsized", "chunked"}
    BY DEF Message
  <2> QED
    BY <1>1, <1>2, <1>3, <2>1

Byte == [msg : 1..2, part : {"head", "rewritten", "line", "data"}, val : Messages \cup Nat, at : Nat]

\* The bytes of one message's body are bytes.
LEMMA BodyBytes ==
    ASSUME NEW i \in 1..2, NEW q \in Seq(BodyByte(i))
    PROVE  q \in Seq(Byte)
<1>1. BodyByte(i) \subseteq Byte
    BY DEF BodyByte, Byte
<1> QED
    BY <1>1

\* A head is a piece of HeadLen bytes, sent or rewritten.
LEMMA HeadPiece ==
    ASSUME NEW i \in 1..2, NEW part \in {"head", "rewritten"}, NEW m \in Messages
    PROVE  Piece(Byte, HeadOf(i, part, m), i, part, m, HeadLen)
<1>1. HeadLen \in Nat
    BY DEF HeadLen
<1>2. \A k \in 1..HeadLen : [msg |-> i, part |-> part, val |-> m, at |-> k] \in Byte
    BY <1>1 DEF Byte
<1>3. Piece(Byte, Bytes(i, part, m, HeadLen), i, part, m, HeadLen)
    BY <1>1, <1>2, BytesFacts
<1> QED
    BY <1>3 DEF HeadOf

Body(i) == BodyOf(i, messages[i])
Stream == Sent(1, messages[1]) \o Sent(2, messages[2])
ToGet == IF Upgrade THEN First \o Sent(2, messages[2]) ELSE Both

\* How many bytes are before message i, before its body, and before what comes
\* after it.
Begin(i) == IF i = 1 THEN 0 ELSE HeadLen + Len(Body(1))
AfterHead(i) == Begin(i) + HeadLen
End(i) == AfterHead(i) + Len(Body(i))

\* q stands on the tape t after its first p bytes.
On(q, t, p) ==
    /\ q \in Seq(Byte) /\ Len(q) \in Nat
    /\ \A k \in 1..Len(q) : q[k] = t[p+k]

\* A head, a body, a head and a body.
FourPieces(t, h1, b1, h2, b2) ==
    /\ t \in Seq(Byte) /\ Len(t) = HeadLen + Len(b1) + HeadLen + Len(b2)
    /\ On(h1, t, 0) /\ On(b1, t, HeadLen)
    /\ On(h2, t, HeadLen + Len(b1)) /\ On(b2, t, HeadLen + Len(b1) + HeadLen)

\* Two heads with their bodies behind them: where each of the four is.
LEMMA Four ==
    ASSUME NEW h1, NEW b1, NEW h2, NEW b2, NEW a, NEW b, NEW t,
           h1 \in Seq(Byte), h2 \in Seq(Byte), Len(h1) = HeadLen, Len(h2) = HeadLen,
           Joined(Byte, h1, b1, a), Joined(Byte, h2, b2, b), Joined(Byte, a, b, t),
           b1 \in Seq(Byte), b2 \in Seq(Byte)
    PROVE  FourPieces(t, h1, b1, h2, b2)
<1>1. /\ Len(b1) \in Nat /\ Len(b2) \in Nat /\ Len(a) = HeadLen + Len(b1)
      /\ Len(b) = HeadLen + Len(b2) /\ Len(t) = Len(a) + Len(b) /\ t \in Seq(Byte)
    BY DEF Joined
<1>2. HeadLen = 2
    BY DEF HeadLen
<1>3. \A k \in 1..Len(a) : t[k] = a[k]
    BY DEF Joined
<1>4. \A k \in 1..Len(b) : t[Len(a) + k] = b[k]
    BY DEF Joined
<1>5. On(h1, t, 0)
  <2>1. \A k \in 1..Len(h1) : k \in 1..Len(a) /\ a[k] = h1[k] /\ 0 + k = k
    BY <1>1, <1>2 DEF Joined
  <2> QED
    BY <1>2, <1>3, <2>1 DEF On
<1>6. On(b1, t, HeadLen)
  <2>1. \A k \in 1..Len(b1) : HeadLen + k \in 1..Len(a) /\ a[HeadLen + k] = b1[k]
    BY <1>1, <1>2 DEF Joined
  <2> QED
    BY <1>1, <1>3, <2>1 DEF On
<1>7. On(h2, t, HeadLen + Len(b1))
  <2>1. \A k \in 1..Len(h2) : k \in 1..Len(b) /\ b[k] = h2[k]
    BY <1>1, <1>2 DEF Joined
  <2>2. \A k \in 1..Len(h2) : t[(HeadLen + Len(b1)) + k] = b[k]
    BY <1>1, <1>4, <2>1
  <2> QED
    BY <1>2, <2>1, <2>2 DEF On
<1>8. On(b2, t, HeadLen + Len(b1) + HeadLen)
  <2>1. \A k \in 1..Len(b2) : HeadLen + k \in 1..Len(b) /\ b[HeadLen + k] = b2[k]
    BY <1>1, <1>2 DEF Joined
  <2>2. \A k \in 1..Len(b2) : t[Len(a) + (HeadLen + k)] = b2[k]
    BY <1>4, <2>1
  <2>3. \A k \in 1..Len(b2) : Len(a) + (HeadLen + k) = (HeadLen + Len(b1) + HeadLen) + k
    BY <1>1, <1>2
  <2>4. \A k \in 1..Len(b2) : t[(HeadLen + Len(b1) + HeadLen) + k] = b2[k]
    BY <2>2, <2>3
  <2> QED
    BY <1>1, <2>4 DEF On
<1>9. Len(t) = HeadLen + Len(b1) + HeadLen + Len(b2)
    BY <1>1, <1>2
<1> QED
    BY <1>1, <1>5, <1>6, <1>7, <1>8, <1>9 DEF FourPieces

\* The same of their concatenation.
LEMMA FourOf ==
    ASSUME NEW h1 \in Seq(Byte), NEW b1 \in Seq(Byte), NEW h2 \in Seq(Byte), NEW b2 \in Seq(Byte),
           Len(h1) = HeadLen, Len(h2) = HeadLen
    PROVE  FourPieces((h1 \o b1) \o (h2 \o b2), h1, b1, h2, b2)
<1> DEFINE a == h1 \o b1
           b == h2 \o b2
<1>1. Joined(Byte, h1, b1, a) /\ Joined(Byte, h2, b2, b)
    BY JoinFacts
<1> HIDE DEF a, b
<1>2. Joined(Byte, a, b, a \o b)
    <2>1. a \in Seq(Byte) /\ b \in Seq(Byte)
    BY <1>1 DEF Joined
  <2> QED
    BY <2>1, JoinFacts
<1>3. FourPieces(a \o b, h1, b1, h2, b2)
    BY <1>1, <1>2, Four
<1> QED
    BY <1>3 DEF a, b

SentHead(i) == HeadOf(i, "head", messages[i])
WantedHead(i) == HeadOf(i, "rewritten", messages[i])

\* Both tapes are two heads and two bodies, and differ in the heads that are rewritten.
LEMMA Tapes ==
    ASSUME messages \in [1..2 -> Messages]
    PROVE  /\ FourPieces(Stream, SentHead(1), Body(1), SentHead(2), Body(2))
           /\ FourPieces(ToGet, WantedHead(1), Body(1),
                         IF Upgrade THEN SentHead(2) ELSE WantedHead(2), Body(2))
           /\ \A i \in 1..2 : Shape(i, messages[i], Body(i))
<1>1. \A i \in 1..2 : messages[i] \in Messages /\ messages[i] \in Message
    BY ReaderAssumption
<1>2. \A i \in 1..2 : Shape(i, messages[i], Body(i))
    BY <1>1, Shapes DEF Body
<1>3. \A i \in 1..2 : Body(i) \in Seq(Byte)
    BY <1>2, BodyBytes DEF Shape
<1>4. \A i \in 1..2 : SentHead(i) \in Seq(Byte) /\ Len(SentHead(i)) = HeadLen
  <2> TAKE i \in 1..2
  <2>1. Piece(Byte, HeadOf(i, "head", messages[i]), i, "head", messages[i], HeadLen)
    BY <1>1, HeadPiece
  <2> QED
    BY <2>1 DEF Piece, SentHead
<1>5. \A i \in 1..2 : WantedHead(i) \in Seq(Byte) /\ Len(WantedHead(i)) = HeadLen
  <2> TAKE i \in 1..2
  <2>1. Piece(Byte, HeadOf(i, "rewritten", messages[i]), i, "rewritten", messages[i], HeadLen)
    BY <1>1, HeadPiece
  <2> QED
    BY <2>1 DEF Piece, WantedHead
<1>6. Stream = (SentHead(1) \o Body(1)) \o (SentHead(2) \o Body(2))
    BY DEF Stream, Sent, SentHead, Body
<1>7. FourPieces(Stream, SentHead(1), Body(1), SentHead(2), Body(2))
    BY <1>3, <1>4, <1>6, FourOf
<1>8. FourPieces(ToGet, WantedHead(1), Body(1),
                 IF Upgrade THEN SentHead(2) ELSE WantedHead(2), Body(2))
  <2>1. CASE Upgrade
    <3>1. ToGet = (WantedHead(1) \o Body(1)) \o (SentHead(2) \o Body(2))
      BY <2>1 DEF ToGet, First, Sent, Wanted, SentHead, WantedHead, Body
    <3>2. FourPieces(ToGet, WantedHead(1), Body(1), SentHead(2), Body(2))
      BY <1>3, <1>4, <1>5, <3>1, FourOf
    <3> QED
      BY <2>1, <3>2
  <2>2. CASE ~Upgrade
    <3>1. ToGet = (WantedHead(1) \o Body(1)) \o (WantedHead(2) \o Body(2))
      BY <2>2 DEF ToGet, Both, First, Wanted, WantedHead, Body
    <3>2. FourPieces(ToGet, WantedHead(1), Body(1), WantedHead(2), Body(2))
      BY <1>3, <1>4, <1>5, <3>1, FourOf
    <3> QED
      BY <2>2, <3>2
  <2> QED
    BY <2>1, <2>2
<1> QED
    BY <1>2, <1>7, <1>8

\* Where things are.
Places ==
    /\ Len(Body(1)) \in Nat /\ Len(Body(2)) \in Nat
    /\ Begin(1) = 0 /\ Begin(2) = End(1)
    /\ \A i \in 1..2 : AfterHead(i) = Begin(i) + 2 /\ End(i) = AfterHead(i) + Len(Body(i))
    /\ Len(Stream) = End(2) /\ Len(ToGet) = End(2)
    /\ ToGet \in Seq(Byte)

\* A head is followed by its body, and only the heads to be rewritten are not
\* passed on as they were sent.
Heads ==
    \A i \in 1..2 :
        /\ Stream[Begin(i) + 1] = [msg |-> i, part |-> "head", val |-> messages[i], at |-> 1]
        /\ i = 1 \/ ~Upgrade =>
              On(HeadOf(i, "rewritten", messages[i]), ToGet, Begin(i))
        /\ \A p \in AfterHead(i)+1 .. End(i) : ToGet[p] = Stream[p]

Raw == Upgrade => \A p \in AfterHead(1)+1 .. End(2) : ToGet[p] = Stream[p]

\* How many bytes are before the lines of a chunked body.
Lines(i) == {p \in Nat : p - AfterHead(i) \in Starts(Body(i))}

NextLine(p) == p + LineLen + Stream[p+1].val + CRLF

Bodies ==
    \A i \in 1..2 :
        /\ messages[i].framing = "empty" => End(i) = AfterHead(i)
        /\ messages[i].framing = "length" =>
              messages[i].size \in Nat /\ End(i) = AfterHead(i) + messages[i].size
        /\ messages[i].framing = "chunked" => AfterHead(i) \in Lines(i)
        /\ messages[i].framing = "unsized" /\ AfterHead(i) < End(2) =>
              Stream[AfterHead(i) + 1].part # "line"
        /\ \A p \in Lines(i) :
              /\ messages[i].framing = "chunked" /\ AfterHead(i) <= p
              /\ Stream[p+1].part = "line" /\ Stream[p+1].val \in Nat
              /\ p + LineLen + CRLF <= End(i)
              /\ IF Stream[p+1].val = 0 THEN p + LineLen + CRLF = End(i)
                                        ELSE NextLine(p) \in Lines(i)

Grammar == Places /\ Heads /\ Raw /\ Bodies

\* Where heads and bodies begin and end, in numbers.
LEMMA PlacesHold ==
    ASSUME messages \in [1..2 -> Messages]
    PROVE  Places
<1>1. Len(Body(1)) \in Nat /\ Len(Body(2)) \in Nat
    BY Tapes DEF FourPieces, On
<1>2. /\ Len(Stream) = HeadLen + Len(Body(1)) + HeadLen + Len(Body(2))
      /\ Len(ToGet) = HeadLen + Len(Body(1)) + HeadLen + Len(Body(2))
      /\ ToGet \in Seq(Byte)
    BY Tapes DEF FourPieces
<1> QED
    BY <1>1, <1>2 DEF Places, Begin, AfterHead, End, HeadLen

\* The two bodies stand on both tapes.
LEMMA BodiesStand ==
    ASSUME messages \in [1..2 -> Messages], NEW i \in 1..2
    PROVE  On(Body(i), Stream, AfterHead(i)) /\ On(Body(i), ToGet, AfterHead(i))
<1>1. /\ On(Body(1), Stream, HeadLen) /\ On(Body(1), ToGet, HeadLen)
      /\ On(Body(2), Stream, HeadLen + Len(Body(1)) + HeadLen)
      /\ On(Body(2), ToGet, HeadLen + Len(Body(1)) + HeadLen)
    BY Tapes DEF FourPieces
<1>2. Len(Body(1)) \in Nat
    BY <1>1 DEF On
<1>3. AfterHead(1) = HeadLen /\ AfterHead(2) = HeadLen + Len(Body(1)) + HeadLen
    BY <1>2 DEF AfterHead, Begin, HeadLen
<1> QED
    BY <1>1, <1>3

\* Within a body the two tapes are the same.
LEMMA SameBodies ==
    ASSUME messages \in [1..2 -> Messages], NEW i \in 1..2, NEW p \in AfterHead(i)+1 .. End(i)
    PROVE  ToGet[p] = Stream[p]
<1>1. On(Body(i), Stream, AfterHead(i)) /\ On(Body(i), ToGet, AfterHead(i))
    BY BodiesStand
<1>2. AfterHead(i) \in Nat /\ End(i) = AfterHead(i) + Len(Body(i)) /\ Len(Body(i)) \in Nat
    BY PlacesHold DEF Places
<1> DEFINE k == p - AfterHead(i)
<1>3. k \in 1..Len(Body(i)) /\ AfterHead(i) + k = p
    BY <1>2
<1> HIDE DEF k
<1> QED
    BY <1>1, <1>3 DEF On

\* Where a head is due both tapes have one, and behind it they are the same.
LEMMA HeadsHold ==
    ASSUME messages \in [1..2 -> Messages]
    PROVE  Heads /\ Raw
<1>1. Places
    BY PlacesHold
<1>2. Begin(1) = 0 /\ Begin(2) = HeadLen + Len(Body(1))
    BY DEF Begin
<1>3. ASSUME NEW i \in 1..2
      PROVE  Stream[Begin(i) + 1] = [msg |-> i, part |-> "head", val |-> messages[i], at |-> 1]
  <2>1. On(SentHead(i), Stream, Begin(i))
    BY <1>2, Tapes DEF FourPieces
  <2>2. Piece(Byte, SentHead(i), i, "head", messages[i], HeadLen)
    BY HeadPiece DEF SentHead
  <2>3. 1 \in 1..Len(SentHead(i)) /\ 1 \in 1..HeadLen
    BY <2>2 DEF Piece, HeadLen
  <2>4. Stream[Begin(i) + 1] = SentHead(i)[1]
    BY <2>1, <2>3 DEF On
  <2> QED
    BY <2>2, <2>3, <2>4 DEF Piece
<1>4. ASSUME NEW i \in 1..2, i = 1 \/ ~Upgrade
      PROVE  On(HeadOf(i, "rewritten", messages[i]), ToGet, Begin(i))
  <2>1. On(WantedHead(i), ToGet, Begin(i))
    BY <1>2, <1>4, Tapes DEF FourPieces
  <2> QED
    BY <2>1 DEF WantedHead
<1>5. Heads
    BY <1>3, <1>4, SameBodies DEF Heads
<1>6. ASSUME Upgrade, NEW p \in AfterHead(1)+1 .. End(2)
      PROVE  ToGet[p] = Stream[p]
  <2>1. CASE p \in AfterHead(1)+1 .. End(1)
    BY <2>1, SameBodies
  <2>2. CASE p \in AfterHead(2)+1 .. End(2)
    BY <2>2, SameBodies
  <2>3. CASE p \in Begin(2)+1 .. AfterHead(2)
    <3>1. On(SentHead(2), Stream, Begin(2)) /\ On(SentHead(2), ToGet, Begin(2))
      BY <1>2, <1>6, Tapes DEF FourPieces
    <3>2. Piece(Byte, SentHead(2), 2, "head", messages[2], HeadLen)
      BY HeadPiece DEF SentHead
    <3>3. Len(SentHead(2)) = 2
      BY <3>2 DEF Piece, HeadLen
    <3>4. Begin(2) \in Nat /\ AfterHead(2) = Begin(2) + 2
      BY <1>1 DEF Places
    <3> DEFINE k == p - Begin(2)
    <3>5. p \in Begin(2)+1 .. Begin(2)+2
      BY <2>3, <3>4
    <3>6. k \in 1..2 /\ Begin(2) + k = p
      BY <3>4, <3>5
    <3> HIDE DEF k
    <3> QED
      BY <3>1, <3>3, <3>6 DEF On
  <2> QED
    BY <1>1, <2>1, <2>2, <2>3 DEF Places
<1> QED
    BY <1>5, <1>6 DEF Raw

\* At the place of a line there is one, and the next is as far as it says.
LEMMA LineFacts ==
    ASSUME messages \in [1..2 -> Messages], NEW i \in 1..2, NEW p \in Lines(i)
    PROVE  /\ messages[i].framing = "chunked" /\ AfterHead(i) <= p
           /\ Stream[p+1].part = "line" /\ Stream[p+1].val \in Nat
           /\ p + LineLen + CRLF <= End(i)
           /\ IF Stream[p+1].val = 0 THEN p + LineLen + CRLF = End(i)
                                     ELSE NextLine(p) \in Lines(i)
<1> DEFINE b == Body(i)
           k == p - AfterHead(i)
           v == b[k+1].val
<1>1. Places
    BY PlacesHold
<1>2. /\ AfterHead(i) \in Nat /\ Len(b) \in Nat /\ End(i) = AfterHead(i) + Len(b)
    BY <1>1 DEF Places
<1>3. p \in Nat /\ k \in Starts(b)
    BY DEF Lines
<1>4. k \in 0..(Len(b) - 1) /\ b[k+1].part = "line"
    BY <1>3 DEF Starts
<1>5. Shape(i, messages[i], b)
    BY Tapes
<1> HIDE DEF b
<1>6. k + 1 \in 1..Len(b) /\ AfterHead(i) + (k + 1) = p + 1 /\ AfterHead(i) <= p
    BY <1>2, <1>3, <1>4
<1>7. Stream[p+1] = b[k+1]
    BY <1>6, BodiesStand DEF On, b
<1> HIDE DEF k
<1>8. messages[i].framing = "chunked" /\ Cut(i, b)
  <2>1. ~ (b[k+1].part = "data")
    BY <1>4
  <2> QED
    BY <1>5, <1>6, <2>1 DEF Shape
<1>9. v \in Nat
  <2>1. b[k+1] \in BodyByte(i)
    BY <1>6, <1>8 DEF Cut
  <2> QED
    BY <2>1 DEF BodyByte
<1>10. IF v = 0 THEN k + LineLen + CRLF = Len(b) ELSE k + LineLen + v + CRLF \in Starts(b)
    BY <1>3, <1>8 DEF Cut, NextStart
<1> HIDE DEF v
<1>11. CASE v = 0
  <2>1. p + LineLen + CRLF = End(i)
    BY <1>2, <1>3, <1>6, <1>10, <1>11 DEF LineLen, CRLF, k
  <2>2. End(i) <= End(i)
    BY <1>2
  <2> QED
    BY <1>6, <1>4, <1>7, <1>8, <1>9, <1>11, <2>1, <2>2 DEF v
<1>12. CASE v # 0
  <2>1. k + LineLen + v + CRLF \in 0..(Len(b) - 1)
    BY <1>10, <1>12 DEF Starts
  <2>2. p + LineLen + CRLF <= End(i)
    BY <1>2, <1>3, <1>6, <1>9, <2>1 DEF LineLen, CRLF, k
  <2>3. NextLine(p) = p + LineLen + v + CRLF
    BY <1>7 DEF NextLine, v
  <2>4. NextLine(p) \in Nat /\ NextLine(p) - AfterHead(i) = k + LineLen + v + CRLF
    BY <1>2, <1>3, <1>9, <2>3 DEF LineLen, CRLF, k
  <2>5. NextLine(p) \in Lines(i)
    BY <1>10, <1>12, <2>4 DEF Lines, b
  <2> QED
    BY <1>6, <1>4, <1>7, <1>8, <1>9, <1>12, <2>2, <2>5 DEF v
<1> QED
    BY <1>11, <1>12

\* What the tape has in the bodies.
LEMMA BodiesHold ==
    ASSUME messages \in [1..2 -> Messages]
    PROVE  Bodies
<1> SUFFICES ASSUME NEW i \in 1..2
             PROVE  /\ messages[i].framing = "empty" => End(i) = AfterHead(i)
                    /\ messages[i].framing = "length" =>
                          messages[i].size \in Nat /\ End(i) = AfterHead(i) + messages[i].size
                    /\ messages[i].framing = "chunked" => AfterHead(i) \in Lines(i)
                    /\ messages[i].framing = "unsized" /\ AfterHead(i) < End(2) =>
                          Stream[AfterHead(i) + 1].part # "line"
    BY LineFacts DEF Bodies
<1>1. Places
    BY PlacesHold
<1>2. /\ AfterHead(i) \in Nat /\ Len(Body(i)) \in Nat /\ End(i) = AfterHead(i) + Len(Body(i))
    BY <1>1 DEF Places
<1>3. Shape(i, messages[i], Body(i))
    BY Tapes
<1>4. ASSUME messages[i].framing = "empty" PROVE End(i) = AfterHead(i)
    BY <1>2, <1>3, <1>4 DEF Shape
<1>5. ASSUME messages[i].framing = "length"
      PROVE  messages[i].size \in Nat /\ End(i) = AfterHead(i) + messages[i].size
    BY <1>2, <1>3, <1>5 DEF Shape
<1>6. ASSUME messages[i].framing = "chunked" PROVE AfterHead(i) \in Lines(i)
  <2>1. 0 \in Starts(Body(i)) /\ AfterHead(i) - AfterHead(i) = 0
    BY <1>2, <1>3, <1>6 DEF Shape, Cut
  <2> QED
    BY <1>2, <2>1 DEF Lines
<1>7. ASSUME messages[i].framing = "unsized", AfterHead(i) < End(2)
      PROVE  Stream[AfterHead(i) + 1].part # "line"
  <2>1. CASE Len(Body(i)) # 0
    <3>1. 1 \in 1..Len(Body(i))
      BY <1>2, <2>1
    <3>2. Stream[AfterHead(i) + 1] = Body(i)[1]
      BY <3>1, BodiesStand DEF On
    <3>3. messages[i].framing # "chunked"
      BY <1>7
    <3>4. Body(i)[1].part = "data"
      BY <1>3, <3>1, <3>3 DEF Shape
    <3> QED
      BY <3>2, <3>4
  <2>2. CASE Len(Body(i)) = 0
    <3>1. i = 1 /\ AfterHead(i) = Begin(2)
      BY <1>1, <1>7, <2>2 DEF Places
    <3>2. Stream[AfterHead(i) + 1].part = "head"
      BY <3>1, HeadsHold DEF Heads
    <3> QED
      BY <3>2
  <2> QED
    BY <2>1, <2>2
<1> QED
    BY <1>4, <1>5, <1>6, <1>7

\* All of it follows from what may be sent.
LEMMA GrammarHolds ==
    ASSUME messages \in [1..2 -> Messages]
    PROVE  Grammar
BY PlacesHold, HeadsHold, BodiesHold DEF Grammar

-----------------------------------------------------------------------------
(* Standing on a tape. *)

\* Two pieces that stand one behind the other are one piece.
LEMMA OnJoin ==
    ASSUME NEW t, NEW p \in Nat, NEW a, NEW b, On(a, t, p), On(b, t, p + Len(a))
    PROVE  On(a \o b, t, p) /\ Len(a \o b) = Len(a) + Len(b)
<1>1. PICK r : r = a \o b
    OBVIOUS
<1>2. a \in Seq(Byte) /\ b \in Seq(Byte) /\ Len(a) \in Nat /\ Len(b) \in Nat
    BY DEF On
<1>3. Joined(Byte, a, b, r)
    BY <1>1, <1>2, JoinFacts
<1>4. r \in Seq(Byte) /\ Len(r) = Len(a) + Len(b)
    BY <1>3 DEF Joined
<1>5. ASSUME NEW k \in 1..Len(r) PROVE r[k] = t[p+k]
  <2>1. CASE k <= Len(a)
    BY <1>2, <1>3, <2>1 DEF Joined, On
  <2>2. CASE k > Len(a)
    <3>1. k - Len(a) \in 1..Len(b) /\ r[k] = b[k - Len(a)]
      BY <1>3, <2>2 DEF Joined
    <3>2. b[k - Len(a)] = t[p + Len(a) + (k - Len(a))]
      BY <3>1 DEF On
    <3>3. p + Len(a) + (k - Len(a)) = p + k
      BY <1>2
    <3> QED
      BY <3>1, <3>2, <3>3
  <2> QED
    BY <1>2, <1>4, <2>1, <2>2
<1>6. On(r, t, p)
    BY <1>2, <1>4, <1>5 DEF On
<1> QED
    BY <1>1, <1>4, <1>6

\* The beginning of a piece stands where the piece does.
LEMMA OnFirst ==
    ASSUME NEW t, NEW p, NEW q, On(q, t, p), NEW n \in 0..Len(q)
    PROVE  On(SubSeq(q, 1, n), t, p) /\ Len(SubSeq(q, 1, n)) = n
<1>1. q \in Seq(Byte) /\ Len(q) \in Nat
    BY DEF On
<1>2. SubSeq(q, 1, n) \in Seq(Byte) /\ Len(SubSeq(q, 1, n)) = n
    BY <1>1
<1>3. \A k \in 1..n : SubSeq(q, 1, n)[k] = q[k]
    BY <1>1
<1>4. \A k \in 1..n : q[k] = t[p+k]
    BY <1>1 DEF On
<1> QED
    BY <1>2, <1>3, <1>4 DEF On

\* The rest of a piece stands behind its beginning.
LEMMA OnRest ==
    ASSUME NEW t, NEW p \in Nat, NEW q, On(q, t, p), NEW n \in 0..Len(q)
    PROVE  On(Rest(q, n), t, p + n) /\ Len(Rest(q, n)) = Len(q) - n
<1>1. q \in Seq(Byte) /\ Len(q) \in Nat
    BY DEF On
<1>2. Rest(q, n) \in Seq(Byte) /\ Len(Rest(q, n)) = Len(q) - n
    BY <1>1 DEF Rest
<1>3. \A k \in 1..(Len(q) - n) : Rest(q, n)[k] = q[n + k]
    BY <1>1 DEF Rest
<1>4. \A k \in 1..(Len(q) - n) : q[n + k] = t[p + (n + k)]
    BY <1>1 DEF On
<1>5. \A k \in 1..(Len(q) - n) : p + (n + k) = (p + n) + k
    BY <1>1
<1> QED
    BY <1>1, <1>2, <1>3, <1>4, <1>5 DEF On

\* A piece of one tape is a piece of another that is the same there.
LEMMA OnSame ==
    ASSUME NEW t, NEW u, NEW p \in Nat, NEW q, On(q, t, p),
           \A k \in p+1 .. p + Len(q) : u[k] = t[k]
    PROVE  On(q, u, p)
<1>1. \A k \in 1..Len(q) : p + k \in p+1 .. p + Len(q)
    BY DEF On
<1> QED
    BY <1>1 DEF On

\* A piece without bytes is the empty one.
LEMMA EmptyOn ==
    ASSUME NEW t, NEW p, NEW q, On(q, t, p)
    PROVE  q = <<>> <=> Len(q) = 0
BY DEF On

\* The first byte of a piece is the one of the tape at its place.
LEMMA FirstOf ==
    ASSUME NEW t, NEW p, NEW q, On(q, t, p), Len(q) > 0
    PROVE  Head(q) = t[p + 1]
BY DEF On

\* What a call returns, and what it leaves in the output.
LEMMA Returned ==
    ASSUME NEW t, NEW q, On(got, t, 0), On(q, t, Len(got)), Return(q)
    PROVE  /\ On(got', t, 0) /\ On(output', t, Len(got'))
           /\ Len(got') + Len(output') = Len(got) + Len(q)
           /\ Len(got') \in Nat /\ Len(output') \in Nat
           /\ Len(q) <= BuffLen => output' = <<>>
<1>1. Len(got) \in Nat /\ Len(q) \in Nat /\ q \in Seq(Byte)
    BY DEF On
<1>2. BuffLen \in Nat
    BY ReaderAssumption
<1> DEFINE n == Least(BuffLen, Len(q))
<1>3. n \in 0..Len(q) /\ (n = BuffLen \/ n = Len(q)) /\ (Len(q) <= BuffLen => n = Len(q))
    BY <1>1, <1>2 DEF Least
<1>4. got' = got \o SubSeq(q, 1, n) /\ output' = Rest(q, BuffLen)
    BY DEF Return
<1>5. output' = Rest(q, n)
  <2>1. CASE Len(q) <= BuffLen
    <3>1. Rest(q, BuffLen) = <<>>
      BY <1>1, <1>2, <2>1 DEF Rest
    <3>2. Rest(q, n) = <<>>
      BY <1>1, <1>3, <2>1 DEF Rest
    <3> QED
      BY <1>4, <3>1, <3>2, Zenon
  <2>2. CASE ~ (Len(q) <= BuffLen)
    <3>1. n = BuffLen
      BY <1>2, <2>2 DEF Least
    <3> QED
      BY <1>4, <3>1, Zenon
  <2> QED
    BY <2>1, <2>2
<1> HIDE DEF n
<1>6. On(SubSeq(q, 1, n), t, Len(got)) /\ Len(SubSeq(q, 1, n)) = n
    BY <1>3, OnFirst
<1>7. On(Rest(q, n), t, Len(got) + n) /\ Len(Rest(q, n)) = Len(q) - n
    BY <1>1, <1>3, OnRest
<1>8. On(got \o SubSeq(q, 1, n), t, 0) /\ Len(got \o SubSeq(q, 1, n)) = Len(got) + n
  <2>1. On(SubSeq(q, 1, n), t, 0 + Len(got)) /\ 0 \in Nat
    BY <1>1, <1>6
  <2>2. /\ On(got \o SubSeq(q, 1, n), t, 0)
        /\ Len(got \o SubSeq(q, 1, n)) = Len(got) + Len(SubSeq(q, 1, n))
    <3> DEFINE first == SubSeq(q, 1, n)
    <3>1. On(first, t, 0 + Len(got))
      BY <2>1
    <3> HIDE DEF first
    <3>2. On(got \o first, t, 0) /\ Len(got \o first) = Len(got) + Len(first)
      BY <2>1, <3>1, OnJoin
    <3> QED
      BY <3>2 DEF first
  <2> QED
    BY <1>6, <2>2, Zenon
<1>9. On(got', t, 0) /\ Len(got') = Len(got) + n
    BY <1>4, <1>8
<1>10. On(output', t, Len(got')) /\ Len(output') = Len(q) - n
    BY <1>5, <1>7, <1>9
<1>11. Len(got') \in Nat /\ Len(output') \in Nat /\ Len(got') + Len(output') = Len(got) + Len(q)
    BY <1>1, <1>3, <1>9, <1>10
<1>12. Len(q) <= BuffLen => output' = <<>>
  <2>1. Len(q) <= BuffLen => Len(output') = 0
    BY <1>1, <1>3, <1>10
  <2> QED
    BY <1>10, <2>1, EmptyOn
<1> QED
    BY <1>9, <1>10, <1>11, <1>12

-----------------------------------------------------------------------------
(* The invariant. *)

Consumed == Len(got) + Len(output)

\* What has been got and what is about to be stand on the tape to get; what has
\* been read and what has not stand on the tape of what was sent, behind them.
OnTape ==
    /\ On(got, ToGet, 0) /\ On(output, ToGet, Len(got)) /\ Consumed <= End(2)
    /\ result = "ok" =>
          /\ On(input, Stream, Consumed)
          /\ On(source, Stream, Consumed + Len(input))
          /\ Consumed + Len(input) + Len(source) = End(2)

Ranges ==
    /\ messages \in [1..2 -> Messages]
    /\ bodyToRead \in Nat /\ lastBodyParse \in 0..Len(input)
    /\ finalChunk \in BOOLEAN /\ headerParsed \in BOOLEAN
    /\ result \in {"ok", "closed", "malformed", "end"}

\* Between two messages: a head is next.
AtHead ==
    /\ state = "Head" /\ output = <<>> /\ bodyToRead = 0 /\ finalChunk = FALSE
    /\ lastBodyParse < HeadLen
    /\ \/ headerParsed = FALSE /\ Consumed = 0
       \/ headerParsed = TRUE /\ ~Upgrade /\ Consumed \in {End(1), End(2)}

Past(i) == AfterHead(i) <= Consumed /\ Consumed <= End(i)

InBody(i) ==
    /\ state = "Body" /\ messages[i].framing = "length"
    /\ output = <<>> /\ finalChunk = FALSE /\ lastBodyParse = 0
    /\ Past(i) /\ Consumed + bodyToRead = End(i)

InUpgrade(i) ==
    /\ state = "Upgraded" /\ messages[i].framing = "upgrade"
    /\ bodyToRead = 0 /\ lastBodyParse = 0 /\ AfterHead(i) <= Consumed

\* A line is next.
AtChunk(i) ==
    /\ state = "ChunkedBody" /\ output = <<>> /\ bodyToRead = 0 /\ finalChunk = FALSE
    /\ lastBodyParse < LineLen /\ Consumed \in Lines(i)

InChunk(i) ==
    /\ state = "ChunkedBody" /\ messages[i].framing = "chunked"
    /\ output = <<>> /\ bodyToRead > 0 /\ lastBodyParse = 0
    /\ Past(i)
    /\ \/ finalChunk = TRUE /\ Consumed + bodyToRead = End(i)
       \/ finalChunk = FALSE /\ Consumed + bodyToRead \in Lines(i)

\* A body that is taken to be chunked, and is not: no line is next.
AtData(i) ==
    /\ state = "ChunkedBody" /\ messages[i].framing = "unsized"
    /\ output = <<>> /\ bodyToRead = 0 /\ finalChunk = FALSE
    /\ Consumed = AfterHead(i)

Inside(i) ==
    /\ headerParsed = TRUE /\ (i = 2 => ~Upgrade)
    /\ InBody(i) \/ InUpgrade(i) \/ AtChunk(i) \/ InChunk(i) \/ AtData(i)

Place == AtHead \/ \E i \in 1..2 : Inside(i)

IInv == Ranges /\ OnTape /\ Place /\ FailsBetween

\* The lengths are numbers.
LEMMA Lengths ==
    ASSUME OnTape
    PROVE  Len(got) \in Nat /\ Len(output) \in Nat /\ Consumed \in Nat /\ Consumed <= End(2)
BY DEF OnTape, On, Consumed

-----------------------------------------------------------------------------
(* What a call reads. *)

\* A read of the inner connection gets the next bytes of what was sent.
LEMMA Reading ==
    ASSUME OnTape, result = "ok", NEW n \in Nat, NEW p \in Reads(n)
    PROVE  /\ Len(p) \in 1..n /\ Len(p) \in 0..Len(source)
           /\ On(p, Stream, Consumed + Len(input))
<1>1. On(source, Stream, Consumed + Len(input)) /\ Len(source) \in Nat
    BY DEF OnTape, On
<1>2. PICK k \in 1..Least(n, Len(source)) : p = SubSeq(source, 1, k)
    BY DEF Reads
<1>3. k \in 1..n /\ k \in 0..Len(source)
    BY <1>1 DEF Least
<1>4. On(SubSeq(source, 1, k), Stream, Consumed + Len(input)) /\ Len(SubSeq(source, 1, k)) = k
    BY <1>1, <1>3, OnFirst
<1> QED
    BY <1>2, <1>3, <1>4

\* The bytes there are to parse are the next ones, and there are some.
LEMMA Parsing ==
    ASSUME OnTape, result = "ok", NEW q \in ParseInput, Take(q)
    PROVE  /\ Len(q) \in Nat \ {0} /\ Len(input) <= Len(q)
           /\ On(q, Stream, Consumed) /\ On(source', Stream, Consumed + Len(q))
           /\ Consumed + Len(q) + Len(source') = End(2)
           /\ Head(q) = Stream[Consumed + 1] /\ Consumed < End(2)
<1>1. /\ On(input, Stream, Consumed) /\ On(source, Stream, Consumed + Len(input))
      /\ Consumed + Len(input) + Len(source) = End(2)
    BY DEF OnTape
<1>2. Len(input) \in Nat /\ Len(source) \in Nat /\ Consumed \in Nat
    BY <1>1, Lengths DEF On
<1>3. ASSUME NEW k \in 0..Len(source), Len(q) = Len(input) + k, Len(q) # 0, On(q, Stream, Consumed)
      PROVE  /\ Len(q) \in Nat \ {0} /\ Len(input) <= Len(q)
             /\ On(source', Stream, Consumed + Len(q))
             /\ Consumed + Len(q) + Len(source') = End(2)
             /\ Head(q) = Stream[Consumed + 1] /\ Consumed < End(2)
  <2>1. Len(q) \in Nat \ {0} /\ Len(input) <= Len(q) /\ Len(q) - Len(input) = k
    BY <1>2, <1>3
  <2>2. On(Rest(source, k), Stream, Consumed + Len(input) + k) /\ Len(Rest(source, k)) = Len(source) - k
    <3>1. PICK c \in Nat : c = Consumed + Len(input)
      BY <1>2
    <3>2. On(source, Stream, c)
      BY <1>1, <3>1
    <3>3. On(Rest(source, k), Stream, c + k) /\ Len(Rest(source, k)) = Len(source) - k
      BY <3>2, OnRest
    <3> QED
      BY <3>1, <3>3
  <2>3. source' = Rest(source, k)
    BY <2>1 DEF Take
  <2>4. Consumed + Len(input) + k = Consumed + Len(q)
    BY <1>2, <1>3
  <2>5. On(source', Stream, Consumed + Len(q)) /\ Len(source') = Len(source) - k
    BY <2>2, <2>3, <2>4
  <2>6. Consumed + Len(q) + Len(source') = End(2) /\ Consumed < End(2)
    BY <1>1, <1>2, <1>3, <2>5
  <2>7. Head(q) = Stream[Consumed + 1]
    BY <1>3, <2>1, FirstOf
  <2> QED
    BY <2>1, <2>5, <2>6, <2>7
<1>4. CASE Stale
  <2>1. PICK p \in Reads(ReadLen) : q = input \o p
    BY <1>4 DEF ParseInput
  <2>2. ReadLen \in Nat
    BY ReaderAssumption
  <2>3. /\ Len(p) \in 1..ReadLen /\ Len(p) \in 0..Len(source)
        /\ On(p, Stream, Consumed + Len(input))
    BY <2>2, Reading
  <2>4. On(input \o p, Stream, Consumed) /\ Len(input \o p) = Len(input) + Len(p)
    BY <1>1, <1>2, <2>3, OnJoin
  <2>5. On(q, Stream, Consumed) /\ Len(q) = Len(input) + Len(p) /\ Len(q) # 0
    BY <1>2, <2>1, <2>2, <2>3, <2>4
  <2> QED
    BY <1>3, <2>3, <2>5
<1>5. CASE ~Stale
  <2>1. q = input /\ input # <<>>
    BY <1>5 DEF ParseInput, Stale
  <2>2. Len(input) # 0
    BY <1>1, <2>1, EmptyOn
  <2>3. 0 \in 0..Len(source) /\ Len(q) = Len(input) + 0 /\ Len(q) # 0 /\ On(q, Stream, Consumed)
    BY <1>1, <1>2, <2>1, <2>2
  <2> QED
    BY <1>3, <2>3
<1> QED
    BY <1>4, <1>5

\* The bytes of body a call passes on are the next ones.
LEMMA Passing ==
    ASSUME OnTape, result = "ok", output = <<>>, NEW n \in Nat,
           NEW p \in IF input # <<>> THEN {SubSeq(input, 1, Least(n, Len(input)))} ELSE Reads(n),
           Pass(p)
    PROVE  /\ Len(p) \in 0..n /\ On(p, Stream, Len(got)) /\ got' = got \o p
           /\ On(input', Stream, Len(got) + Len(p))
           /\ On(source', Stream, Len(got) + Len(p) + Len(input'))
           /\ Len(got) + Len(p) + Len(input') + Len(source') = End(2)
<1>1. Consumed = Len(got)
    BY Lengths DEF Consumed
<1>2. /\ On(input, Stream, Len(got)) /\ On(source, Stream, Len(got) + Len(input))
      /\ Len(got) + Len(input) + Len(source) = End(2)
    BY <1>1 DEF OnTape
<1>3. Len(input) \in Nat /\ Len(source) \in Nat /\ Len(got) \in Nat
    BY <1>2, Lengths DEF On
<1>4. got' = got \o p
    BY DEF Pass
<1>5. CASE input # <<>>
  <2> DEFINE k == Least(n, Len(input))
  <2>1. k \in 0..n /\ k \in 0..Len(input)
    BY <1>3 DEF Least
  <2>2. p = SubSeq(input, 1, k)
    BY <1>5
  <2> HIDE DEF k
  <2>3. On(SubSeq(input, 1, k), Stream, Len(got)) /\ Len(SubSeq(input, 1, k)) = k
    BY <1>2, <2>1, OnFirst
  <2>4. Len(p) = k /\ On(p, Stream, Len(got))
    BY <2>2, <2>3
  <2>5. input' = Rest(input, k) /\ source' = source
    BY <1>5, <2>4 DEF Pass
  <2>6. On(Rest(input, k), Stream, Len(got) + k) /\ Len(Rest(input, k)) = Len(input) - k
    BY <1>2, <1>3, <2>1, OnRest
  <2>7. On(input', Stream, Len(got) + Len(p)) /\ Len(input') = Len(input) - Len(p)
    BY <2>4, <2>5, <2>6
  <2>8. Len(got) + Len(p) + Len(input') = Len(got) + Len(input)
    BY <1>3, <2>1, <2>4, <2>7
  <2> QED
    BY <1>2, <1>4, <2>1, <2>4, <2>5, <2>7, <2>8
<1>6. CASE input = <<>>
  <2>1. p \in Reads(n) /\ Len(input) = 0
    BY <1>6
  <2>2. /\ Len(p) \in 1..n /\ Len(p) \in 0..Len(source)
        /\ On(p, Stream, Consumed + Len(input))
    BY <2>1, Reading
  <2>3. On(p, Stream, Len(got))
    BY <1>1, <1>3, <2>1, <2>2
  <2>4. input' = input /\ source' = Rest(source, Len(p))
    BY <1>6 DEF Pass
  <2>5. /\ On(Rest(source, Len(p)), Stream, Len(got) + Len(input) + Len(p))
        /\ Len(Rest(source, Len(p))) = Len(source) - Len(p)
    <3>1. PICK c \in Nat : c = Len(got) + Len(input)
      BY <1>3
    <3>2. On(source, Stream, c)
      BY <1>2, <3>1
    <3>3. /\ On(Rest(source, Len(p)), Stream, c + Len(p))
          /\ Len(Rest(source, Len(p))) = Len(source) - Len(p)
      BY <2>2, <3>2, OnRest
    <3> QED
      BY <3>1, <3>3
  <2>6. Len(got) + Len(input) + Len(p) = Len(got) + Len(p) + Len(input')
    BY <1>3, <2>2, <2>4
  <2>7. /\ On(source', Stream, Len(got) + Len(p) + Len(input'))
        /\ Len(source') = Len(source) - Len(p)
    BY <2>4, <2>5, <2>6
  <2>8. Len(got) + Len(p) + Len(input') + Len(source') = End(2)
    BY <1>2, <1>3, <2>1, <2>2, <2>4, <2>7
  <2>9. On(input', Stream, Len(got) + Len(p))
    BY <2>1, <2>4, <1>2 DEF On
  <2>10. Len(p) \in 0..n
    BY <2>2
  <2> QED
    BY <1>4, <2>3, <2>7, <2>8, <2>9, <2>10
<1> QED
    BY <1>5, <1>6

-----------------------------------------------------------------------------
(* The next state. *)

\* The tapes do not change, as the messages do not.
LEMMA SameTapes ==
    ASSUME messages' = messages
    PROVE  /\ Stream' = Stream /\ ToGet' = ToGet /\ Upgrade' = Upgrade
           /\ \A i \in 1..2 : AfterHead(i)' = AfterHead(i) /\ End(i)' = End(i) /\ Lines(i)' = Lines(i)
BY DEF Stream, ToGet, Upgrade, Both, First, Begin, AfterHead, End, Lines, Body

\* What a call that succeeds has to leave: c bytes are got or about to be.
LEMMA TapeNext ==
    ASSUME messages' = messages, result' = "ok", NEW c \in Nat,
           On(got', ToGet, 0), On(output', ToGet, Len(got')), Len(got') + Len(output') = c,
           On(input', Stream, c), On(source', Stream, c + Len(input')),
           c + Len(input') + Len(source') = End(2)
    PROVE  OnTape' /\ Consumed' = c
<1>1. Stream' = Stream /\ ToGet' = ToGet /\ End(2)' = End(2)
    BY SameTapes
<1>2. Consumed' = c
    BY DEF Consumed
<1>3. Len(input') \in Nat /\ Len(source') \in Nat
    BY DEF On
<1>4. c <= End(2)
    BY <1>3
<1> QED
    BY <1>1, <1>2, <1>4 DEF OnTape

\* A call that fails leaves the caller's side of the tape.
LEMMA TapeKept ==
    ASSUME OnTape, UNCHANGED <<messages, got, output>>, result' # "ok"
    PROVE  OnTape' /\ Consumed' = Consumed
<1>1. ToGet' = ToGet /\ End(2)' = End(2)
    BY SameTapes
<1> QED
    BY <1>1 DEF OnTape, Consumed

\* A call that changes no state of the parser leaves its place.
LEMMA PlaceKept ==
    ASSUME Place, UNCHANGED <<messages, state, counters, got, output>>
    PROVE  Place'
<1>1. /\ Upgrade' = Upgrade
      /\ \A i \in 1..2 : AfterHead(i)' = AfterHead(i) /\ End(i)' = End(i) /\ Lines(i)' = Lines(i)
    BY SameTapes
<1>2. Consumed' = Consumed
    BY DEF Consumed
<1>3. CASE AtHead
  <2>1. AtHead'
    BY <1>1, <1>2, <1>3 DEF AtHead, counters
  <2> QED
    BY <2>1 DEF Place
<1>4. ASSUME NEW i \in 1..2, Inside(i) PROVE Inside(i)'
  <2>1. /\ InBody(i) => InBody(i)'
        /\ InUpgrade(i) => InUpgrade(i)'
        /\ AtChunk(i) => AtChunk(i)'
        /\ InChunk(i) => InChunk(i)'
        /\ AtData(i) => AtData(i)'
    BY <1>1, <1>2 DEF InBody, InUpgrade, AtChunk, InChunk, AtData, Past, counters
  <2> QED
    BY <1>1, <1>4, <2>1 DEF Inside, counters
<1> QED
    BY <1>3, <1>4 DEF Place

\* The state a call leaves, by what comes next.
LEMMA AtHeadNext ==
    ASSUME messages' = messages, state' = "Head", output' = <<>>, bodyToRead' = 0,
           finalChunk' = FALSE, lastBodyParse' < HeadLen, headerParsed' = TRUE, ~Upgrade,
           NEW i \in 1..2, Consumed' = End(i)
    PROVE  Place'
<1>1. Upgrade' = Upgrade /\ \A j \in 1..2 : End(j)' = End(j)
    BY SameTapes
<1>2. Consumed' \in {End(1)', End(2)'}
    BY <1>1
<1>3. AtHead'
    BY <1>1, <1>2 DEF AtHead
<1> QED
    BY <1>3 DEF Place

\* ... in a body of known length,
LEMMA InBodyNext ==
    ASSUME messages' = messages, NEW i \in 1..2, i = 2 => ~Upgrade, headerParsed' = TRUE,
           state' = "Body", messages[i].framing = "length",
           output' = <<>>, finalChunk' = FALSE, lastBodyParse' = 0,
           AfterHead(i) <= Consumed', Consumed' <= End(i), Consumed' + bodyToRead' = End(i)
    PROVE  Place'
<1>1. Upgrade' = Upgrade /\ AfterHead(i)' = AfterHead(i) /\ End(i)' = End(i)
    BY SameTapes
<1>2. InBody(i)'
    BY <1>1 DEF InBody, Past
<1>3. Inside(i)'
    BY <1>1, <1>2 DEF Inside
<1> QED
    BY <1>3 DEF Place

\* ... in an upgraded connection,
LEMMA InUpgradeNext ==
    ASSUME messages' = messages, NEW i \in 1..2, i = 2 => ~Upgrade, headerParsed' = TRUE,
           state' = "Upgraded", messages[i].framing = "upgrade",
           bodyToRead' = 0, lastBodyParse' = 0, AfterHead(i) <= Consumed'
    PROVE  Place'
<1>1. Upgrade' = Upgrade /\ AfterHead(i)' = AfterHead(i)
    BY SameTapes
<1>2. InUpgrade(i)'
    BY <1>1 DEF InUpgrade
<1>3. Inside(i)'
    BY <1>1, <1>2 DEF Inside
<1> QED
    BY <1>3 DEF Place

\* ... at the line of a chunk,
LEMMA AtChunkNext ==
    ASSUME messages' = messages, NEW i \in 1..2, i = 2 => ~Upgrade, headerParsed' = TRUE,
           state' = "ChunkedBody", output' = <<>>, bodyToRead' = 0, finalChunk' = FALSE,
           lastBodyParse' < LineLen, Consumed' \in Lines(i)
    PROVE  Place'
<1>1. Upgrade' = Upgrade /\ Lines(i)' = Lines(i)
    BY SameTapes
<1>2. AtChunk(i)'
    BY <1>1 DEF AtChunk
<1>3. Inside(i)'
    BY <1>1, <1>2 DEF Inside
<1> QED
    BY <1>3 DEF Place

\* ... in a chunk,
LEMMA InChunkNext ==
    ASSUME messages' = messages, NEW i \in 1..2, i = 2 => ~Upgrade, headerParsed' = TRUE,
           state' = "ChunkedBody", messages[i].framing = "chunked",
           output' = <<>>, bodyToRead' > 0, lastBodyParse' = 0,
           AfterHead(i) <= Consumed', Consumed' <= End(i),
           \/ finalChunk' = TRUE /\ Consumed' + bodyToRead' = End(i)
           \/ finalChunk' = FALSE /\ Consumed' + bodyToRead' \in Lines(i)
    PROVE  Place'
<1>1. /\ Upgrade' = Upgrade /\ AfterHead(i)' = AfterHead(i) /\ End(i)' = End(i)
      /\ Lines(i)' = Lines(i)
    BY SameTapes
<1>2. InChunk(i)'
    BY <1>1 DEF InChunk, Past
<1>3. Inside(i)'
    BY <1>1, <1>2 DEF Inside
<1> QED
    BY <1>3 DEF Place

\* ... at data taken for a line.
LEMMA AtDataNext ==
    ASSUME messages' = messages, NEW i \in 1..2, i = 2 => ~Upgrade, headerParsed' = TRUE,
           state' = "ChunkedBody", messages[i].framing = "unsized",
           output' = <<>>, bodyToRead' = 0, finalChunk' = FALSE, Consumed' = AfterHead(i)
    PROVE  Place'
<1>1. Upgrade' = Upgrade /\ AfterHead(i)' = AfterHead(i)
    BY SameTapes
<1>2. AtData(i)'
    BY <1>1 DEF AtData
<1>3. Inside(i)'
    BY <1>1, <1>2 DEF Inside
<1> QED
    BY <1>3 DEF Place

\* What each state tells.
LEMMA InHead ==
    ASSUME Place, state = "Head"
    PROVE  AtHead
BY DEF Place, Inside, InBody, InUpgrade, AtChunk, InChunk, AtData

\* In every other state the reader is inside a message.
LEMMA OutsideHead ==
    ASSUME Place, state # "Head"
    PROVE  \E i \in 1..2 : Inside(i)
BY DEF Place, AtHead

\* Where a line is parsed one is due, or the body is not chunked.
LEMMA AtLinePlace ==
    ASSUME Place, AtLine
    PROVE  \E i \in 1..2 : Inside(i) /\ (AtChunk(i) \/ AtData(i))
<1>1. PICK i \in 1..2 : Inside(i)
    BY OutsideHead DEF AtLine
<1> QED
    BY <1>1 DEF AtLine, Inside, InBody, InUpgrade, InChunk

\* Nothing of a message to be passed on as it is, is before the head is behind.
LEMMA NotUpgraded ==
    ASSUME Grammar, NEW i \in 1..2, Inside(i), ~InUpgrade(i)
    PROVE  ~Upgrade
<1>1. CASE i = 2
    BY <1>1 DEF Inside
<1>2. CASE i = 1
  <2>1. AtChunk(1) => messages[1].framing = "chunked"
    BY DEF AtChunk, Grammar, Bodies
  <2>2. messages[1].framing \in {"length", "chunked", "unsized"}
    BY <1>2, <2>1 DEF Inside, InBody, InChunk, AtData
  <2> QED
    BY <2>2 DEF Upgrade
<1> QED
    BY <1>1, <1>2

-----------------------------------------------------------------------------
(* A head. *)

\* The numbers of the reader, with what they are counted from.
LEMMA Where ==
    ASSUME Grammar, NEW i \in 1..2
    PROVE  /\ Begin(i) \in Nat /\ AfterHead(i) = Begin(i) + 2 /\ AfterHead(i) \in Nat
           /\ End(i) \in Nat /\ AfterHead(i) <= End(i) /\ End(i) <= End(2)
           /\ Begin(1) = 0 /\ Begin(2) = End(1) /\ End(1) + 2 <= End(2)
BY DEF Grammar, Places

\* Where a head is parsed one is due: the next byte is its first.
LEMMA HeadIsNext ==
    ASSUME Grammar, OnTape, AtHead, result = "ok", NEW q \in ParseInput, Take(q)
    PROVE  \E i \in 1..2 :
              /\ Consumed = Begin(i) /\ (i = 2 => ~Upgrade)
              /\ Head(q) = [msg |-> i, part |-> "head", val |-> messages[i], at |-> 1]
<1>1. Head(q) = Stream[Consumed + 1] /\ Consumed < End(2)
    BY Parsing
<1>2. \A i \in 1..2 :
        Stream[Begin(i) + 1] = [msg |-> i, part |-> "head", val |-> messages[i], at |-> 1]
    BY DEF Grammar, Heads
<1>3. Begin(1) = 0 /\ Begin(2) = End(1) /\ End(2) \in Nat
    BY Where
<1>4. CASE Consumed = 0
    BY <1>1, <1>2, <1>3, <1>4
<1>5. CASE ~Upgrade /\ Consumed \in {End(1), End(2)}
  <2>1. Consumed = Begin(2)
    BY <1>1, <1>3, <1>5
  <2>2. Head(q) = Stream[Begin(2) + 1]
    BY <1>1, <2>1
  <2> QED
    BY <1>2, <1>5, <2>1, <2>2
<1> QED
    BY <1>4, <1>5 DEF AtHead

\* A head that is cut is kept, and nothing passed on.
LEMMA ReadHeadPartStep ==
    ASSUME Grammar, Ranges, OnTape, Place, result = "ok", ReadHeadPart
    PROVE  Ranges' /\ OnTape' /\ Place'
<1>1. PICK q \in ParseInput : /\ Len(q) < HeadLen
                              /\ Take(q) /\ input' = q /\ lastBodyParse' = Len(q)
    BY DEF ReadHeadPart
<1>2. /\ UNCHANGED <<messages, state, output, bodyToRead, finalChunk, headerParsed, result, got>>
      /\ state = "Head"
    BY DEF ReadHeadPart
<1>3. AtHead
    BY <1>2, InHead
<1>4. /\ Len(q) \in Nat /\ On(q, Stream, Consumed) /\ On(source', Stream, Consumed + Len(q))
      /\ Consumed + Len(q) + Len(source') = End(2)
    BY <1>1, Parsing
<1>5. OnTape' /\ Consumed' = Consumed
  <2>1. On(got', ToGet, 0) /\ On(output', ToGet, Len(got')) /\ Len(got') + Len(output') = Consumed
    BY <1>2 DEF OnTape, Consumed
  <2>2. On(input', Stream, Consumed) /\ On(source', Stream, Consumed + Len(input'))
    BY <1>1, <1>4
  <2>3. Consumed + Len(input') + Len(source') = End(2) /\ Consumed \in Nat
    BY <1>1, <1>4, Lengths
  <2>4. messages' = messages /\ result' = "ok"
    BY <1>2
  <2> QED
    BY <2>1, <2>2, <2>3, <2>4, TapeNext
<1>6. Ranges'
    BY <1>1, <1>2, <1>4 DEF Ranges
<1>7. AtHead'
  <2>1. Upgrade' = Upgrade /\ \A i \in 1..2 : End(i)' = End(i)
    BY <1>2, SameTapes
  <2> QED
    BY <1>1, <1>2, <1>3, <1>5, <2>1 DEF AtHead
<1> QED
    BY <1>5, <1>6, <1>7 DEF Place

\* The head of a message that has not been upgraded: it is returned alone.
LEMMA PlainHead ==
    ASSUME Grammar, Ranges, OnTape, AtHead, result = "ok",
           NEW i \in 1..2, Consumed = Begin(i), i = 2 => ~Upgrade,
           NEW q \in ParseInput, Len(q) >= HeadLen, Take(q),
           Return(output \o HeadOf(i, "rewritten", messages[i])), input' = Rest(q, HeadLen),
           messages' = messages, result' = result
    PROVE  OnTape' /\ Consumed' = AfterHead(i) /\ output' = <<>> /\ Len(input') \in Nat
<1>1. /\ Len(q) \in Nat /\ On(q, Stream, Consumed) /\ On(source', Stream, Consumed + Len(q))
      /\ Consumed + Len(q) + Len(source') = End(2)
    BY Parsing
<1>2. PICK h : h = HeadOf(i, "rewritten", messages[i])
    OBVIOUS
<1>3. On(h, ToGet, Consumed) /\ Len(h) = 2
  <2>1. On(h, ToGet, Consumed)
    BY <1>2 DEF Grammar, Heads
  <2>2. Piece(Byte, h, i, "rewritten", messages[i], HeadLen)
    BY <1>2, HeadPiece DEF Ranges
  <2> QED
    BY <2>1, <2>2 DEF Piece, HeadLen
<1>4. output = <<>> /\ Consumed = Len(got) /\ Consumed \in Nat
    BY Lengths DEF AtHead, Consumed
<1>5. output \o h = h
    BY <1>3, <1>4 DEF On
<1>6. Return(h)
    BY <1>2, <1>5
<1>7. /\ On(got', ToGet, 0) /\ On(output', ToGet, Len(got'))
      /\ Len(got') + Len(output') = Len(got) + Len(h)
      /\ Len(h) <= BuffLen => output' = <<>>
  <2>1. On(got, ToGet, 0) /\ On(h, ToGet, Len(got))
    BY <1>3, <1>4 DEF OnTape
  <2> QED
    BY <1>6, <2>1, Returned
<1>8. On(Rest(q, 2), Stream, Consumed + 2) /\ Len(Rest(q, 2)) = Len(q) - 2
  <2>1. 2 \in 0..Len(q)
    BY <1>1 DEF HeadLen
  <2> QED
    BY <1>1, <1>4, <2>1, OnRest
<1>9. input' = Rest(q, 2)
    BY DEF HeadLen
<1>10. On(input', Stream, Consumed + 2) /\ Len(input') = Len(q) - 2
    BY <1>8, <1>9
<1>11. PICK c \in Nat : c = Consumed + 2
    BY <1>4
<1>12. /\ Len(got') + Len(output') = c /\ On(input', Stream, c) /\ Len(input') = Len(q) - 2
       /\ c + Len(input') = Consumed + Len(q)
    BY <1>1, <1>3, <1>4, <1>7, <1>10, <1>11
<1>13. On(source', Stream, c + Len(input')) /\ c + Len(input') + Len(source') = End(2)
    BY <1>1, <1>12
<1>14. OnTape' /\ Consumed' = c
    BY <1>7, <1>12, <1>13, TapeNext
<1>15. c = AfterHead(i)
    BY <1>11, Where
<1>16. output' = <<>>
  <2>1. Len(h) <= BuffLen
    BY <1>3, ReaderAssumption DEF HeadLen
  <2> QED
    BY <1>7, <2>1
<1> QED
    BY <1>1, <1>12, <1>14, <1>15, <1>16 DEF On

\* The head of a message that is upgraded: what was read with it is returned too.
LEMMA UpgradedHead ==
    ASSUME Grammar, Ranges, OnTape, AtHead, result = "ok",
           NEW i \in 1..2, Consumed = Begin(i), i = 2 => ~Upgrade, i = 1 => Upgrade,
           NEW q \in ParseInput, Len(q) >= HeadLen, Take(q),
           Return(output \o HeadOf(i, "rewritten", messages[i]) \o Rest(q, HeadLen)), input' = <<>>,
           messages' = messages, result' = result
    PROVE  OnTape' /\ AfterHead(i) <= Consumed' /\ Len(input') = 0
<1>1. /\ Len(q) \in Nat /\ On(q, Stream, Consumed) /\ On(source', Stream, Consumed + Len(q))
      /\ Consumed + Len(q) + Len(source') = End(2)
    BY Parsing
<1>2. PICK h : h = HeadOf(i, "rewritten", messages[i])
    OBVIOUS
<1>3. On(h, ToGet, Consumed) /\ Len(h) = 2
  <2>1. On(h, ToGet, Consumed)
    BY <1>2 DEF Grammar, Heads
  <2>2. Piece(Byte, h, i, "rewritten", messages[i], HeadLen)
    BY <1>2, HeadPiece DEF Ranges
  <2> QED
    BY <2>1, <2>2 DEF Piece, HeadLen
<1>4. output = <<>> /\ Consumed = Len(got) /\ Consumed \in Nat
    BY Lengths DEF AtHead, Consumed
<1>5. output \o h = h
    BY <1>3, <1>4 DEF On
<1>6. PICK l : l = Rest(q, 2)
    OBVIOUS
<1>7. PICK c \in Nat : c = Consumed + 2
    BY <1>4
<1>8. On(l, Stream, c) /\ Len(l) = Len(q) - 2 /\ Len(l) \in Nat
  <2>1. 2 \in 0..Len(q)
    BY <1>1 DEF HeadLen
  <2>2. On(Rest(q, 2), Stream, Consumed + 2) /\ Len(Rest(q, 2)) = Len(q) - 2
    BY <1>1, <1>4, <2>1, OnRest
  <2> QED
    BY <1>6, <1>7, <2>2 DEF On
<1>9. Return(h \o l)
    BY <1>2, <1>5, <1>6 DEF HeadLen
<1>10. c = AfterHead(i) /\ c + Len(l) <= End(2)
  <2>1. Len(source') \in Nat
    BY <1>1 DEF On
  <2>2. c = AfterHead(i)
    BY <1>7, Where
  <2>3. c + Len(l) = Consumed + Len(q) /\ Consumed + Len(q) <= End(2)
    BY <1>1, <1>4, <1>7, <1>8, <2>1
  <2> QED
    BY <2>2, <2>3
<1>11. \A k \in c+1 .. c + Len(l) : ToGet[k] = Stream[k]
  <2>1. CASE i = 1
    BY <1>8, <1>10, <2>1, Where DEF Grammar, Raw
  <2>2. CASE i = 2
    BY <1>8, <1>10, <2>2, Where DEF Grammar, Heads
  <2> QED
    BY <2>1, <2>2
<1>12. On(l, ToGet, c)
    BY <1>8, <1>11, OnSame
<1>13. On(h \o l, ToGet, Consumed) /\ Len(h \o l) = 2 + Len(l)
  <2>1. On(l, ToGet, Consumed + Len(h))
    BY <1>3, <1>7, <1>12
  <2>2. On(h \o l, ToGet, Consumed) /\ Len(h \o l) = Len(h) + Len(l)
    <3>1. PICK p \in Nat : p = Consumed
      BY <1>4
    <3>2. On(h, ToGet, p) /\ On(l, ToGet, p + Len(h))
      BY <1>3, <2>1, <3>1
    <3>3. On(h \o l, ToGet, p) /\ Len(h \o l) = Len(h) + Len(l)
      BY <3>2, OnJoin
    <3> QED
      BY <3>1, <3>3
  <2> QED
    BY <1>3, <2>2
<1>14. PICK r : r = h \o l
    OBVIOUS
<1>15. On(r, ToGet, Len(got)) /\ Len(r) = 2 + Len(l) /\ Return(r)
    BY <1>4, <1>9, <1>13, <1>14
<1>16. /\ On(got', ToGet, 0) /\ On(output', ToGet, Len(got'))
       /\ Len(got') + Len(output') = Len(got) + Len(r)
    BY <1>15, Returned DEF OnTape
<1>17. PICK d \in Nat : d = Consumed + Len(q)
    BY <1>1, <1>4
<1>18. Len(got') + Len(output') = d
    BY <1>1, <1>4, <1>8, <1>15, <1>16, <1>17
<1>19. Len(input') = 0 /\ On(input', Stream, d)
    BY DEF On
<1>20. On(source', Stream, d + Len(input')) /\ d + Len(input') + Len(source') = End(2)
    BY <1>1, <1>17, <1>19
<1>21. OnTape' /\ Consumed' = d
    BY <1>16, <1>18, <1>19, <1>20, TapeNext
<1>22. AfterHead(i) <= d
    BY <1>1, <1>4, <1>7, <1>8, <1>10, <1>17
<1> QED
    BY <1>19, <1>21, <1>22

\* A head is passed on rewritten, and its framing sets the state.
LEMMA ReadHeadStep ==
    ASSUME Grammar, Ranges, OnTape, Place, result = "ok", ReadHead
    PROVE  Ranges' /\ OnTape' /\ Place'
<1>1. AtHead
    BY InHead DEF ReadHead
<1>2. PICK q \in ParseInput :
        /\ Len(q) >= HeadLen
        /\ Take(q)
        /\ LET m == Head(q).val
               next == After(m)
               head == HeadOf(Head(q).msg, "rewritten", m)
               left == Rest(q, HeadLen)
           IN /\ state' = IF next = <<"Body", 0>> THEN "Head" ELSE next[1]
              /\ bodyToRead' = next[2]
              /\ IF next[1] = "Upgraded"
                 THEN Return(output \o head \o left) /\ input' = <<>>
                 ELSE Return(output \o head) /\ input' = left
    BY DEF ReadHead
<1>3. /\ lastBodyParse' = 0 /\ headerParsed' = TRUE
      /\ UNCHANGED <<messages, finalChunk, result>>
    BY DEF ReadHead
<1>4. PICK i \in 1..2 : /\ Consumed = Begin(i) /\ (i = 2 => ~Upgrade)
                        /\ Head(q) = [msg |-> i, part |-> "head", val |-> messages[i], at |-> 1]
    BY <1>1, <1>2, HeadIsNext
<1>5. PICK m : m = messages[i]
    OBVIOUS
<1>6. Head(q).val = m /\ Head(q).msg = i
    BY <1>4, <1>5
<1>7. /\ state' = IF After(m) = <<"Body", 0>> THEN "Head" ELSE After(m)[1]
      /\ bodyToRead' = After(m)[2]
      /\ IF After(m)[1] = "Upgraded"
         THEN Return(output \o HeadOf(i, "rewritten", m) \o Rest(q, HeadLen)) /\ input' = <<>>
         ELSE Return(output \o HeadOf(i, "rewritten", m)) /\ input' = Rest(q, HeadLen)
    BY <1>2, <1>6
<1>8. m \in Message
    BY <1>5, ReaderAssumption DEF Ranges
<1>9. finalChunk' = FALSE
    BY <1>1, <1>3 DEF AtHead
<1>10. CASE m.framing = "upgrade"
  <2>1. After(m) = <<"Upgraded", 0>>
    BY <1>10 DEF After
  <2>2. /\ state' = "Upgraded" /\ bodyToRead' = 0 /\ input' = <<>>
        /\ Return(output \o HeadOf(i, "rewritten", messages[i]) \o Rest(q, HeadLen))
    BY <1>5, <1>7, <2>1
  <2>3. i = 1 => Upgrade
    BY <1>5, <1>10 DEF Upgrade
  <2>4. OnTape' /\ AfterHead(i) <= Consumed' /\ Len(input') = 0
    BY <1>1, <1>2, <1>3, <1>4, <2>2, <2>3, UpgradedHead
  <2>5. Place'
    BY <1>3, <1>4, <1>5, <1>10, <2>2, <2>4, InUpgradeNext
  <2>6. Ranges'
    BY <1>3, <1>9, <2>2, <2>4 DEF Ranges
  <2> QED
    BY <2>4, <2>5, <2>6
<1>11. CASE m.framing # "upgrade"
  <2>1. /\ After(m)[1] \in {"Body", "ChunkedBody"} /\ After(m)[2] \in Nat
        /\ m.framing = "empty" => After(m) = <<"Body", 0>>
        /\ m.framing = "length" => After(m) = <<"Body", m.size>>
        /\ m.framing \in {"chunked", "unsized"} => After(m) = <<"ChunkedBody", 0>>
        /\ m.framing \in {"empty", "length", "chunked", "unsized"}
        /\ m.framing = "length" => m.size \in Nat
    <3>1. CASE m.framing = "empty"
      BY <3>1 DEF After
    <3>2. CASE m.framing = "length"
      <4>1. After(m) = <<"Body", m.size>> /\ m.size \in Nat
        BY <1>8, <3>2 DEF After, Message
      <4> QED
        BY <3>2, <4>1
    <3>3. CASE m.framing \in {"chunked", "unsized"}
      <4>1. After(m) = <<"ChunkedBody", 0>>
        BY <3>3 DEF After
      <4> QED
        BY <3>3, <4>1
    <3>4. m.framing \in {"empty", "length", "upgrade", "unsized", "chunked"}
      BY <1>8 DEF Message
    <3> QED
      BY <1>11, <3>1, <3>2, <3>3, <3>4
  <2>2. After(m)[1] # "Upgraded"
    BY <2>1
  <2>3. Return(output \o HeadOf(i, "rewritten", messages[i])) /\ input' = Rest(q, HeadLen)
    BY <1>5, <1>7, <2>2
  <2>4. OnTape' /\ Consumed' = AfterHead(i) /\ output' = <<>> /\ Len(input') \in Nat
    BY <1>1, <1>2, <1>3, <1>4, <2>3, PlainHead
  <2>5. bodyToRead' \in Nat
    BY <1>7, <2>1
  <2>6. Ranges'
    BY <1>3, <1>9, <2>4, <2>5 DEF Ranges
  <2>7. ~Upgrade
    BY <1>4, <1>5, <1>11 DEF Upgrade
  <2>8. Bodies
    BY DEF Grammar
  <2>9. AfterHead(i) \in Nat /\ End(i) \in Nat
    BY Where
  <2>10. CASE m.framing = "empty"
    <3>1. state' = "Head" /\ bodyToRead' = 0 /\ AfterHead(i) = End(i)
      BY <1>5, <1>7, <2>1, <2>8, <2>10 DEF Bodies
    <3>2. lastBodyParse' < HeadLen /\ Consumed' = End(i)
      BY <1>3, <2>4, <3>1 DEF HeadLen
    <3>3. Place'
      BY <1>3, <1>9, <2>4, <2>7, <3>1, <3>2, AtHeadNext
    <3> QED
      BY <2>4, <2>6, <3>3
  <2>11. CASE m.framing = "length"
    <3>1. m.size \in Nat /\ End(i) = AfterHead(i) + m.size /\ bodyToRead' = m.size
      BY <1>5, <1>7, <2>1, <2>8, <2>11 DEF Bodies
    <3>2. CASE m.size = 0
      <4>1. state' = "Head" /\ bodyToRead' = 0 /\ AfterHead(i) = End(i)
        BY <1>7, <2>1, <2>9, <2>11, <3>1, <3>2
      <4>2. lastBodyParse' < HeadLen /\ Consumed' = End(i)
        BY <1>3, <2>4, <4>1 DEF HeadLen
      <4>3. Place'
        BY <1>3, <1>9, <2>4, <2>7, <4>1, <4>2, AtHeadNext
      <4> QED
        BY <2>4, <2>6, <4>3
    <3>3. CASE m.size # 0
      <4>1. state' = "Body"
        BY <1>7, <2>1, <2>11, <3>3
      <4>2. /\ AfterHead(i) <= Consumed' /\ Consumed' <= End(i)
            /\ Consumed' + bodyToRead' = End(i)
        BY <2>4, <2>9, <3>1
      <4>3. Place'
        BY <1>3, <1>4, <1>5, <1>9, <2>4, <2>11, <4>1, <4>2, InBodyNext
      <4> QED
        BY <2>4, <2>6, <4>3
    <3> QED
      BY <3>2, <3>3
  <2>12. CASE m.framing = "chunked"
    <3>1. state' = "ChunkedBody" /\ bodyToRead' = 0 /\ AfterHead(i) \in Lines(i)
      BY <1>5, <1>7, <2>1, <2>8, <2>12 DEF Bodies
    <3>2. lastBodyParse' < LineLen /\ Consumed' \in Lines(i)
      BY <1>3, <2>4, <3>1 DEF LineLen
    <3>3. Place'
      BY <1>3, <1>4, <1>9, <2>4, <3>1, <3>2, AtChunkNext
    <3> QED
      BY <2>4, <2>6, <3>3
  <2>13. CASE m.framing = "unsized"
    <3>1. state' = "ChunkedBody" /\ bodyToRead' = 0
      BY <1>7, <2>1, <2>13
    <3>2. Place'
      BY <1>3, <1>4, <1>5, <1>9, <2>4, <2>13, <3>1, AtDataNext
    <3> QED
      BY <2>4, <2>6, <3>2
  <2> QED
    BY <2>1, <2>10, <2>11, <2>12, <2>13
<1> QED
    BY <1>10, <1>11

-----------------------------------------------------------------------------
(* What is passed on. *)

\* What the caller's buffer had no room for is passed on next.
LEMMA ReadOutputStep ==
    ASSUME Grammar, Ranges, OnTape, Place, result = "ok", ReadOutput
    PROVE  Ranges' /\ OnTape' /\ Place'
<1>1. /\ state # "Head" /\ output # <<>> /\ Return(output)
      /\ UNCHANGED <<messages, source, state, input, counters, result>>
    BY DEF ReadOutput
<1>2. PICK i \in 1..2 : Inside(i)
    BY <1>1, OutsideHead
<1>3. InUpgrade(i) /\ headerParsed = TRUE /\ (i = 2 => ~Upgrade)
    BY <1>1, <1>2 DEF Inside, InBody, AtChunk, InChunk, AtData
<1>4. /\ On(got', ToGet, 0) /\ On(output', ToGet, Len(got'))
      /\ Len(got') + Len(output') = Len(got) + Len(output)
    BY <1>1, Returned DEF OnTape
<1>5. Len(got') + Len(output') = Consumed /\ Consumed \in Nat
    BY <1>4, Lengths DEF Consumed
<1>6. /\ On(input', Stream, Consumed) /\ On(source', Stream, Consumed + Len(input'))
      /\ Consumed + Len(input') + Len(source') = End(2)
    BY <1>1 DEF OnTape
<1>7. messages' = messages /\ result' = "ok"
    BY <1>1
<1>8. OnTape' /\ Consumed' = Consumed
    BY <1>4, <1>5, <1>6, <1>7, TapeNext
<1>9. Ranges'
    BY <1>1 DEF Ranges, counters
<1>10. Place'
  <2>1. /\ state' = "Upgraded" /\ messages[i].framing = "upgrade" /\ headerParsed' = TRUE
        /\ bodyToRead' = 0 /\ lastBodyParse' = 0 /\ AfterHead(i) <= Consumed'
    BY <1>1, <1>3, <1>8 DEF InUpgrade, counters
  <2> QED
    BY <1>3, <1>7, <2>1, InUpgradeNext
<1> QED
    BY <1>8, <1>9, <1>10

\* Bytes that are passed on as they were sent.
LEMMA PassedOn ==
    ASSUME OnTape, result = "ok", output = <<>>, NEW n \in Nat,
           NEW p \in IF input # <<>> THEN {SubSeq(input, 1, Least(n, Len(input)))} ELSE Reads(n),
           Pass(p), UNCHANGED <<messages, output, result>>,
           \A k \in Consumed + 1 .. Consumed + Len(p) : ToGet[k] = Stream[k]
    PROVE  /\ OnTape' /\ Consumed' = Consumed + Len(p) /\ Len(input') \in Nat
           /\ got' = got \o p /\ output' = <<>>
<1>1. /\ Len(p) \in 0..n /\ On(p, Stream, Len(got)) /\ got' = got \o p
      /\ On(input', Stream, Len(got) + Len(p))
      /\ On(source', Stream, Len(got) + Len(p) + Len(input'))
      /\ Len(got) + Len(p) + Len(input') + Len(source') = End(2)
    BY Passing
<1>2. Consumed = Len(got) /\ Len(got) \in Nat
    BY Lengths DEF Consumed
<1>3. On(p, ToGet, Len(got))
    BY <1>1, <1>2, OnSame
<1>4. On(got', ToGet, 0) /\ Len(got') = Len(got) + Len(p)
  <2>1. On(got, ToGet, 0) /\ On(p, ToGet, 0 + Len(got)) /\ 0 \in Nat
    BY <1>2, <1>3 DEF OnTape
  <2>2. On(got \o p, ToGet, 0) /\ Len(got \o p) = Len(got) + Len(p)
    BY <2>1, OnJoin
  <2> QED
    BY <1>1, <2>2, Zenon
<1>5. output' = <<>> /\ Len(output') = 0 /\ On(output', ToGet, Len(got'))
    BY DEF On
<1>6. PICK c \in Nat : c = Len(got) + Len(p)
    BY <1>1, <1>2
<1>7. /\ Len(got') + Len(output') = c /\ On(input', Stream, c)
      /\ On(source', Stream, c + Len(input')) /\ c + Len(input') + Len(source') = End(2)
    BY <1>1, <1>2, <1>4, <1>5, <1>6
<1>8. messages' = messages /\ result' = "ok"
    OBVIOUS
<1>9. OnTape' /\ Consumed' = c
    BY <1>4, <1>5, <1>7, <1>8, TapeNext
<1>10. Len(input') \in Nat
    BY <1>7 DEF On
<1> QED
    BY <1>1, <1>2, <1>5, <1>6, <1>9, <1>10

\* What is past the head of a message is passed on as it was sent.
LEMMA SamePast ==
    ASSUME Grammar, NEW i \in 1..2, NEW c \in Nat, NEW d \in Nat,
           AfterHead(i) <= c, d <= End(i)
    PROVE  \A k \in c + 1 .. d : ToGet[k] = Stream[k]
<1>1. AfterHead(i) \in Nat /\ End(i) \in Nat
    BY Where
<1>2. \A k \in c + 1 .. d : k \in AfterHead(i) + 1 .. End(i)
    BY <1>1
<1> QED
    BY <1>2 DEF Grammar, Heads

\* The part of a body that a call may read.
LEMMA BodyRead ==
    ASSUME OnTape, Ranges, result = "ok", output = <<>>, NEW p \in BodyReads, Pass(p)
    PROVE  \E n \in Nat :
              /\ p \in IF input # <<>> THEN {SubSeq(input, 1, Least(n, Len(input)))} ELSE Reads(n)
              /\ Len(p) \in 0..bodyToRead
<1> DEFINE n == Least(bodyToRead, BuffLen)
<1>1. n \in Nat /\ n \in 0..bodyToRead
    BY ReaderAssumption DEF Least, Ranges
<1>2. p \in IF input # <<>> THEN {SubSeq(input, 1, Least(n, Len(input)))} ELSE Reads(n)
    BY DEF BodyReads
<1> HIDE DEF n
<1>3. Len(p) \in 0..n
    BY <1>1, <1>2, Passing
<1>4. Len(p) \in 0..bodyToRead
    BY <1>1, <1>3 DEF Ranges
<1> QED
    BY <1>1, <1>2, <1>4

\* A body is passed on, and none of the next message with it.
LEMMA ReadBodyStep ==
    ASSUME Grammar, Ranges, OnTape, Place, result = "ok", ReadBody
    PROVE  Ranges' /\ OnTape' /\ Place'
<1>1. PICK p \in BodyReads :
        /\ Pass(p)
        /\ bodyToRead' = bodyToRead - Len(p)
        /\ state' = IF bodyToRead = Len(p) THEN "Head" ELSE "Body"
    BY DEF ReadBody
<1>2. /\ state = "Body" /\ output = <<>>
      /\ UNCHANGED <<messages, output, lastBodyParse, finalChunk, headerParsed, result>>
    BY DEF ReadBody
<1>3. PICK i \in 1..2 : Inside(i)
    BY <1>2, OutsideHead
<1>4. InBody(i) /\ headerParsed = TRUE /\ (i = 2 => ~Upgrade)
    BY <1>2, <1>3 DEF Inside, InUpgrade, AtChunk, InChunk, AtData
<1>5. PICK n \in Nat :
        /\ p \in IF input # <<>> THEN {SubSeq(input, 1, Least(n, Len(input)))} ELSE Reads(n)
        /\ Len(p) \in 0..bodyToRead
    BY <1>1, <1>2, BodyRead
<1>6. /\ Consumed \in Nat /\ bodyToRead \in Nat /\ AfterHead(i) <= Consumed
      /\ Consumed + bodyToRead = End(i) /\ AfterHead(i) \in Nat
      /\ finalChunk = FALSE /\ lastBodyParse = 0
    BY <1>4, Lengths, Where DEF InBody, Past, Ranges
<1>7. PICK d \in Nat : d = Consumed + Len(p)
    BY <1>5, <1>6
<1>8. d <= End(i) /\ d + (bodyToRead - Len(p)) = End(i) /\ AfterHead(i) <= d
    BY <1>5, <1>6, <1>7
<1>9. \A k \in Consumed + 1 .. Consumed + Len(p) : ToGet[k] = Stream[k]
    BY <1>6, <1>7, <1>8, SamePast
<1>10. OnTape' /\ Consumed' = d /\ Len(input') \in Nat /\ output' = <<>>
    BY <1>1, <1>2, <1>5, <1>7, <1>9, PassedOn
<1>11. bodyToRead' \in Nat
    BY <1>1, <1>5, <1>6
<1>12. Ranges'
    BY <1>2, <1>6, <1>10, <1>11 DEF Ranges
<1>13. CASE bodyToRead = Len(p)
  <2>1. /\ state' = "Head" /\ bodyToRead' = 0 /\ Consumed' = End(i) /\ lastBodyParse' < HeadLen
        /\ finalChunk' = FALSE /\ headerParsed' = TRUE
    BY <1>1, <1>2, <1>4, <1>6, <1>8, <1>10, <1>13, Where DEF HeadLen
  <2>2. ~Upgrade
    BY <1>3, <1>2, NotUpgraded DEF InUpgrade
  <2> QED
    BY <1>2, <1>10, <1>12, <2>1, <2>2, AtHeadNext
<1>14. CASE bodyToRead # Len(p)
  <2>1. /\ state' = "Body" /\ finalChunk' = FALSE /\ headerParsed' = TRUE /\ lastBodyParse' = 0
        /\ AfterHead(i) <= Consumed' /\ Consumed' <= End(i) /\ Consumed' + bodyToRead' = End(i)
        /\ messages[i].framing = "length"
    BY <1>1, <1>2, <1>4, <1>6, <1>8, <1>10, <1>14 DEF InBody
  <2> QED
    BY <1>2, <1>4, <1>10, <1>12, <2>1, InBodyNext
<1> QED
    BY <1>13, <1>14

\* An upgraded connection is passed on as it is.
LEMMA ReadUpgradedStep ==
    ASSUME Grammar, Ranges, OnTape, Place, result = "ok", ReadUpgraded
    PROVE  Ranges' /\ OnTape' /\ Place'
<1>1. PICK p \in IF input # <<>> THEN {SubSeq(input, 1, Least(BuffLen, Len(input)))}
                 ELSE Reads(BuffLen) : Pass(p)
    BY DEF ReadUpgraded
<1>2. /\ state = "Upgraded" /\ output = <<>>
      /\ UNCHANGED <<messages, state, output, counters, result>>
    BY DEF ReadUpgraded
<1>3. PICK i \in 1..2 : Inside(i)
    BY <1>2, OutsideHead
<1>4. InUpgrade(i) /\ headerParsed = TRUE /\ (i = 2 => ~Upgrade)
    BY <1>2, <1>3 DEF Inside, InBody, AtChunk, InChunk, AtData
<1>5. BuffLen \in Nat
    BY ReaderAssumption
<1>6. /\ Len(p) \in 0..BuffLen
      /\ On(input', Stream, Len(got) + Len(p))
      /\ On(source', Stream, Len(got) + Len(p) + Len(input'))
      /\ Len(got) + Len(p) + Len(input') + Len(source') = End(2)
    BY <1>1, <1>2, <1>5, Passing
<1>7. Consumed \in Nat /\ Consumed = Len(got) /\ AfterHead(i) <= Consumed /\ AfterHead(i) \in Nat
    BY <1>2, <1>4, Lengths, Where DEF InUpgrade, Consumed
<1>8. PICK d \in Nat : d = Consumed + Len(p)
    BY <1>6, <1>7
<1>9. d <= End(2) /\ AfterHead(i) <= d
  <2>1. Len(input') \in Nat /\ Len(source') \in Nat
    BY <1>6 DEF On
  <2> QED
    BY <1>6, <1>7, <1>8, <2>1
<1>10. \A k \in Consumed + 1 .. d : ToGet[k] = Stream[k]
  <2>1. CASE i = 1
    <3>1. Upgrade
      BY <1>4, <2>1 DEF InUpgrade, Upgrade
    <3>2. \A k \in Consumed + 1 .. d : k \in AfterHead(1) + 1 .. End(2)
      BY <1>7, <1>8, <1>9, <2>1, Where
    <3> QED
      BY <3>1, <3>2 DEF Grammar, Raw
  <2>2. CASE i = 2
    BY <1>7, <1>9, <2>2, SamePast
  <2> QED
    BY <2>1, <2>2
<1>11. OnTape' /\ Consumed' = d /\ Len(input') \in Nat
    BY <1>1, <1>2, <1>5, <1>8, <1>10, PassedOn
<1>12. Ranges'
    BY <1>2, <1>4, <1>11 DEF Ranges, InUpgrade, counters
<1>13. Place'
  <2>1. /\ state' = "Upgraded" /\ messages[i].framing = "upgrade" /\ headerParsed' = TRUE
        /\ bodyToRead' = 0 /\ lastBodyParse' = 0 /\ AfterHead(i) <= Consumed'
    BY <1>2, <1>4, <1>9, <1>11 DEF InUpgrade, counters
  <2> QED
    BY <1>2, <1>4, <2>1, InUpgradeNext
<1> QED
    BY <1>11, <1>12, <1>13

-----------------------------------------------------------------------------
(* A chunked body. *)

\* A chunk and its end are passed on, and none of the next line with them.
LEMMA ReadChunkStep ==
    ASSUME Grammar, Ranges, OnTape, Place, result = "ok", ReadChunk
    PROVE  Ranges' /\ OnTape' /\ Place'
<1>1. PICK p \in BodyReads :
        /\ Pass(p)
        /\ bodyToRead' = bodyToRead - Len(p)
        /\ LET last == finalChunk /\ bodyToRead = Len(p)
           IN /\ state' = IF last THEN "Head" ELSE state
              /\ finalChunk' = IF last THEN FALSE ELSE finalChunk
    BY DEF ReadChunk
<1>2. /\ state = "ChunkedBody" /\ output = <<>> /\ bodyToRead > 0
      /\ UNCHANGED <<messages, output, lastBodyParse, headerParsed, result>>
    BY DEF ReadChunk
<1>3. PICK i \in 1..2 : Inside(i)
    BY <1>2, OutsideHead
<1>4. InChunk(i) /\ headerParsed = TRUE /\ (i = 2 => ~Upgrade)
    BY <1>2, <1>3 DEF Inside, InBody, InUpgrade, AtChunk, AtData
<1>5. PICK n \in Nat :
        /\ p \in IF input # <<>> THEN {SubSeq(input, 1, Least(n, Len(input)))} ELSE Reads(n)
        /\ Len(p) \in 0..bodyToRead
    BY <1>1, <1>2, BodyRead
<1>6. /\ Consumed \in Nat /\ bodyToRead \in Nat /\ AfterHead(i) <= Consumed
      /\ AfterHead(i) \in Nat /\ End(i) \in Nat /\ lastBodyParse = 0
    BY <1>4, Lengths, Where DEF InChunk, Past, Ranges
<1>7. Consumed + bodyToRead <= End(i)
  <2>1. CASE finalChunk = TRUE
    BY <1>4, <1>6, <2>1 DEF InChunk
  <2>2. CASE finalChunk = FALSE
    <3>1. PICK e : e = Consumed + bodyToRead
      OBVIOUS
    <3>2. e \in Lines(i)
      BY <1>4, <2>2, <3>1 DEF InChunk
    <3>3. e \in Nat /\ e + 4 <= End(i)
      BY <1>6, <3>1, <3>2 DEF Grammar, Bodies, LineLen, CRLF
    <3> QED
      BY <1>6, <3>1, <3>3
  <2> QED
    BY <2>1, <2>2 DEF Ranges
<1>8. PICK d \in Nat : d = Consumed + Len(p)
    BY <1>5, <1>6
<1>9. d <= End(i) /\ d + (bodyToRead - Len(p)) = Consumed + bodyToRead /\ AfterHead(i) <= d
    BY <1>5, <1>6, <1>7, <1>8
<1>10. \A k \in Consumed + 1 .. Consumed + Len(p) : ToGet[k] = Stream[k]
    BY <1>6, <1>8, <1>9, SamePast
<1>11. OnTape' /\ Consumed' = d /\ Len(input') \in Nat /\ output' = <<>>
    BY <1>1, <1>2, <1>5, <1>8, <1>10, PassedOn
<1>12. bodyToRead' \in Nat /\ finalChunk' \in BOOLEAN
  <2>1. bodyToRead' \in Nat
    BY <1>1, <1>5, <1>6
  <2>2. finalChunk' = FALSE \/ finalChunk' = finalChunk
    BY <1>1
  <2> QED
    BY <2>1, <2>2 DEF Ranges
<1>13. Ranges'
    BY <1>2, <1>6, <1>11, <1>12 DEF Ranges
<1>14. headerParsed' = TRUE /\ lastBodyParse' = 0 /\ Consumed' + bodyToRead' = Consumed + bodyToRead
    BY <1>1, <1>2, <1>4, <1>6, <1>9, <1>11
<1>15. CASE bodyToRead = Len(p)
  <2>1. bodyToRead' = 0 /\ Consumed' = Consumed + bodyToRead
    BY <1>1, <1>6, <1>8, <1>11, <1>15
  <2>2. CASE finalChunk = TRUE
    <3>1. state' = "Head" /\ finalChunk' = FALSE
      BY <1>1, <1>15, <2>2
    <3>2. Consumed' = End(i) /\ lastBodyParse' < HeadLen
      BY <1>4, <1>14, <2>1, <2>2 DEF InChunk, HeadLen
    <3>3. ~Upgrade
      BY <1>3, <1>2, NotUpgraded DEF InUpgrade
    <3>4. Place'
      BY <1>2, <1>11, <1>14, <2>1, <3>1, <3>2, <3>3, AtHeadNext
    <3> QED
      BY <1>11, <1>13, <3>4
  <2>3. CASE finalChunk = FALSE
    <3>1. state' = "ChunkedBody" /\ finalChunk' = FALSE
      BY <1>1, <1>2, <2>3
    <3>2. Consumed' \in Lines(i) /\ lastBodyParse' < LineLen
      BY <1>4, <1>14, <2>1, <2>3 DEF InChunk, LineLen
    <3>3. Place'
      BY <1>2, <1>4, <1>11, <1>14, <2>1, <3>1, <3>2, AtChunkNext
    <3> QED
      BY <1>11, <1>13, <3>3
  <2> QED
    BY <2>2, <2>3 DEF Ranges
<1>16. CASE bodyToRead # Len(p)
  <2>1. state' = "ChunkedBody" /\ finalChunk' = finalChunk /\ bodyToRead' > 0
    BY <1>1, <1>2, <1>5, <1>6, <1>16
  <2>2. AfterHead(i) <= Consumed' /\ Consumed' <= End(i) /\ messages[i].framing = "chunked"
    BY <1>4, <1>9, <1>11 DEF InChunk
  <2>3. \/ finalChunk' = TRUE /\ Consumed' + bodyToRead' = End(i)
        \/ finalChunk' = FALSE /\ Consumed' + bodyToRead' \in Lines(i)
    BY <1>4, <1>14, <2>1 DEF InChunk
  <2>4. Place'
    BY <1>2, <1>4, <1>11, <1>14, <2>1, <2>2, <2>3, InChunkNext
  <2> QED
    BY <1>11, <1>13, <2>4
<1> QED
    BY <1>15, <1>16

\* A line that is found is the line that is due.
LEMMA LineIsNext ==
    ASSUME Grammar, OnTape, Place, AtLine, result = "ok",
           NEW q \in ParseInput, Take(q), Head(q).part = "line"
    PROVE  \E i \in 1..2 : Inside(i) /\ AtChunk(i)
<1>1. PICK i \in 1..2 : Inside(i) /\ (AtChunk(i) \/ AtData(i))
    BY AtLinePlace
<1>2. Head(q) = Stream[Consumed + 1] /\ Consumed < End(2)
    BY Parsing
<1>3. ~AtData(i)
  <2> SUFFICES ASSUME AtData(i) PROVE FALSE
    OBVIOUS
  <2>1. Consumed = AfterHead(i) /\ messages[i].framing = "unsized"
    BY DEF AtData
  <2>2. Stream[Consumed + 1].part # "line"
    BY <1>2, <2>1 DEF Grammar, Bodies
  <2> QED
    BY <1>2, <2>2
<1> QED
    BY <1>1, <1>3

\* A line that is cut is kept, and nothing passed on.
LEMMA ReadLinePartStep ==
    ASSUME Grammar, Ranges, OnTape, Place, result = "ok", ReadLinePart
    PROVE  Ranges' /\ OnTape' /\ Place'
<1>1. PICK q \in ParseInput : /\ Len(q) < LineLen /\ Head(q).part = "line"
                              /\ Take(q) /\ input' = q /\ lastBodyParse' = Len(q)
    BY DEF ReadLinePart
<1>2. /\ UNCHANGED <<messages, state, output, bodyToRead, finalChunk, headerParsed, result, got>>
      /\ AtLine
    BY DEF ReadLinePart
<1>3. PICK i \in 1..2 : Inside(i) /\ AtChunk(i)
    BY <1>1, <1>2, LineIsNext
<1>4. /\ Len(q) \in Nat /\ On(q, Stream, Consumed) /\ On(source', Stream, Consumed + Len(q))
      /\ Consumed + Len(q) + Len(source') = End(2)
    BY <1>1, Parsing
<1>5. OnTape' /\ Consumed' = Consumed
  <2>1. On(got', ToGet, 0) /\ On(output', ToGet, Len(got')) /\ Len(got') + Len(output') = Consumed
    BY <1>2 DEF OnTape, Consumed
  <2>2. On(input', Stream, Consumed) /\ On(source', Stream, Consumed + Len(input'))
    BY <1>1, <1>4
  <2>3. Consumed + Len(input') + Len(source') = End(2) /\ Consumed \in Nat
    BY <1>1, <1>4, Lengths
  <2>4. messages' = messages /\ result' = "ok"
    BY <1>2
  <2> QED
    BY <2>1, <2>2, <2>3, <2>4, TapeNext
<1>6. Ranges'
    BY <1>1, <1>2, <1>4 DEF Ranges
<1>7. Place'
  <2>1. /\ state' = "ChunkedBody" /\ output' = <<>> /\ bodyToRead' = 0 /\ finalChunk' = FALSE
        /\ headerParsed' = TRUE /\ (i = 2 => ~Upgrade)
        /\ lastBodyParse' < LineLen /\ Consumed' \in Lines(i)
    BY <1>1, <1>2, <1>3, <1>5 DEF AtChunk, Inside
  <2> QED
    BY <1>2, <2>1, AtChunkNext
<1> QED
    BY <1>5, <1>6, <1>7

\* What is no line stands behind the head of a response without a length.
LEMMA NoLineIsNext ==
    ASSUME Grammar, OnTape, Place, AtLine, result = "ok",
           NEW q \in ParseInput, Take(q), Head(q).part # "line"
    PROVE  \E i \in 1..2 : Inside(i) /\ AtData(i)
<1>1. PICK i \in 1..2 : Inside(i) /\ (AtChunk(i) \/ AtData(i))
    BY AtLinePlace
<1>2. Head(q) = Stream[Consumed + 1]
    BY Parsing
<1>3. ~AtChunk(i)
  <2> SUFFICES ASSUME AtChunk(i) PROVE FALSE
    OBVIOUS
  <2>1. PICK p : p = Consumed
    OBVIOUS
  <2>2. p \in Lines(i)
    BY <2>1 DEF AtChunk
  <2>3. Stream[p + 1].part = "line"
    BY <2>2 DEF Grammar, Bodies
  <2> QED
    BY <1>2, <2>1, <2>3
<1> QED
    BY <1>1, <1>3

\* Bytes that are of no line are kept, and nothing passed on.
LEMMA ReadNoLineStep ==
    ASSUME Grammar, Ranges, OnTape, Place, result = "ok", ReadNoLine
    PROVE  Ranges' /\ OnTape' /\ Place'
<1>1. PICK q \in ParseInput : /\ Head(q).part # "line"
                              /\ Take(q) /\ input' = q /\ lastBodyParse' = Len(q)
    BY DEF ReadNoLine
<1>2. /\ UNCHANGED <<messages, state, output, bodyToRead, finalChunk, headerParsed, result, got>>
      /\ AtLine
    BY DEF ReadNoLine
<1>3. PICK i \in 1..2 : Inside(i) /\ AtData(i)
    BY <1>1, <1>2, NoLineIsNext
<1>4. /\ Len(q) \in Nat /\ On(q, Stream, Consumed) /\ On(source', Stream, Consumed + Len(q))
      /\ Consumed + Len(q) + Len(source') = End(2)
    BY <1>1, Parsing
<1>5. OnTape' /\ Consumed' = Consumed
  <2>1. On(got', ToGet, 0) /\ On(output', ToGet, Len(got')) /\ Len(got') + Len(output') = Consumed
    BY <1>2 DEF OnTape, Consumed
  <2>2. On(input', Stream, Consumed) /\ On(source', Stream, Consumed + Len(input'))
    BY <1>1, <1>4
  <2>3. Consumed + Len(input') + Len(source') = End(2) /\ Consumed \in Nat
    BY <1>1, <1>4, Lengths
  <2>4. messages' = messages /\ result' = "ok"
    BY <1>2
  <2> QED
    BY <2>1, <2>2, <2>3, <2>4, TapeNext
<1>6. Ranges'
    BY <1>1, <1>2, <1>4 DEF Ranges
<1>7. Place'
  <2>1. /\ state' = "ChunkedBody" /\ output' = <<>> /\ bodyToRead' = 0 /\ finalChunk' = FALSE
        /\ headerParsed' = TRUE /\ (i = 2 => ~Upgrade)
        /\ messages[i].framing = "unsized" /\ Consumed' = AfterHead(i)
    BY <1>2, <1>3, <1>5 DEF AtData, Inside
  <2> QED
    BY <1>2, <2>1, AtDataNext
<1> QED
    BY <1>5, <1>6, <1>7

\* The first n bytes of what is parsed are returned, and fit.
LEMMA FirstReturned ==
    ASSUME Grammar, OnTape, result = "ok", output = <<>>,
           NEW q \in ParseInput, Take(q), NEW n \in 0..Len(q), n <= BuffLen,
           NEW i \in 1..2, AfterHead(i) <= Consumed, Consumed + n <= End(i),
           Return(SubSeq(q, 1, n)), input' = Rest(q, n),
           messages' = messages, result' = result
    PROVE  OnTape' /\ Consumed' = Consumed + n /\ output' = <<>> /\ Len(input') \in Nat
<1>1. /\ Len(q) \in Nat /\ On(q, Stream, Consumed) /\ On(source', Stream, Consumed + Len(q))
      /\ Consumed + Len(q) + Len(source') = End(2)
    BY Parsing
<1>2. Consumed = Len(got) /\ Consumed \in Nat
    BY Lengths DEF Consumed
<1>3. PICK c \in Nat : c = Consumed + n
    BY <1>1, <1>2
<1>4. PICK l : l = SubSeq(q, 1, n)
    OBVIOUS
<1>5. On(l, Stream, Consumed) /\ Len(l) = n
    BY <1>1, <1>4, OnFirst
<1>6. On(l, ToGet, Len(got))
  <2>1. \A k \in Consumed + 1 .. c : ToGet[k] = Stream[k]
    BY <1>2, <1>3, SamePast
  <2>2. On(l, ToGet, Consumed)
    BY <1>2, <1>3, <1>5, <2>1, OnSame
  <2> QED
    BY <1>2, <2>2
<1>7. /\ On(got', ToGet, 0) /\ On(output', ToGet, Len(got'))
      /\ Len(got') + Len(output') = Len(got) + Len(l)
      /\ Len(l) <= BuffLen => output' = <<>>
  <2>1. Return(l) /\ On(got, ToGet, 0)
    BY <1>4 DEF OnTape
  <2> QED
    BY <1>6, <2>1, Returned
<1>8. On(Rest(q, n), Stream, Consumed + n) /\ Len(Rest(q, n)) = Len(q) - n
    BY <1>1, <1>2, OnRest
<1>9. On(input', Stream, c) /\ Len(input') = Len(q) - n /\ Len(got') + Len(output') = c
    BY <1>2, <1>3, <1>5, <1>7, <1>8
<1>10. c + Len(input') = Consumed + Len(q)
    BY <1>1, <1>2, <1>3, <1>9
<1>11. On(source', Stream, c + Len(input')) /\ c + Len(input') + Len(source') = End(2)
    BY <1>1, <1>10
<1>12. OnTape' /\ Consumed' = c
    BY <1>7, <1>9, <1>11, TapeNext
<1> QED
    BY <1>3, <1>5, <1>7, <1>9, <1>12 DEF On

\* Where a line is due, it and the end of its chunk fit in the message.
LEMMA LineFits ==
    ASSUME Grammar, NEW i \in 1..2, Consumed \in Lines(i)
    PROVE  LET v == Stream[Consumed + 1].val
           IN /\ v \in Nat /\ messages[i].framing = "chunked"
              /\ AfterHead(i) <= Consumed /\ Consumed + 4 <= End(i)
              /\ IF v = 0 THEN Consumed + 4 = End(i) ELSE Consumed + 2 + v + 2 \in Lines(i)
<1>1. PICK p : p = Consumed
    OBVIOUS
<1>2. p \in Lines(i)
    BY <1>1
<1>3. /\ messages[i].framing = "chunked" /\ AfterHead(i) <= p /\ Stream[p+1].val \in Nat
      /\ p + LineLen + CRLF <= End(i)
      /\ IF Stream[p+1].val = 0 THEN p + LineLen + CRLF = End(i) ELSE NextLine(p) \in Lines(i)
    BY <1>2 DEF Grammar, Bodies
<1>4. p \in Nat
    BY <1>2 DEF Lines
<1>5. p + LineLen + CRLF = p + 4 /\ NextLine(p) = p + 2 + Stream[p+1].val + 2
    BY <1>4 DEF LineLen, CRLF, NextLine
<1> QED
    BY <1>1, <1>3, <1>5

\* A line is passed on, and sets the bytes of its chunk to come.
LEMMA ReadLineStep ==
    ASSUME Grammar, Ranges, OnTape, Place, result = "ok", ReadLine
    PROVE  Ranges' /\ OnTape' /\ Place'
<1>1. PICK q \in ParseInput :
        /\ IsLine(q)
        /\ Take(q) /\ input' = Rest(q, LineLen)
        /\ finalChunk' = (finalChunk \/ IsLast(q))
        /\ bodyToRead' = Head(q).val + CRLF
        /\ Return(LineOf(q))
    BY DEF ReadLine
<1>2. AtLine /\ lastBodyParse' = 0 /\ UNCHANGED <<messages, state, headerParsed, result>>
    BY DEF ReadLine
<1>3. Len(q) >= 2 /\ Head(q).part = "line"
    BY <1>1 DEF IsLine, LineLen
<1>4. PICK i \in 1..2 : Inside(i) /\ AtChunk(i)
    BY <1>1, <1>2, <1>3, LineIsNext
<1>5. PICK v : v = Stream[Consumed + 1].val
    OBVIOUS
<1>6. Head(q).val = v /\ Len(q) \in Nat
    BY <1>1, <1>5, Parsing
<1>7. /\ v \in Nat /\ messages[i].framing = "chunked"
      /\ AfterHead(i) <= Consumed /\ Consumed + 4 <= End(i)
      /\ IF v = 0 THEN Consumed + 4 = End(i) ELSE Consumed + 2 + v + 2 \in Lines(i)
    BY <1>4, <1>5, LineFits DEF AtChunk
<1>8. Consumed \in Nat /\ AfterHead(i) \in Nat /\ End(i) \in Nat
    BY Lengths, Where
<1>9. OnTape' /\ Consumed' = Consumed + 2 /\ output' = <<>> /\ Len(input') \in Nat
  <2>1. Return(SubSeq(q, 1, 2)) /\ input' = Rest(q, 2)
    BY <1>1 DEF LineOf, LineLen
  <2>2. 2 \in 0..Len(q) /\ 2 <= BuffLen
    BY <1>3, <1>6, ReaderAssumption DEF LineLen, HeadLen
  <2>3. Consumed + 2 <= End(i)
    BY <1>7, <1>8
  <2>4. output = <<>> /\ messages' = messages /\ result' = result
    BY <1>2 DEF AtLine
  <2> QED
    BY <1>1, <1>7, <2>1, <2>2, <2>3, <2>4, FirstReturned
<1>10. bodyToRead' = v + 2
    BY <1>1, <1>6 DEF CRLF
<1>11. finalChunk' = (v = 0)
  <2>1. finalChunk = FALSE
    BY <1>4 DEF AtChunk
  <2> QED
    BY <1>1, <1>6, <2>1 DEF IsLast
<1>12. Ranges'
  <2>1. bodyToRead' \in Nat /\ finalChunk' \in BOOLEAN
    BY <1>7, <1>10, <1>11
  <2>2. lastBodyParse' \in 0..Len(input')
    BY <1>2, <1>9
  <2> QED
    BY <1>2, <2>1, <2>2 DEF Ranges
<1>13. Place'
  <2>1. /\ state' = "ChunkedBody" /\ headerParsed' = TRUE /\ (i = 2 => ~Upgrade)
        /\ bodyToRead' > 0 /\ lastBodyParse' = 0
        /\ AfterHead(i) <= Consumed' /\ Consumed' <= End(i)
    BY <1>2, <1>4, <1>7, <1>8, <1>9, <1>10 DEF AtLine, Inside
  <2>2. CASE v = 0
    <3>1. finalChunk' = TRUE
      BY <1>11, <2>2
    <3>2. Consumed' + bodyToRead' = End(i)
      BY <1>7, <1>8, <1>9, <1>10, <2>2
    <3> QED
      BY <1>2, <1>7, <1>9, <2>1, <3>1, <3>2, InChunkNext
  <2>3. CASE v # 0
    <3>1. finalChunk' = FALSE
      BY <1>11, <2>3
    <3>2. Consumed' + bodyToRead' = Consumed + 2 + v + 2
      BY <1>7, <1>8, <1>9, <1>10
    <3>3. Consumed' + bodyToRead' \in Lines(i)
      BY <1>7, <2>3, <3>2
    <3> QED
      BY <1>2, <1>7, <1>9, <2>1, <3>1, <3>3, InChunkNext
  <2> QED
    BY <2>2, <2>3
<1> QED
    BY <1>9, <1>12, <1>13

\* What fits in the caller's buffer is got at once.
LEMMA ReturnAll ==
    ASSUME NEW q \in Seq(Byte), Len(q) <= BuffLen, got' = got \o q, output' = <<>>
    PROVE  Return(q)
<1>1. Len(q) \in Nat /\ BuffLen \in Nat
    BY ReaderAssumption
<1>2. Least(BuffLen, Len(q)) = Len(q)
    BY <1>1 DEF Least
<1>3. SubSeq(q, 1, Len(q)) = q
    OBVIOUS
<1>4. Rest(q, BuffLen) = <<>>
    BY <1>1 DEF Rest
<1> QED
    BY <1>2, <1>3, <1>4 DEF Return

\* The last chunk is passed on with its end, and a head is due.
LEMMA ReadLastStep ==
    ASSUME Grammar, Ranges, OnTape, Place, result = "ok", ReadLast
    PROVE  Ranges' /\ OnTape' /\ Place'
<1>1. PICK q \in ParseInput :
        /\ IsLine(q) /\ IsLast(q) /\ Len(q) >= LineLen + CRLF
        /\ Take(q) /\ input' = Rest(q, LineLen + CRLF)
        /\ got' = got \o SubSeq(q, 1, LineLen + CRLF)
    BY DEF ReadLast
<1>2. /\ AtLine /\ state' = "Head" /\ lastBodyParse' = 0
      /\ UNCHANGED <<messages, output, bodyToRead, finalChunk, headerParsed, result>>
    BY DEF ReadLast
<1>3. Len(q) >= 4 /\ Head(q).part = "line" /\ Head(q).val = 0
    BY <1>1 DEF IsLine, IsLast, LineLen, CRLF
<1>4. PICK i \in 1..2 : Inside(i) /\ AtChunk(i)
    BY <1>1, <1>2, <1>3, LineIsNext
<1>5. PICK v : v = Stream[Consumed + 1].val
    OBVIOUS
<1>6. v = 0 /\ Len(q) \in Nat /\ On(q, Stream, Consumed)
    BY <1>1, <1>3, <1>5, Parsing
<1>7. AfterHead(i) <= Consumed /\ Consumed + 4 = End(i)
    BY <1>4, <1>5, <1>6, LineFits DEF AtChunk
<1>8. Consumed \in Nat /\ AfterHead(i) \in Nat /\ End(i) \in Nat
    BY Lengths, Where
<1>9. output = <<>> /\ messages' = messages /\ result' = result /\ output' = <<>>
    BY <1>2 DEF AtLine
<1>10. 4 \in 0..Len(q) /\ 4 <= BuffLen
    BY <1>3, <1>6, ReaderAssumption DEF LineLen, CRLF
<1>11. input' = Rest(q, 4) /\ got' = got \o SubSeq(q, 1, 4)
    BY <1>1 DEF LineLen, CRLF
<1>12. Return(SubSeq(q, 1, 4))
  <2>1. SubSeq(q, 1, 4) \in Seq(Byte) /\ Len(SubSeq(q, 1, 4)) = 4
    BY <1>6, <1>10, OnFirst DEF On
  <2> QED
    BY <1>9, <1>10, <1>11, <2>1, ReturnAll
<1>13. OnTape' /\ Consumed' = Consumed + 4 /\ Len(input') \in Nat
  <2>1. Consumed + 4 <= End(i)
    BY <1>7, <1>8
  <2> QED
    BY <1>1, <1>7, <1>9, <1>10, <1>11, <1>12, <2>1, FirstReturned
<1>14. bodyToRead' = 0 /\ finalChunk' = FALSE /\ headerParsed' = TRUE
    BY <1>2, <1>4 DEF AtChunk, Inside
<1>15. Ranges'
  <2>1. lastBodyParse' \in 0..Len(input')
    BY <1>2, <1>13
  <2> QED
    BY <1>2, <2>1 DEF Ranges
<1>16. ~Upgrade
    BY <1>2, <1>4, NotUpgraded DEF InUpgrade, AtLine
<1>17. Consumed' = End(i) /\ lastBodyParse' < HeadLen
    BY <1>2, <1>7, <1>13 DEF HeadLen
<1>18. Place'
    BY <1>2, <1>9, <1>14, <1>16, <1>17, AtHeadNext
<1> QED
    BY <1>13, <1>15, <1>18

-----------------------------------------------------------------------------
(* Failures. *)

\* Two pieces of one length at one place are the same.
LEMMA OnEqual ==
    ASSUME NEW t, NEW p, NEW a, NEW b, On(a, t, p), On(b, t, p), Len(a) = Len(b)
    PROVE  a = b
<1>1. a \in Seq(Byte) /\ b \in Seq(Byte) /\ \A k \in 1..Len(a) : a[k] = b[k]
    BY DEF On
<1> QED
    BY <1>1, SeqEqual

\* The first message is where the tape begins.
LEMMA FirstOnTape ==
    ASSUME messages \in [1..2 -> Messages], Grammar
    PROVE  On(First, ToGet, 0) /\ Len(First) = End(1)
<1>1. On(WantedHead(1), ToGet, 0) /\ On(Body(1), ToGet, HeadLen)
    BY Tapes DEF FourPieces
<1>2. Len(WantedHead(1)) = HeadLen /\ HeadLen \in Nat
  <2>1. Piece(Byte, WantedHead(1), 1, "rewritten", messages[1], HeadLen)
    BY HeadPiece DEF WantedHead
  <2> QED
    BY <2>1 DEF Piece, HeadLen
<1>3. 0 \in Nat /\ On(Body(1), ToGet, 0 + Len(WantedHead(1)))
    BY <1>1, <1>2
<1>4. /\ On(WantedHead(1) \o Body(1), ToGet, 0)
      /\ Len(WantedHead(1) \o Body(1)) = Len(WantedHead(1)) + Len(Body(1))
    BY <1>1, <1>3, OnJoin
<1>5. First = WantedHead(1) \o Body(1)
    BY DEF First, Wanted, WantedHead, Body
<1>6. End(1) = HeadLen + Len(Body(1))
    BY DEF Grammar, Places, HeadLen
<1> QED
    BY <1>2, <1>4, <1>5, <1>6

\* Where a message ends, whole messages have been got.
LEMMA GotWhole ==
    ASSUME messages \in [1..2 -> Messages], OnTape, ~Upgrade, output = <<>>,
           Consumed \in {End(1), End(2)}
    PROVE  got \in {First, Both}
<1>1. Grammar
    BY GrammarHolds
<1>2. Consumed = Len(got) /\ On(got, ToGet, 0)
    BY Lengths DEF Consumed, OnTape
<1>3. ToGet = Both
    BY DEF ToGet
<1>4. CASE Len(got) = End(2)
  <2>1. On(ToGet, ToGet, 0) /\ Len(ToGet) = End(2)
    BY <1>1 DEF Grammar, Places, On
  <2>2. got = ToGet
    BY <1>2, <1>4, <2>1, OnEqual
  <2> QED
    BY <1>3, <2>2
<1>5. CASE Len(got) = End(1)
  <2>1. On(First, ToGet, 0) /\ Len(First) = Len(got)
    BY <1>1, <1>5, FirstOnTape
  <2> QED
    BY <1>2, <2>1, OnEqual
<1> QED
    BY <1>2, <1>4, <1>5

\* Behind the second head, the first message and that head have been got.
LEMMA GotHead ==
    ASSUME messages \in [1..2 -> Messages], OnTape, ~Upgrade, output = <<>>,
           Consumed = AfterHead(2)
    PROVE  got = First \o WantedHead(2)
<1>1. Grammar
    BY GrammarHolds
<1>2. Consumed = Len(got) /\ On(got, ToGet, 0)
    BY Lengths DEF Consumed, OnTape
<1>3. On(First, ToGet, 0) /\ Len(First) = End(1) /\ End(1) \in Nat
    BY <1>1, FirstOnTape, Where
<1>4. On(WantedHead(2), ToGet, HeadLen + Len(Body(1))) /\ Len(WantedHead(2)) = HeadLen
  <2>1. Piece(Byte, WantedHead(2), 2, "rewritten", messages[2], HeadLen)
    BY HeadPiece DEF WantedHead
  <2>2. FourPieces(ToGet, WantedHead(1), Body(1), WantedHead(2), Body(2))
    BY Tapes
  <2> QED
    BY <2>1, <2>2 DEF FourPieces, Piece, HeadLen
<1>5. End(1) = HeadLen + Len(Body(1)) /\ AfterHead(2) = End(1) + HeadLen
    BY <1>1, Where DEF Grammar, Places, HeadLen
<1>6. On(WantedHead(2), ToGet, 0 + Len(First))
    BY <1>3, <1>4, <1>5
<1>7. PICK w : w = First \o WantedHead(2)
    OBVIOUS
<1>8. On(w, ToGet, 0) /\ Len(w) = Len(First) + Len(WantedHead(2))
    BY <1>3, <1>6, <1>7, OnJoin
<1>9. Len(w) = Len(got)
    BY <1>2, <1>3, <1>4, <1>5, <1>8
<1>10. got = w
    BY <1>2, <1>8, <1>9, OnEqual
<1> QED
    BY <1>7, <1>10

\* Where Read may fail after a message whose length is declared.
BetweenOrHead == {First, Both} \cup {IF Sized(2) THEN Both ELSE First \o WantedHead(2)}

\* FailsBetween after a call that got nothing.
LEMMA FailsNext ==
    ASSUME messages' = messages, got' = got,
           result' = "malformed" => ~Sized(1) \/ ~Sized(2),
           result' \in {"closed", "end"} /\ ~Upgrade /\ Sized(1) => got \in BetweenOrHead
    PROVE  FailsBetween'
BY DEF FailsBetween, Sized, Upgrade, First, Both, BetweenOrHead, WantedHead

\* A call that fails leaves the reader where it was.
LEMMA FailsStep ==
    ASSUME Ranges, OnTape, Place, NEW r \in {"closed", "malformed", "end"}, Fails(r),
           Len(input') \in Nat, Len(input) <= Len(input')
    PROVE  Ranges' /\ OnTape' /\ Place'
<1>1. result' = r /\ UNCHANGED <<messages, state, output, counters, got>>
    BY DEF Fails
<1>2. OnTape'
    BY <1>1, TapeKept
<1>3. Place'
    BY <1>1, PlaceKept
<1>4. lastBodyParse' \in 0..Len(input')
    BY <1>1 DEF Ranges, counters
<1>5. Ranges'
    BY <1>1, <1>4 DEF Ranges, counters
<1> QED
    BY <1>2, <1>3, <1>5

\* The connection is closed where the first message, or the second, ends.
LEMMA CloseSecondStep ==
    ASSUME Grammar, Ranges, OnTape, Place, result = "ok", CloseSecond
    PROVE  Ranges' /\ OnTape' /\ Place' /\ FailsBetween'
<1>1. state = "Head" /\ headerParsed = TRUE /\ Fails("closed") /\ input' = input
    BY DEF CloseSecond, Ranges
<1>2. Len(input') \in Nat /\ Len(input) <= Len(input')
    BY <1>1 DEF OnTape, On
<1>3. Ranges' /\ OnTape' /\ Place'
    BY <1>1, <1>2, FailsStep
<1>4. AtHead
    BY <1>1, InHead
<1>5. got \in BetweenOrHead
    BY <1>1, <1>4, GotWhole DEF AtHead, Ranges, BetweenOrHead
<1>6. FailsBetween'
    BY <1>1, <1>5, FailsNext DEF Fails
<1> QED
    BY <1>3, <1>6

\* What is no head and no line where one should be is the body of a response that
\* says nothing of its length.
LEMMA MalformedAt ==
    ASSUME Grammar, Ranges, OnTape, Place, result = "ok", ReadMalformed
    PROVE  /\ Ranges' /\ OnTape' /\ Place' /\ Fails("malformed")
           /\ \E i \in 1..2 : AtData(i)
<1>1. PICK q \in ParseInput :
        /\ Head(q).part # IF state = "Head" THEN "head" ELSE "line"
        /\ Take(q) /\ input' = q
    BY DEF ReadMalformed
<1>2. Fails("malformed") /\ (state = "Head" \/ AtLine)
    BY DEF ReadMalformed
<1>3. /\ Len(q) \in Nat \ {0} /\ Len(input) <= Len(q)
      /\ Head(q) = Stream[Consumed + 1]
    BY <1>1, Parsing
<1>4. Ranges' /\ OnTape' /\ Place'
    BY <1>1, <1>2, <1>3, FailsStep
<1>5. state # "Head"
  <2> SUFFICES ASSUME state = "Head" PROVE FALSE
    OBVIOUS
  <2>1. AtHead
    BY InHead
  <2>2. Head(q).part = "head"
    BY <1>1, <2>1, HeadIsNext
  <2> QED
    BY <1>1, <2>2
<1>6. \E i \in 1..2 : AtData(i)
    BY <1>1, <1>2, <1>5, NoLineIsNext
<1> QED
    BY <1>2, <1>4, <1>6

\* Only the body of a response without a length is called malformed.
LEMMA ReadMalformedStep ==
    ASSUME Grammar, Ranges, OnTape, Place, result = "ok", ReadMalformed
    PROVE  Ranges' /\ OnTape' /\ Place' /\ FailsBetween'
<1>1. PICK i \in 1..2 : AtData(i)
    BY MalformedAt
<1>2. Ranges' /\ OnTape' /\ Place' /\ Fails("malformed")
    BY MalformedAt
<1>3. ~Sized(1) \/ ~Sized(2)
    BY <1>1 DEF AtData, Sized
<1>4. FailsBetween'
    BY <1>2, <1>3, FailsNext DEF Fails
<1> QED
    BY <1>2, <1>4

\* When nothing comes any more, the caller has got whole messages, or the head alone
\* of one that says nothing of its length.
LEMMA EndOfMessage ==
    ASSUME Grammar, Ranges, OnTape, Place, result = "ok", ReadsInner, source = <<>>
    PROVE  /\ output = <<>>
           /\ Consumed \in {End(1), End(2)} \/ \E i \in 1..2 : AtData(i)
<1>1. Consumed + Len(input) = End(2) /\ Consumed \in Nat /\ Len(input) \in Nat
  <2>1. Len(source) = 0
    OBVIOUS
  <2> QED
    BY <2>1, Lengths DEF OnTape, On
<1>2. lastBodyParse \in 0..Len(input) /\ bodyToRead \in Nat
    BY DEF Ranges
<1>3. Stale => Len(input) = 0 \/ lastBodyParse = Len(input)
    BY DEF Stale
<1>4. End(2) >= 4
    BY Where
<1>5. CASE state = "Head"
  <2>1. AtHead
    BY <1>5, InHead
  <2>2. Stale
    BY <1>5 DEF ReadsInner
  <2>3. lastBodyParse < 2
    BY <2>1 DEF AtHead, HeadLen
  <2>4. Consumed # 0
    BY <1>1, <1>2, <1>3, <1>4, <2>2, <2>3
  <2> QED
    BY <2>1, <2>4 DEF AtHead
<1>6. CASE state # "Head" /\ (input = <<>> /\ output = <<>>)
  <2>1. Consumed = End(2)
    BY <1>1, <1>6
  <2> QED
    BY <1>6, <2>1
<1>7. CASE state = "ChunkedBody" /\ bodyToRead = 0
  <2>1. output = <<>> /\ Stale
    BY <1>7 DEF ReadsInner
  <2>2. PICK i \in 1..2 : Inside(i) /\ (AtChunk(i) \/ AtData(i))
    BY <1>7, <2>1, AtLinePlace DEF AtLine
  <2>3. ~AtChunk(i)
    <3> SUFFICES ASSUME AtChunk(i) PROVE FALSE
      OBVIOUS
    <3>1. Consumed + 4 <= End(i) /\ End(i) \in Nat /\ End(i) <= End(2)
      BY LineFits, Where DEF AtChunk
    <3>2. lastBodyParse < 2
      BY DEF AtChunk, LineLen
    <3> QED
      BY <1>1, <1>2, <1>3, <1>4, <2>1, <3>1, <3>2
  <2> QED
    BY <2>1, <2>2, <2>3
<1>8. state # "Head" /\ ~ (state = "ChunkedBody" /\ bodyToRead = 0) => input = <<>> /\ output = <<>>
    BY DEF ReadsInner
<1> QED
    BY <1>5, <1>6, <1>7, <1>8

\* The other end has closed, and what it sent has been got.
LEMMA ReadEndStep ==
    ASSUME Grammar, Ranges, OnTape, Place, result = "ok", ReadEnd
    PROVE  Ranges' /\ OnTape' /\ Place' /\ FailsBetween'
<1>1. ReadsInner /\ source = <<>> /\ Fails("end") /\ input' = input
    BY DEF ReadEnd
<1>2. Len(input') \in Nat /\ Len(input) <= Len(input')
    BY <1>1 DEF OnTape, On
<1>3. Ranges' /\ OnTape' /\ Place'
    BY <1>1, <1>2, FailsStep
<1>4. ASSUME ~Upgrade, Sized(1) PROVE got \in BetweenOrHead
  <2>1. messages \in [1..2 -> Messages] /\ output = <<>>
    BY <1>1, EndOfMessage DEF Ranges
  <2>2. CASE Consumed \in {End(1), End(2)}
    BY <1>4, <2>1, <2>2, GotWhole DEF BetweenOrHead
  <2>3. ASSUME NEW i \in 1..2, AtData(i) PROVE got \in BetweenOrHead
    <3>1. i = 2 /\ ~Sized(2) /\ Consumed = AfterHead(2)
      BY <1>4, <2>3 DEF AtData, Sized
    <3>2. got = First \o WantedHead(2)
      BY <1>4, <2>1, <3>1, GotHead
    <3> QED
      BY <3>1, <3>2, Zenon DEF BetweenOrHead
  <2> QED
    BY <1>1, <2>2, <2>3, EndOfMessage
<1>5. FailsBetween'
    BY <1>1, <1>4, FailsNext DEF Fails
<1> QED
    BY <1>3, <1>5

-----------------------------------------------------------------------------
(* The invariant holds. *)

\* The reader begins before the first head.
LEMMA InitHolds ==
    ASSUME Init
    PROVE  IInv
<1>1. /\ messages \in [1..2 -> Messages] /\ source = Stream
      /\ state = "Head" /\ input = <<>> /\ output = <<>> /\ got = <<>>
      /\ bodyToRead = 0 /\ lastBodyParse = 0
      /\ finalChunk = FALSE /\ headerParsed = FALSE /\ result = "ok"
    BY DEF Init, Stream
<1>2. Ranges
  <2>1. Len(input) = 0 /\ 0 \in 0..0
    BY <1>1
  <2>2. lastBodyParse \in 0..Len(input) /\ bodyToRead \in Nat
    BY <1>1, <2>1
  <2>3. result \in {"ok", "closed", "malformed", "end"}
    BY <1>1
  <2> QED
    BY <1>1, <2>2, <2>3 DEF Ranges
<1>3. Grammar
    BY <1>1, GrammarHolds
<1>4. Consumed = 0 /\ Len(input) = 0 /\ Len(got) = 0
    BY <1>1 DEF Consumed
<1>5. OnTape
  <2>1. \A t, p : On(<<>>, t, p)
    BY DEF On
  <2>2. Stream \in Seq(Byte) /\ Len(Stream) = End(2) /\ End(2) \in Nat
    BY <1>1, <1>3, Tapes, Where DEF FourPieces, Grammar, Places
  <2>3. On(source, Stream, Consumed + Len(input))
    BY <1>1, <1>4, <2>2 DEF On
  <2>4. Consumed + Len(input) + Len(source) = End(2) /\ Consumed <= End(2)
    BY <1>1, <1>4, <2>2
  <2> QED
    BY <1>1, <2>1, <2>3, <2>4 DEF OnTape
<1>6. Place
    BY <1>1, <1>4 DEF Place, AtHead, HeadLen
<1>7. FailsBetween
    BY <1>1 DEF FailsBetween
<1> QED
    BY <1>2, <1>5, <1>6, <1>7 DEF IInv

\* A step that changes nothing.
LEMMA Unchanged ==
    ASSUME IInv, UNCHANGED vars
    PROVE  IInv'
<1>1. UNCHANGED <<messages, source, state, input, output, counters, result, got>>
    BY DEF vars
<1>2. Ranges'
    BY <1>1 DEF IInv, Ranges, counters
<1>3. Stream' = Stream /\ ToGet' = ToGet /\ End(2)' = End(2)
    BY <1>1, SameTapes
<1>4. Consumed' = Consumed
    BY <1>1 DEF Consumed
<1>5. OnTape'
    BY <1>1, <1>3, <1>4 DEF IInv, OnTape
<1>6. Place'
    BY <1>1, PlaceKept DEF IInv
<1>7. FailsBetween'
    BY <1>1 DEF IInv, FailsBetween, Sized, Upgrade, First, Both
<1> QED
    BY <1>2, <1>5, <1>6, <1>7 DEF IInv

\* Every call of Read keeps the invariant.
LEMMA StepHolds ==
    ASSUME IInv, [Next]_vars
    PROVE  IInv'
<1>1. Ranges /\ OnTape /\ Place
    BY DEF IInv
<1>2. Grammar
    BY <1>1, GrammarHolds DEF Ranges
<1>3. CASE UNCHANGED vars
    BY <1>3, Unchanged
<1>4. CASE Next
  <2>1. result = "ok"
    BY <1>4 DEF Next
  <2>2. ASSUME result' = "ok" PROVE FailsBetween'
    BY <2>2 DEF FailsBetween
  <2>3. CASE CloseSecond
    BY <1>1, <1>2, <2>1, <2>3, CloseSecondStep DEF IInv
  <2>4. CASE ReadHeadPart
    <3>1. result' = "ok"
      BY <2>1, <2>4 DEF ReadHeadPart
    <3> QED
      BY <1>1, <1>2, <2>1, <2>2, <2>4, <3>1, ReadHeadPartStep DEF IInv
  <2>5. CASE ReadHead
    <3>1. result' = "ok"
      BY <2>1, <2>5 DEF ReadHead
    <3> QED
      BY <1>1, <1>2, <2>1, <2>2, <2>5, <3>1, ReadHeadStep DEF IInv
  <2>6. CASE ReadOutput
    <3>1. result' = "ok"
      BY <2>1, <2>6 DEF ReadOutput
    <3> QED
      BY <1>1, <1>2, <2>1, <2>2, <2>6, <3>1, ReadOutputStep DEF IInv
  <2>7. CASE ReadBody
    <3>1. result' = "ok"
      BY <2>1, <2>7 DEF ReadBody
    <3> QED
      BY <1>1, <1>2, <2>1, <2>2, <2>7, <3>1, ReadBodyStep DEF IInv
  <2>8. CASE ReadUpgraded
    <3>1. result' = "ok"
      BY <2>1, <2>8 DEF ReadUpgraded
    <3> QED
      BY <1>1, <1>2, <2>1, <2>2, <2>8, <3>1, ReadUpgradedStep DEF IInv
  <2>9. CASE ReadLinePart
    <3>1. result' = "ok"
      BY <2>1, <2>9 DEF ReadLinePart
    <3> QED
      BY <1>1, <1>2, <2>1, <2>2, <2>9, <3>1, ReadLinePartStep DEF IInv
  <2>10. CASE ReadLine
    <3>1. result' = "ok"
      BY <2>1, <2>10 DEF ReadLine
    <3> QED
      BY <1>1, <1>2, <2>1, <2>2, <2>10, <3>1, ReadLineStep DEF IInv
  <2>11. CASE ReadLast
    <3>1. result' = "ok"
      BY <2>1, <2>11 DEF ReadLast
    <3> QED
      BY <1>1, <1>2, <2>1, <2>2, <2>11, <3>1, ReadLastStep DEF IInv
  <2>12. CASE ReadChunk
    <3>1. result' = "ok"
      BY <2>1, <2>12 DEF ReadChunk
    <3> QED
      BY <1>1, <1>2, <2>1, <2>2, <2>12, <3>1, ReadChunkStep DEF IInv
  <2>13. CASE ReadMalformed
    BY <1>1, <1>2, <2>1, <2>13, ReadMalformedStep DEF IInv
  <2>14. CASE ReadEnd
    BY <1>1, <1>2, <2>1, <2>14, ReadEndStep DEF IInv
  <2>15. CASE ReadNoLine
    <3>1. result' = "ok"
      BY <2>1, <2>15 DEF ReadNoLine
    <3> QED
      BY <1>1, <1>2, <2>1, <2>2, <2>15, <3>1, ReadNoLineStep DEF IInv
  <2> QED
    BY <1>4, <2>3, <2>4, <2>5, <2>6, <2>7, <2>8, <2>9, <2>10, <2>11, <2>12, <2>13, <2>14, <2>15 DEF Next
<1> QED
    BY <1>3, <1>4

\* So it always holds.
LEMMA Invariant == Spec => []IInv
<1>1. Init => IInv
    BY InitHolds
<1>2. IInv /\ [Next]_vars => IInv'
    BY StepHolds
<1> QED
    BY <1>1, <1>2, PTL DEF Spec

-----------------------------------------------------------------------------
(* What it gives. *)

\* Every variable keeps its type, and what is left of a body is never negative:
\* Read subtracts from bodyToRead what it has passed on, and never more.
THEOREM ReaderTypes == Spec => []TypeOK
<1>1. IInv => TypeOK
  <2> SUFFICES ASSUME IInv PROVE TypeOK
    OBVIOUS
  <2>1. /\ state \in {"Head", "Body", "ChunkedBody", "Upgraded"}
        /\ state \in {"Head", "Upgraded"} => bodyToRead = 0
    BY DEF IInv, Place, AtHead, Inside, InBody, InUpgrade, AtChunk, InChunk, AtData
  <2> QED
    BY <2>1 DEF IInv, Ranges, TypeOK
<1> QED
    BY <1>1, Invariant, PTL

\* Whatever the packets are cut into, however long the messages and their chunks
\* and whatever the size of the buffers, the caller of Read gets what was sent,
\* in order and in full so far, with each head rewritten.
THEOREM PassesOnWhatWasSent == Spec => []Transparent
<1>1. IInv => Transparent
  <2> SUFFICES ASSUME IInv PROVE Transparent
    OBVIOUS
  <2>1. Grammar
    BY GrammarHolds DEF IInv, Ranges
  <2>2. On(got, ToGet, 0) /\ Len(got) <= Len(ToGet) /\ ToGet \in Seq(Byte)
    <3>1. Len(got) \in Nat /\ Len(output) \in Nat /\ Len(got) + Len(output) <= End(2)
      BY DEF IInv, OnTape, On, Consumed
    <3>2. Len(ToGet) = End(2) /\ ToGet \in Seq(Byte) /\ End(2) \in Nat
      BY <2>1, Where DEF Grammar, Places
    <3> QED
      BY <3>1, <3>2 DEF IInv, OnTape
  <2>3. On(ToGet, ToGet, 0) /\ Len(got) \in 0..Len(ToGet)
    BY <2>2 DEF On
  <2>4. On(SubSeq(ToGet, 1, Len(got)), ToGet, 0) /\ Len(SubSeq(ToGet, 1, Len(got))) = Len(got)
    BY <2>3, OnFirst
  <2>5. SubSeq(ToGet, 1, Len(got)) = got
    BY <2>2, <2>4, OnEqual
  <2>6. SubSeq(got, 1, Len(got)) = got
    BY <2>2 DEF On
  <2>7. IsPrefix(got, ToGet)
    BY <2>2, <2>5, <2>6 DEF IsPrefix
  <2> QED
    BY <2>7 DEF Transparent, ToGet
<1> QED
    BY <1>1, Invariant, PTL

\* Read fails between messages only: the connection is never closed with a part got
\* of a message whose length is declared, by a length or by its chunks, nor is such a
\* message called malformed.  A second message without a length is left after its head.
THEOREM FailsBetweenMessages == Spec => []FailsBetween
<1>1. IInv => FailsBetween
    BY DEF IInv
<1> QED
    BY <1>1, Invariant, PTL

-----------------------------------------------------------------------------
(* The first message. *)

\* What FirstArrives needs besides fairness: Read does not fail before the first
\* message is there.
FirstComplete == result # "ok" /\ Sized(1) => IsPrefix(First, got)

Enough == result # "ok" /\ Sized(1) => Len(got) >= End(1)

\* Only a call that fails can break it, and it fails where a message ends, or
\* behind the head of the second one.
LEMMA EnoughStep ==
    ASSUME IInv, Enough, [Next]_vars
    PROVE  Enough'
<1>1. Grammar /\ Ranges /\ OnTape /\ Place
    BY GrammarHolds DEF IInv, Ranges
<1>2. /\ Len(got) \in Nat /\ Consumed = Len(got) + Len(output)
      /\ End(1) \in Nat /\ End(2) \in Nat /\ End(1) <= End(2)
      /\ End(1) <= AfterHead(2) /\ AfterHead(2) \in Nat
    BY <1>1, Lengths, Where DEF Consumed
<1>3. ASSUME NEW r \in {"closed", "malformed", "end"}, Fails(r), Sized(1) => Len(got) >= End(1)
      PROVE  Enough'
  <2>1. messages' = messages /\ got' = got
    BY <1>3 DEF Fails
  <2>2. End(1)' = End(1) /\ Sized(1)' = Sized(1)
    BY <2>1, SameTapes DEF Sized
  <2> QED
    BY <1>3, <2>1, <2>2 DEF Enough
<1>4. ASSUME output = <<>>, Consumed >= End(1) PROVE Len(got) >= End(1)
  <2>1. Len(output) = 0
    BY <1>4
  <2> QED
    BY <1>2, <1>4, <2>1
<1>5. CASE UNCHANGED vars
  <2>1. UNCHANGED <<messages, got, result>>
    BY <1>5 DEF vars
  <2>2. End(1)' = End(1) /\ Sized(1)' = Sized(1)
    BY <2>1, SameTapes DEF Sized
  <2> QED
    BY <2>1, <2>2 DEF Enough
<1>6. CASE Next /\ result' = "ok"
    BY <1>6 DEF Enough
<1>7. CASE Next /\ result' # "ok"
  <2>1. result = "ok"
    BY <1>7 DEF Next
  <2>2. CASE CloseSecond
    <3>1. state = "Head" /\ headerParsed = TRUE /\ Fails("closed")
      BY <1>1, <2>2 DEF CloseSecond, Ranges
    <3>2. output = <<>> /\ Consumed \in {End(1), End(2)}
      BY <1>1, <3>1, InHead DEF AtHead
    <3>3. Len(got) >= End(1)
      BY <1>2, <1>4, <3>2
    <3> QED
      BY <1>3, <3>1, <3>3
  <2>3. CASE ReadMalformed
    <3>1. Fails("malformed")
      BY <1>1, <2>1, <2>3, MalformedAt
    <3>2. PICK i \in 1..2 : AtData(i)
      BY <1>1, <2>1, <2>3, MalformedAt
    <3>3. ASSUME Sized(1) PROVE Len(got) >= End(1)
      <4>1. i = 2
        BY <3>2, <3>3 DEF AtData, Sized
      <4>2. output = <<>> /\ Consumed = AfterHead(2)
        BY <3>2, <4>1 DEF AtData
      <4> QED
        BY <1>2, <1>4, <4>2
    <3> QED
      BY <1>3, <3>1, <3>3
  <2>4. CASE ReadEnd
    <3>1. ReadsInner /\ source = <<>> /\ Fails("end")
      BY <2>4 DEF ReadEnd
    <3>2. output = <<>> /\ (Consumed \in {End(1), End(2)} \/ \E i \in 1..2 : AtData(i))
      BY <1>1, <2>1, <3>1, EndOfMessage
    <3>3. ASSUME Sized(1) PROVE Len(got) >= End(1)
      <4>1. Consumed \in {End(1), End(2)} \/ Consumed = AfterHead(2)
        BY <3>2, <3>3 DEF AtData, Sized
      <4> QED
        BY <1>2, <1>4, <3>2, <4>1
    <3> QED
      BY <1>3, <3>1, <3>3
  <2>5. \/ ReadHeadPart \/ ReadHead \/ ReadOutput \/ ReadBody \/ ReadUpgraded
        \/ ReadLinePart \/ ReadNoLine \/ ReadLine \/ ReadLast \/ ReadChunk
        => result' = result
    BY DEF ReadHeadPart, ReadHead, ReadOutput, ReadBody, ReadUpgraded, ReadLinePart, ReadNoLine,
           ReadLine, ReadLast, ReadChunk
  <2> QED
    BY <1>7, <2>1, <2>2, <2>3, <2>4, <2>5 DEF Next
<1> QED
    BY <1>5, <1>6, <1>7

\* Whatever way Read ends, after a message whose length is declared, upgraded
\* connections included: all of the first message has been got by then, so that the
\* container has its request, or the client its answer.
THEOREM FirstIsComplete == Spec => []FirstComplete
<1>1. Init => Enough
    BY DEF Init, Enough
<1>2. IInv /\ Enough /\ [Next]_vars => Enough'
    BY EnoughStep
<1>3. IInv /\ Enough => FirstComplete
  <2> SUFFICES ASSUME IInv, result # "ok", Sized(1), Len(got) >= End(1) PROVE IsPrefix(First, got)
    BY DEF Enough, FirstComplete
  <2>1. Grammar /\ messages \in [1..2 -> Messages] /\ On(got, ToGet, 0)
    BY GrammarHolds DEF IInv, Ranges, OnTape
  <2>2. PICK n : n = Len(First)
    OBVIOUS
  <2>3. On(First, ToGet, 0) /\ n = End(1) /\ n \in Nat /\ Len(got) \in Nat
    BY <2>1, <2>2, FirstOnTape, Where DEF On
  <2>4. n \in 0..Len(got)
    BY <2>3
  <2>5. On(SubSeq(got, 1, n), ToGet, 0) /\ Len(SubSeq(got, 1, n)) = n
    BY <2>1, <2>4, OnFirst
  <2>6. First = SubSeq(got, 1, n)
    BY <2>2, <2>3, <2>5, OnEqual
  <2>7. SubSeq(First, 1, n) = First
    <3>1. First \in Seq(Byte) /\ On(First, ToGet, 0) /\ n \in 0..Len(First)
      BY <2>2, <2>3 DEF On
    <3>2. On(SubSeq(First, 1, n), ToGet, 0) /\ Len(SubSeq(First, 1, n)) = Len(First)
      BY <2>2, <3>1, OnFirst
    <3> QED
      BY <3>1, <3>2, OnEqual
  <2>8. SubSeq(First, 1, Len(First)) = SubSeq(got, 1, Len(First)) /\ Len(First) <= Len(got)
    <3>1. SubSeq(First, 1, n) = SubSeq(got, 1, n)
      BY <2>6, <2>7, Zenon
    <3> QED
      BY <2>2, <2>4, <3>1
  <2> QED
    BY <2>8, Zenon DEF IsPrefix
<1> QED
    BY <1>1, <1>2, <1>3, Invariant, PTL DEF Spec
=============================================================================
