---------------------------- MODULE Stream_proofs ----------------------------
(***************************************************************************)
(* Proofs about Stream, for all protocols and devices, all streams of the  *)
(* items that a device sends, all sizes of buffers and calls, and any      *)
(* division of the stream into reads: first what the loops of the chunker  *)
(* and of the router return, then the bytes of a connection as they pass   *)
(* through them, then the flag m_dispatchScheduled and the calls in the    *)
(* event queue.                                                            *)
(***************************************************************************)
EXTENDS Stream, Lists_proofs

-----------------------------------------------------------------------------
(* The next chunk.                                                         *)

ChunkKinds == {"NMEA", "ASCII", "BIN"}
ChunksOf(V) == [kind : ChunkKinds, payload : Seq(V) \ {<<>>}]

(* A line of n pieces with all its line ends is at the head of b. *)
IsLine(b, n) ==
  /\ b[n] \in LineEnds
  /\ n = Len(b) \/ b[n + 1] \notin LineEnds
  /\ \A i, j \in 1..n : i < j /\ b[i] \in LineEnds => b[j] \in LineEnds

LEMMA LineLengthProperties ==
  ASSUME NEW V, NEW b \in Seq(V), NEW e \in 1..Len(b), b[e] \in LineEnds
  PROVE  LineLength(b) \in 1..Len(b) /\ IsLine(b, LineLength(b))
<1> DEFINE N == Len(b)
           E == {i \in 1..N : b[i] \in LineEnds}
<1>1. N \in Nat /\ E \in SUBSET Nat /\ E # {}
  OBVIOUS
<1>2. PICK first \in E : \A i \in E : first <= i
  <2> HIDE DEF E
  <2>1. QED
    BY <1>1, LeastNatural
<1> DEFINE A == {i \in first..N + 1 : i = N + 1 \/ b[i] \notin LineEnds}
<1>3. A \in SUBSET Nat /\ N + 1 \in A
  BY <1>1
<1>4. PICK after \in A : \A i \in A : after <= i
  <2> HIDE DEF A
  <2>1. QED
    BY <1>3, LeastNatural
<1>5. /\ first \in 1..N /\ b[first] \in LineEnds
      /\ after \in first..N + 1 /\ (after = N + 1 \/ b[after] \notin LineEnds)
  BY <1>2
<1> HIDE DEF N
<1>5a. after # first
  BY <1>1, <1>5
<1> DEFINE n == after - 1
<1>6. n \in first..N /\ n \in 1..N /\ n + 1 = after
  BY <1>1, <1>5, <1>5a
<1>7. \A i \in first..n : b[i] \in LineEnds
  <2> TAKE i \in first..n
  <2>1. i \in first..N + 1 /\ i # N + 1 /\ ~(after <= i)
    BY <1>1, <1>5, <1>6
  <2>2. i \notin A
    BY <1>4, <2>1
  <2>3. QED
    BY <2>1, <2>2 DEF N
<1>8. \A i \in 1..n : b[i] \in LineEnds => i \in first..n
  <2> TAKE i \in 1..n
  <2> HAVE b[i] \in LineEnds
  <2>1. i \in 1..N
    BY <1>1, <1>6
  <2>2. i \in E
    BY <2>1 DEF N
  <2>3. first <= i
    BY <1>2, <2>2
  <2>4. QED
    BY <1>5, <2>3
<1>9. IsLine(b, n)
  <2>1. b[n] \in LineEnds
    BY <1>1, <1>5, <1>6, <1>7
  <2>2. n = N \/ b[n + 1] \notin LineEnds
    BY <1>1, <1>5, <1>6
  <2>3. ASSUME NEW i \in 1..n, NEW j \in 1..n, i < j, b[i] \in LineEnds
        PROVE  b[j] \in LineEnds
    <3>1. i \in first..n
      BY <1>8, <2>3
    <3>2. j \in first..n
      BY <1>5, <2>3, <3>1
    <3>3. QED
      BY <1>7, <3>2
  <2> HIDE DEF n
  <2>4. QED
    BY <2>1, <2>2, <2>3 DEF IsLine, N
<1> HIDE DEF n
<1>10. \E k \in 1..Len(b) : IsLine(b, k)
  BY <1>6, <1>9 DEF N
<1>11. LineLength(b) = CHOOSE k \in 1..Len(b) : IsLine(b, k)
  BY DEF LineLength, IsLine
<1>12. QED
  BY <1>10, <1>11

(* The next chunk takes some of b, or b is short.                          *)
LEMMA NextChunkSize ==
  ASSUME NEW V, NEW b \in Seq(V), b # <<>>
  PROVE  /\ NextChunk(b).kind \in ChunkKinds
         /\ NextChunk(b).size \in 0..Len(b)
         /\ NextChunk(b).size = 0 => Len(b) <= MaxText
<1> DEFINE sizes == {Framer(h, b).size : h \in Framed} \ {0}
           waits == \E h \in Framed : Framer(h, b).wait
<1>1. Len(b) \in Nat /\ Len(b) >= 1 /\ MaxText \in Nat /\ MaxText >= 1
  BY BoundsArePositive
<1>2. \A n \in sizes : n = 2 /\ Len(b) > 1
  BY DEF Framer
<1>3. waits => Len(b) = 1
  <2>1. SUFFICES ASSUME NEW h \in Framed, Framer(h, b).wait PROVE Len(b) = 1
    OBVIOUS
  <2>2. b = <<h>>
    BY <2>1, Zenon DEF Framer
  <2>3. QED
    BY <2>2
<1>4. CASE sizes # {}
  <2>1. NextChunk(b) = [kind |-> "BIN", size |-> CHOOSE n \in sizes : TRUE]
    BY <1>4 DEF NextChunk
  <2>2. (CHOOSE n \in sizes : TRUE) \in sizes
    BY <1>4
  <2> HIDE DEF sizes
  <2>3. NextChunk(b).kind = "BIN" /\ NextChunk(b).size = 2 /\ Len(b) > 1
    BY <1>2, <2>1, <2>2
  <2>4. QED
    BY <1>1, <2>3 DEF ChunkKinds
<1>5. CASE sizes = {} /\ waits
  <2>1. NextChunk(b) = [kind |-> "BIN", size |-> 0]
    BY <1>5 DEF NextChunk
  <2>2. Len(b) = 1
    <3> HIDE DEF waits
    <3>1. QED
      BY <1>3, <1>5
  <2>3. QED
    BY <1>1, <2>1, <2>2 DEF ChunkKinds
<1>6. CASE sizes = {} /\ ~waits /\ LooksLikeTextRun(b, 1)
  <2> DEFINE n == LineLength(b)
  <2>1. NextChunk(b) = [kind |-> Classify(SubSeq(b, 1, n)), size |-> n]
    BY <1>6 DEF NextChunk
  <2>2. n \in 1..Len(b)
    <3>1. \E end \in 1 + 1..Len(b) : b[end] \in LineEnds
      BY <1>6 DEF LooksLikeTextRun
    <3>2. PICK end \in 1..Len(b) : b[end] \in LineEnds
      BY <1>1, <3>1
    <3>3. QED
      BY <3>2, LineLengthProperties
  <2>3. Classify(SubSeq(b, 1, n)) \in ChunkKinds
    BY DEF Classify, ChunkKinds
  <2> HIDE DEF n
  <2>4. QED
    BY <1>1, <2>1, <2>2, <2>3
<1>7. CASE sizes = {} /\ ~waits /\ ~LooksLikeTextRun(b, 1) /\ Boundaries(b) # {}
  <2> DEFINE i == CHOOSE k \in Boundaries(b) : \A j \in Boundaries(b) : k <= j
  <2>1. NextChunk(b) = [kind |-> "BIN", size |-> i - 1]
    BY <1>7 DEF NextChunk
  <2>2. Boundaries(b) \in SUBSET (2..Len(b)) /\ Boundaries(b) \in SUBSET Nat
    BY <1>1 DEF Boundaries
  <2>3. \E k \in Boundaries(b) : \A j \in Boundaries(b) : k <= j
    BY <1>7, <2>2, LeastNatural
  <2>4. i \in Boundaries(b)
    BY <2>3
  <2> HIDE DEF i
  <2>5. QED
    BY <1>1, <2>1, <2>2, <2>4 DEF ChunkKinds
<1>8. CASE /\ sizes = {} /\ ~waits /\ ~LooksLikeTextRun(b, 1) /\ Boundaries(b) = {}
           /\ IsTextLike(b)
  <2>1. NextChunk(b) = [kind |-> "ASCII",
                        size |-> IF Len(b) > MaxText THEN Len(b) ELSE 0]
    BY <1>8 DEF NextChunk
  <2>2. QED
    BY <1>1, <2>1 DEF ChunkKinds
<1>9. CASE /\ sizes = {} /\ ~waits /\ ~LooksLikeTextRun(b, 1) /\ Boundaries(b) = {}
           /\ ~IsTextLike(b)
  <2>1. NextChunk(b) = [kind |-> "BIN", size |-> Len(b)]
    BY <1>9 DEF NextChunk
  <2>2. QED
    BY <1>1, <2>1 DEF ChunkKinds
<1>10. QED
  BY <1>4, <1>5, <1>6, <1>7, <1>8, <1>9

-----------------------------------------------------------------------------
(* The bytes of a list of chunks.                                          *)

(* The values of g for the members of s, flattened.                        *)
FlatMap(g, s) == FlattenSeq([i \in DOMAIN s |-> g[s[i]]])

LEMMA FlatMapProperties ==
  ASSUME NEW V, NEW C, NEW g \in [C -> Seq(V)]
  PROVE  /\ FlatMap(g, <<>>) = <<>>
         /\ \A s \in Seq(C) : FlatMap(g, s) \in Seq(V)
         /\ \A s, t \in Seq(C) : FlatMap(g, s \o t) = FlatMap(g, s) \o FlatMap(g, t)
         /\ \A s \in Seq(C), c \in C : FlatMap(g, Append(s, c)) = FlatMap(g, s) \o g[c]
<1> DEFINE W == Seq(V)
           gs(s) == [i \in DOMAIN s |-> g[s[i]]]
<1>1. \A s \in Seq(C) : gs(s) \in Seq(W) /\ FlatMap(g, s) = FlattenSeq(gs(s))
  <2>1. SUFFICES ASSUME NEW s \in Seq(C)
               PROVE  gs(s) \in Seq(W) /\ FlatMap(g, s) = FlattenSeq(gs(s))
    OBVIOUS
  <2>2. gs(s) \in Seq(W)
    <3>1. \A i \in DOMAIN s : g[s[i]] \in W
      OBVIOUS
    <3>1a. Len(s) \in Nat /\ DOMAIN s = 1..Len(s)
      OBVIOUS
    <3> HIDE DEF W
    <3>2. QED
      BY <3>1, <3>1a
  <2>3. QED
    BY <2>2 DEF FlatMap
<1>2. FlatMap(g, <<>>) = <<>>
  <2>1. gs(<<>>) = <<>>
    OBVIOUS
  <2>2. QED
    BY <2>1, FlattenEmpty DEF FlatMap
<1>3. \A s \in Seq(C) : FlatMap(g, s) \in Seq(V)
  BY <1>1, FlattenType
<1>4. ASSUME NEW s \in Seq(C), NEW t \in Seq(C)
      PROVE  FlatMap(g, s \o t) = FlatMap(g, s) \o FlatMap(g, t)
  <2>1. gs(s \o t) = gs(s) \o gs(t)
    <3>1. s \o t \in Seq(C)
      OBVIOUS
    <3>2. Len(gs(s \o t)) = Len(s) + Len(t) /\ Len(gs(s)) = Len(s) /\ Len(gs(t)) = Len(t)
      OBVIOUS
    <3>3. \A i \in 1..Len(s) + Len(t) :
            gs(s \o t)[i] = IF i <= Len(s) THEN gs(s)[i] ELSE gs(t)[i - Len(s)]
      OBVIOUS
    <3> HIDE DEF gs, W
    <3>4. gs(s \o t) \in Seq(W) /\ gs(s) \in Seq(W) /\ gs(t) \in Seq(W)
      BY <1>1, <3>1
    <3> DEFINE A == gs(s)
               B == gs(t)
    <3>5. A \in Seq(W) /\ B \in Seq(W) /\ Len(A) = Len(s) /\ Len(B) = Len(t)
      BY <3>2, <3>4
    <3> HIDE DEF A, B
    <3>6. A \o B \in Seq(W)
      BY <3>5
    <3>6a. Len(A \o B) = Len(s) + Len(t)
      BY <3>5
    <3>6b. \A i \in 1..Len(s) + Len(t) :
             (A \o B)[i] = IF i <= Len(s) THEN A[i] ELSE B[i - Len(s)]
      BY <3>5
    <3>7. gs(s \o t) = A \o B
      <4>1. \A i \in 1..Len(s) + Len(t) : gs(s \o t)[i] = (A \o B)[i]
        BY <3>3, <3>6b DEF A, B
      <4>2. QED
        BY <3>2, <3>4, <3>6, <3>6a, <4>1, SeqEqual
    <3>8. QED
      BY <3>7 DEF A, B
  <2> HIDE DEF gs
  <2>2. FlattenSeq(gs(s) \o gs(t)) = FlattenSeq(gs(s)) \o FlattenSeq(gs(t))
    BY <1>1, FlattenConcat
  <2>3. s \o t \in Seq(C)
    OBVIOUS
  <2>4. QED
    BY <1>1, <2>1, <2>2, <2>3
<1>5. ASSUME NEW s \in Seq(C), NEW c \in C
      PROVE  FlatMap(g, Append(s, c)) = FlatMap(g, s) \o g[c]
  <2>1. gs(Append(s, c)) = Append(gs(s), g[c])
    <3>1. Append(s, c) \in Seq(C) /\ g[c] \in W
      OBVIOUS
    <3>2. Len(gs(Append(s, c))) = Len(s) + 1 /\ Len(gs(s)) = Len(s)
      OBVIOUS
    <3>3. /\ \A i \in 1..Len(s) : gs(Append(s, c))[i] = gs(s)[i]
          /\ gs(Append(s, c))[Len(s) + 1] = g[c]
      OBVIOUS
    <3> HIDE DEF gs, W
    <3>4. gs(Append(s, c)) \in Seq(W) /\ gs(s) \in Seq(W)
      BY <1>1, <3>1
    <3>5. QED
      BY <3>1, <3>2, <3>3, <3>4
  <2>2. g[c] \in Seq(V) /\ Append(s, c) \in Seq(C)
    OBVIOUS
  <2> HIDE DEF gs
  <2>3. QED
    BY <1>1, <2>1, <2>2, FlattenAppend
<1>6. QED
  BY <1>2, <1>3, <1>4, <1>5

LEMMA PayloadProperties ==
  ASSUME NEW V
  PROVE  /\ PayloadOf(<<>>) = <<>>
         /\ \A s \in Seq(ChunksOf(V)) : PayloadOf(s) \in Seq(V)
         /\ \A s, t \in Seq(ChunksOf(V)) : PayloadOf(s \o t) = PayloadOf(s) \o PayloadOf(t)
         /\ \A s \in Seq(ChunksOf(V)), c \in ChunksOf(V) :
              PayloadOf(Append(s, c)) = PayloadOf(s) \o c.payload
<1> DEFINE C == ChunksOf(V)
           g == [c \in C |-> c.payload]
<1>1. g \in [C -> Seq(V)]
  BY DEF ChunksOf
<1>2. \A s \in Seq(C) : PayloadOf(s) = FlatMap(g, s)
  <2>1. SUFFICES ASSUME NEW s \in Seq(C) PROVE PayloadOf(s) = FlatMap(g, s)
    OBVIOUS
  <2>2. [i \in DOMAIN s |-> g[s[i]]] = [i \in DOMAIN s |-> s[i].payload]
    <3> HIDE DEF C
    <3>1. QED
      OBVIOUS
  <2>3. QED
    BY <2>2 DEF PayloadOf, FlatMap
<1>3. \A c \in C : g[c] = c.payload
  OBVIOUS
<1> HIDE DEF C, g
<1>4. /\ <<>> \in Seq(C)
      /\ \A s, t \in Seq(C) : s \o t \in Seq(C)
      /\ \A s \in Seq(C), c \in C : Append(s, c) \in Seq(C)
  OBVIOUS
<1>5. /\ FlatMap(g, <<>>) = <<>>
      /\ \A s \in Seq(C) : FlatMap(g, s) \in Seq(V)
      /\ \A s, t \in Seq(C) : FlatMap(g, s \o t) = FlatMap(g, s) \o FlatMap(g, t)
      /\ \A s \in Seq(C), c \in C : FlatMap(g, Append(s, c)) = FlatMap(g, s) \o g[c]
  BY <1>1, FlatMapProperties
<1>6. /\ PayloadOf(<<>>) = <<>>
      /\ \A s \in Seq(C) : PayloadOf(s) \in Seq(V)
      /\ \A s, t \in Seq(C) : PayloadOf(s \o t) = PayloadOf(s) \o PayloadOf(t)
  BY <1>2, <1>4, <1>5
<1>7. \A s \in Seq(C), c \in C : PayloadOf(Append(s, c)) = PayloadOf(s) \o c.payload
  BY <1>2, <1>3, <1>4, <1>5
<1>8. QED
  BY <1>6, <1>7 DEF C

-----------------------------------------------------------------------------
(* The loop of takeAvailableChunks.                                        *)

Taking(V) == [chunks : Seq(ChunksOf(V)), rest : Seq(V)]

(* A turn takes a chunk from the head of what is left, or nothing more can *)
(* be taken.                                                               *)
LEMMA TurnProperties ==
  ASSUME NEW V, NEW t \in Taking(V)
  PROVE  \/ Turn(t) = t /\ Len(t.rest) <= MaxText
         \/ \E c \in ChunksOf(V) :
              /\ c.kind = NextChunk(t.rest).kind
              /\ c.payload = SubSeq(t.rest, 1, NextChunk(t.rest).size)
              /\ Turn(t).chunks = Append(t.chunks, c)
              /\ c.payload \o Turn(t).rest = t.rest
              /\ Turn(t) \in Taking(V)
<1> DEFINE b == t.rest
           next == NextChunk(b)
           n == next.size
           c == [kind |-> next.kind, payload |-> SubSeq(b, 1, n)]
<1>1. b \in Seq(V) /\ t.chunks \in Seq(ChunksOf(V)) /\ MaxText \in Nat
  BY BoundsArePositive DEF Taking
<1>2. CASE b = <<>> \/ n = 0
  <2>1. Turn(t) = t
    BY <1>2 DEF Turn
  <2>2. Len(b) <= MaxText
    <3>1. CASE b = <<>>
      BY <1>1, <3>1
    <3>2. CASE b # <<>>
      BY <1>1, <1>2, <3>2, NextChunkSize
    <3>3. QED
      BY <3>1, <3>2
  <2>3. QED
    BY <2>1, <2>2
<1>3. CASE ~(b = <<>> \/ n = 0)
  <2>1. next.kind \in ChunkKinds /\ n \in 1..Len(b)
    BY <1>1, <1>3, NextChunkSize
  <2>2. Turn(t) = [chunks |-> Append(t.chunks, c), rest |-> SubSeq(b, n + 1, Len(b))]
    BY <1>3 DEF Turn
  <2>2a. Turn(t).chunks = Append(t.chunks, c) /\ Turn(t).rest = SubSeq(b, n + 1, Len(b))
    BY <1>3 DEF Turn
  <2> HIDE DEF n, next
  <2>3. /\ SubSeq(b, 1, n) \in Seq(V) /\ SubSeq(b, 1, n) # <<>>
        /\ SubSeq(b, n + 1, Len(b)) \in Seq(V)
    <3> HIDE DEF b
    <3>1. QED
      BY <1>1, <2>1
  <2>4. SubSeq(b, 1, n) \o SubSeq(b, n + 1, Len(b)) = b
    <3> HIDE DEF b
    <3>1. QED
      BY <1>1, <2>1
  <2>5. c \in ChunksOf(V)
    BY <2>1, <2>3 DEF ChunksOf
  <2>6. c.payload = SubSeq(b, 1, n) /\ c.kind = next.kind
    OBVIOUS
  <2> HIDE DEF c, b
  <2>7. Turn(t) \in Taking(V) /\ Turn(t).rest = SubSeq(b, n + 1, Len(b))
        /\ Turn(t).chunks = Append(t.chunks, c)
    <3>1. Append(t.chunks, c) \in Seq(ChunksOf(V))
      BY <1>1, <2>5
    <3>3. Turn(t) \in Taking(V)
      BY <2>2, <2>3, <3>1 DEF Taking
    <3>4. QED
      BY <2>2a, <3>3
  <2>8. QED
    BY <2>4, <2>5, <2>6, <2>7 DEF n, next, b
<1>4. QED
  BY <1>2, <1>3

(* f[n] is what the first n turns make of b. *)
Takes(f, b) ==
  /\ f[0] = [chunks |-> <<>>, rest |-> b]
  /\ \A n \in 1..Len(b) : f[n] = Turn(f[n - 1])
  /\ TakeAvailableChunks(b) = f[Len(b)]

LEMMA TakingRecursion ==
  ASSUME NEW V, NEW b \in Seq(V)
  PROVE  \E f \in [0..Len(b) -> Taking(V)] : Takes(f, b)
<1> DEFINE N == Len(b)
           W == Taking(V)
           start == [chunks |-> <<>>, rest |-> b]
           Def(f) == [n \in 0..N |-> IF n = 0 THEN start ELSE Turn(f[n - 1])]
           F == CHOOSE f : f = Def(f)
           step == [x \in (1..N) \X W |-> Turn(x[2])]
<1>1. TakeAvailableChunks(b) = F[N]
  BY DEF TakeAvailableChunks
<1>2. N \in Nat /\ start \in W
  BY DEF Taking
<1>3. \A t \in W : Turn(t) \in W
  BY TurnProperties
<1> HIDE DEF N, W, start
<1>4. step \in [(1..N) \X W -> W]
  BY <1>3
<1>5. \A i \in 1..N, t \in W : step[<<i, t>>] = Turn(t)
  OBVIOUS
<1> HIDE DEF step
<1>6. PICK f \in [0..N -> W] : Follows(f, start, N, step)
  BY <1>2, <1>4, FiniteRecursion
<1>7. f[0] = start /\ \A i \in 1..N : f[i] = step[<<i, f[i - 1]>>]
  BY <1>6 DEF Follows
<1>8. \A i \in 1..N : i - 1 \in 0..N /\ f[i - 1] \in W
  BY <1>2
<1>9. \A i \in 1..N : f[i] = Turn(f[i - 1])
  BY <1>5, <1>7, <1>8
<1>10. f = Def(f)
  <2>1. \A n \in 0..N : f[n] = Def(f)[n]
    <3> TAKE n \in 0..N
    <3>1. CASE n = 0
      BY <1>7, <3>1
    <3>2. CASE n # 0
      <4>1. n \in 1..N
        BY <1>2, <3>2
      <4>2. Def(f)[n] = Turn(f[n - 1])
        BY <3>2
      <4>3. QED
        BY <1>9, <4>1, <4>2
    <3>3. QED
      BY <3>1, <3>2
  <2>2. f = [n \in 0..N |-> f[n]]
    OBVIOUS
  <2>3. QED
    BY <2>1, <2>2
<1>11. F = Def(F)
  <2> HIDE DEF Def
  <2>1. QED
    BY <1>10
<1> HIDE DEF F
<1>12. F[0] = start
  BY <1>2, <1>11
<1>13. ASSUME NEW n \in 1..N PROVE F[n] = Turn(F[n - 1])
  <2>1. n \in 0..N /\ n # 0
    BY <1>2
  <2>2. Def(F)[n] = Turn(F[n - 1])
    BY <2>1
  <2>3. QED
    BY <1>11, <2>2
<1>14. F \in [0..N -> W]
  <2>1. ASSUME NEW i \in 1..N, F[i - 1] \in W PROVE F[i] = step[<<i, F[i - 1]>>]
    BY <1>5, <1>13, <2>1
  <2>2. \A i \in 0..N : F[i] \in W
    BY <1>2, <1>4, <1>12, <2>1, RecursionTypes
  <2>3. F = [n \in 0..N |-> F[n]]
    <3> DEFINE G == [n \in 0..N |-> IF n = 0 THEN start ELSE Turn(F[n - 1])]
    <3>1. F = G
      BY <1>11
    <3>2. QED
      BY <3>1
  <2>4. QED
    BY <2>2, <2>3
<1>15. QED
  BY <1>1, <1>12, <1>13, <1>14 DEF N, W, start, Takes

(* What is taken and what is left are the contents of the buffer, and what *)
(* is left is shorter than a line that is given up.                        *)
LEMMA TakingProperties ==
  ASSUME NEW V, NEW b \in Seq(V)
  PROVE  LET t == TakeAvailableChunks(b)
         IN  /\ t \in Taking(V)
             /\ PayloadOf(t.chunks) \o t.rest = b
             /\ Len(t.rest) <= MaxText
<1>1. PICK f \in [0..Len(b) -> Taking(V)] : Takes(f, b)
  BY TakingRecursion
<1> DEFINE N == Len(b)
           t == TakeAvailableChunks(b)
           Whole(n) == PayloadOf(f[n].chunks) \o f[n].rest = b
           Shorter(n) == Len(f[n].rest) <= MaxText \/ Len(f[n].rest) + n <= N
           S == {n \in Nat : n <= N => Whole(n) /\ Shorter(n)}
<1>2. /\ f[0] = [chunks |-> <<>>, rest |-> b] /\ t = f[N]
      /\ \A n \in 1..N : f[n] = Turn(f[n - 1])
  BY <1>1 DEF Takes
<1>3. N \in Nat /\ MaxText \in Nat /\ MaxText >= 1
  BY BoundsArePositive
<1> HIDE DEF N, t
<1>4. \A n \in 0..N : /\ f[n] \in Taking(V)
                      /\ f[n].chunks \in Seq(ChunksOf(V)) /\ f[n].rest \in Seq(V)
  BY <1>1 DEF N, Taking
<1>5. 0 \in S
  <2>1. f[0].chunks = <<>> /\ f[0].rest = b
    BY <1>2
  <2>2. PayloadOf(<<>>) = <<>>
    BY PayloadProperties
  <2>3. <<>> \o b = b
    BY ConcatEmptySeq
  <2>4. Shorter(0)
    BY <1>3, <2>1 DEF N
  <2>5. QED
    BY <2>1, <2>2, <2>3, <2>4
<1>6. ASSUME NEW n \in S PROVE n + 1 \in S
  <2>1. SUFFICES ASSUME n + 1 <= N PROVE Whole(n + 1) /\ Shorter(n + 1)
    OBVIOUS
  <2>2. n \in Nat /\ n \in 0..N /\ n + 1 \in 1..N /\ (n + 1) - 1 = n
    BY <1>3, <2>1
  <2>3. Whole(n) /\ Shorter(n) /\ f[n + 1] = Turn(f[n])
    <3>1. n <= N
      BY <1>3, <2>1, <2>2
    <3>2. f[n + 1] = Turn(f[n])
      BY <1>2, <2>2
    <3> HIDE DEF Whole, Shorter
    <3>3. QED
      BY <3>1, <3>2
  <2> DEFINE s == f[n]
  <2>4. s \in Taking(V) /\ s.chunks \in Seq(ChunksOf(V)) /\ s.rest \in Seq(V)
        /\ f[n + 1] \in Taking(V) /\ f[n + 1].rest \in Seq(V)
    BY <1>3, <1>4, <2>2
  <2>5. CASE Turn(s) = s /\ Len(s.rest) <= MaxText
    BY <2>3, <2>5
  <2>6. CASE \E c \in ChunksOf(V) :
               /\ Turn(s).chunks = Append(s.chunks, c)
               /\ c.payload \o Turn(s).rest = s.rest
    <3>1. PICK c \in ChunksOf(V) : /\ Turn(s).chunks = Append(s.chunks, c)
                                   /\ c.payload \o Turn(s).rest = s.rest
      BY <2>6
    <3> DEFINE rest == f[n + 1].rest
               done == PayloadOf(s.chunks)
               p == c.payload
    <3>2. f[n + 1].chunks = Append(s.chunks, c) /\ p \o rest = s.rest /\ rest \in Seq(V)
      BY <2>3, <2>4, <3>1
    <3>3. PayloadOf(Append(s.chunks, c)) = done \o p /\ done \in Seq(V)
      BY <2>4, PayloadProperties
    <3>4. p \in Seq(V) /\ p # <<>>
      BY DEF ChunksOf
    <3>5. done \o s.rest = b
      BY <2>3
    <3> HIDE DEF rest, done, p
    <3>6. (done \o p) \o rest = done \o (p \o rest)
      <4>1. rest \in Seq(V)
        BY <3>2
      <4>2. done \in Seq(V)
        BY <3>3
      <4>3. p \in Seq(V)
        BY <3>4
      <4>4. QED
        BY <4>1, <4>2, <4>3, ConcatAssociative
    <3>7. Whole(n + 1)
      <4>1. PayloadOf(f[n + 1].chunks) = done \o p
        BY <3>2, <3>3
      <4>2. PayloadOf(f[n + 1].chunks) \o rest = b
        BY <3>2, <3>5, <3>6, <4>1
      <4>3. QED
        BY <4>2 DEF rest
    <3>8. Len(s.rest) = Len(p) + Len(rest) /\ Len(p) >= 1 /\ Len(rest) \in Nat
          /\ Len(p) \in Nat
      <4>0. rest \in Seq(V) /\ p \in Seq(V)
        BY <3>2, <3>4
      <4>1. Len(p \o rest) = Len(p) + Len(rest)
        BY <4>0
      <4>2. Len(p) \in Nat \ {0}
        BY <3>4, EmptySeq
      <4>3. QED
        BY <3>2, <4>1, <4>2
    <3>9. Len(rest) <= MaxText \/ Len(rest) + (n + 1) <= N
      <4>1. Len(s.rest) <= MaxText \/ Len(s.rest) + n <= N
        BY <2>3
      <4> HIDE DEF s
      <4>2. QED
        BY <1>3, <2>2, <3>8, <4>1
    <3>10. QED
      BY <3>7, <3>9 DEF rest
  <2>7. QED
    BY <2>4, <2>5, <2>6, TurnProperties
<1>7. N \in S
  <2> HIDE DEF S
  <2>1. S \in SUBSET Nat
    BY DEF S
  <2>2. QED
    BY <1>3, <1>5, <1>6, <2>1, SetInduction
<1>8. Whole(N) /\ Shorter(N) /\ f[N] \in Taking(V) /\ f[N].rest \in Seq(V)
  <2>1. N \in 0..N
    BY <1>3
  <2>2. Whole(N) /\ Shorter(N)
    <3> HIDE DEF Whole, Shorter
    <3>1. QED
      BY <1>3, <1>7
  <2>3. QED
    BY <1>4, <2>1, <2>2
<1>9. Len(f[N].rest) <= MaxText
  <2>1. Len(f[N].rest) \in Nat
    BY <1>8
  <2>2. Len(f[N].rest) <= MaxText \/ Len(f[N].rest) + N <= N
    BY <1>8
  <2>3. QED
    BY <1>3, <2>1, <2>2
<1>10. QED
  BY <1>2, <1>8, <1>9 DEF t

-----------------------------------------------------------------------------
(* The loop of mergeBinaryChunks.                                          *)

(* G is a set of chunks that contains what its binary ones are merged to.  *)
Joinable(G) ==
  \A c, d \in G : c.kind = "BIN" /\ d.kind = "BIN"
                    => [kind |-> "BIN", payload |-> c.payload \o d.payload] \in G

LEMMA JoinedProperties ==
  ASSUME NEW V, NEW G \in SUBSET ChunksOf(V), Joinable(G),
         NEW m \in Seq(G), NEW c \in G
  PROVE  /\ Joined(m, c) \in Seq(G)
         /\ PayloadOf(Joined(m, c)) = PayloadOf(m) \o c.payload
<1>1. m \in Seq(ChunksOf(V)) /\ c \in ChunksOf(V)
  BY SeqMonotonic
<1>2. CASE m # <<>> /\ Last(m).kind = "BIN" /\ c.kind = "BIN"
  <2>1. PICK s \in Seq(G), d \in G : m = Append(s, d)
    BY <1>2, SequenceEmptyOrAppend
  <2> DEFINE n == Len(s)
             e == [kind |-> "BIN", payload |-> d.payload \o c.payload]
  <2>2. n \in Nat /\ Len(m) = n + 1 /\ m[n + 1] = d /\ \A i \in 1..n : m[i] = s[i]
    BY <2>1
  <2>3. Last(m) = d
    BY <2>2 DEF Last
  <2>4. e \in G
    BY <1>2, <2>3 DEF Joinable
  <2>5. d \in ChunksOf(V)
    OBVIOUS
  <2>6. d = [kind |-> "BIN", payload |-> d.payload]
    BY <1>2, <2>3, <2>5 DEF ChunksOf
  <2>7. [d EXCEPT !.payload = d.payload \o c.payload] = e
    <3> DEFINE q == d.payload
               x == d.payload \o c.payload
    <3>1. d = [kind |-> "BIN", payload |-> q]
      BY <2>6
    <3> HIDE DEF x, q
    <3>2. [d EXCEPT !.payload = x] = [kind |-> "BIN", payload |-> x]
      BY <3>1
    <3>3. QED
      BY <3>2 DEF x
  <2>8. Joined(m, c) = [m EXCEPT ![n + 1] = e]
    <3>1. Joined(m, c) = [m EXCEPT ![Len(m)].payload = @ \o c.payload]
      BY <1>2 DEF Joined
    <3>2. Joined(m, c) =
            [m EXCEPT ![Len(m)] =
               [m[Len(m)] EXCEPT !.payload = m[Len(m)].payload \o c.payload]]
      BY <3>1
    <3>3. QED
      BY <2>2, <2>7, <3>2
  <2> HIDE DEF e
  <2>9. Joined(m, c) = Append(s, e)
    <3>1. n + 1 \in 1..Len(m)
      BY <2>2
    <3>2. Joined(m, c) \in Seq(G) /\ Len(Joined(m, c)) = n + 1
          /\ \A j \in 1..Len(m) : Joined(m, c)[j] = IF j = n + 1 THEN e ELSE m[j]
      BY <2>2, <2>4, <2>8, <3>1, ExceptSeq
    <3>3. Append(s, e) \in Seq(G) /\ Len(Append(s, e)) = n + 1
          /\ (\A j \in 1..n : Append(s, e)[j] = s[j]) /\ Append(s, e)[n + 1] = e
      BY <2>4, AppendProperties
    <3>4. \A j \in 1..n + 1 : Joined(m, c)[j] = Append(s, e)[j]
      <4> TAKE j \in 1..n + 1
      <4>1. CASE j = n + 1
        BY <2>2, <3>2, <3>3, <4>1
      <4>2. CASE j # n + 1
        <5>1. j \in 1..n /\ j \in 1..Len(m)
          BY <2>2, <4>2
        <5>2. QED
          BY <2>2, <3>2, <3>3, <4>2, <5>1
      <4>3. QED
        BY <4>1, <4>2
    <3>5. QED
      BY <3>2, <3>3, <3>4, SeqEqual
  <2>10. s \in Seq(ChunksOf(V)) /\ e \in ChunksOf(V)
    BY <2>4, SeqMonotonic
  <2>11. /\ PayloadOf(Append(s, e)) = PayloadOf(s) \o e.payload
         /\ PayloadOf(m) = PayloadOf(s) \o d.payload
         /\ PayloadOf(s) \in Seq(V)
    BY <2>1, <2>5, <2>10, PayloadProperties
  <2>12. e.payload = d.payload \o c.payload
    BY DEF e
  <2> DEFINE p == PayloadOf(s)
             q == d.payload
             r == c.payload
  <2>13. p \in Seq(V) /\ q \in Seq(V) /\ r \in Seq(V)
    BY <1>1, <2>5, <2>11 DEF ChunksOf
  <2>14. p \o (q \o r) = (p \o q) \o r
    <3> HIDE DEF p, q, r
    <3>1. QED
      BY <2>13, ConcatAssociative
  <2>15. PayloadOf(Joined(m, c)) = PayloadOf(m) \o c.payload
    BY <2>9, <2>11, <2>12, <2>14
  <2>16. Append(s, e) \in Seq(G)
    BY <2>4
  <2>17. QED
    BY <2>9, <2>15, <2>16
<1>3. CASE ~(m # <<>> /\ Last(m).kind = "BIN" /\ c.kind = "BIN")
  <2>1. Joined(m, c) = Append(m, c)
    BY <1>3 DEF Joined
  <2>2. Append(m, c) \in Seq(G)
    OBVIOUS
  <2>3. QED
    BY <1>1, <2>1, <2>2, PayloadProperties
<1>4. QED
  BY <1>2, <1>3

(* f[n] is what the first n turns of the loop merge. *)
Merges(f, cs) ==
  /\ f[0] = <<>>
  /\ \A n \in 1..Len(cs) : f[n] = Joined(f[n - 1], cs[n])
  /\ MergeBinary(cs) = f[Len(cs)]

LEMMA MergeRecursion ==
  ASSUME NEW V, NEW G \in SUBSET ChunksOf(V), Joinable(G), NEW cs \in Seq(G)
  PROVE  \E f \in [0..Len(cs) -> Seq(G)] : Merges(f, cs)
<1> DEFINE N == Len(cs)
           W == Seq(G)
           Def(f) == [n \in 0..N |-> IF n = 0 THEN <<>> ELSE Joined(f[n - 1], cs[n])]
           F == CHOOSE f : f = Def(f)
           step == [x \in (1..N) \X W |-> Joined(x[2], cs[x[1]])]
<1>1. MergeBinary(cs) = F[N]
  BY DEF MergeBinary
<1>2. N \in Nat /\ <<>> \in W
  OBVIOUS
<1>3. \A i \in 1..N, w \in W : Joined(w, cs[i]) \in W
  <2>1. \A i \in 1..N : cs[i] \in G
    OBVIOUS
  <2>2. QED
    BY <2>1, JoinedProperties
<1> HIDE DEF N, W
<1>4. step \in [(1..N) \X W -> W]
  BY <1>3
<1>5. \A i \in 1..N, w \in W : step[<<i, w>>] = Joined(w, cs[i])
  OBVIOUS
<1> HIDE DEF step
<1>6. PICK f \in [0..N -> W] : Follows(f, <<>>, N, step)
  BY <1>2, <1>4, FiniteRecursion
<1>7. f[0] = <<>> /\ \A i \in 1..N : f[i] = step[<<i, f[i - 1]>>]
  BY <1>6 DEF Follows
<1>8. \A i \in 1..N : i - 1 \in 0..N /\ f[i - 1] \in W
  BY <1>2
<1>9. \A i \in 1..N : f[i] = Joined(f[i - 1], cs[i])
  BY <1>5, <1>7, <1>8
<1>10. f = Def(f)
  <2>1. \A n \in 0..N : f[n] = Def(f)[n]
    <3> TAKE n \in 0..N
    <3>1. CASE n = 0
      BY <1>7, <3>1
    <3>2. CASE n # 0
      <4>1. n \in 1..N
        BY <1>2, <3>2
      <4>2. Def(f)[n] = Joined(f[n - 1], cs[n])
        BY <3>2
      <4>3. QED
        BY <1>9, <4>1, <4>2
    <3>3. QED
      BY <3>1, <3>2
  <2>2. f = [n \in 0..N |-> f[n]]
    OBVIOUS
  <2>3. QED
    BY <2>1, <2>2
<1>11. F = Def(F)
  <2> HIDE DEF Def
  <2>1. QED
    BY <1>10
<1> HIDE DEF F
<1>12. F[0] = <<>>
  BY <1>2, <1>11
<1>13. ASSUME NEW n \in 1..N PROVE F[n] = Joined(F[n - 1], cs[n])
  <2>1. n \in 0..N /\ n # 0
    BY <1>2
  <2>2. Def(F)[n] = Joined(F[n - 1], cs[n])
    BY <2>1
  <2>3. QED
    BY <1>11, <2>2
<1>14. F \in [0..N -> W]
  <2>1. ASSUME NEW i \in 1..N, F[i - 1] \in W PROVE F[i] = step[<<i, F[i - 1]>>]
    BY <1>5, <1>13, <2>1
  <2>2. \A i \in 0..N : F[i] \in W
    BY <1>2, <1>4, <1>12, <2>1, RecursionTypes
  <2>3. F = [n \in 0..N |-> F[n]]
    <3> DEFINE H == [n \in 0..N |-> IF n = 0 THEN <<>> ELSE Joined(F[n - 1], cs[n])]
    <3>1. F = H
      BY <1>11
    <3>2. QED
      BY <3>1
  <2>4. QED
    BY <2>2, <2>3
<1>15. QED
  BY <1>1, <1>12, <1>13, <1>14 DEF N, W, Merges

(* Merging keeps the bytes, and what holds of all chunks and of those      *)
(* joined from them.                                                       *)
LEMMA MergeProperties ==
  ASSUME NEW V, NEW G \in SUBSET ChunksOf(V), Joinable(G), NEW cs \in Seq(G)
  PROVE  /\ MergeBinary(cs) \in Seq(G)
         /\ PayloadOf(MergeBinary(cs)) = PayloadOf(cs)
<1> DEFINE N == Len(cs)
           upTo(n) == SubSeq(cs, 1, n)
<1>1. PICK f \in [0..N -> Seq(G)] : Merges(f, cs)
  BY MergeRecursion
<1>2. /\ f[0] = <<>> /\ MergeBinary(cs) = f[N]
      /\ \A n \in 1..N : f[n] = Joined(f[n - 1], cs[n])
  BY <1>1 DEF Merges
<1>3. N \in Nat /\ upTo(0) = <<>> /\ upTo(N) = cs
  OBVIOUS
<1>4. ASSUME NEW n \in Nat, n + 1 <= N
      PROVE  /\ upTo(n) \in Seq(ChunksOf(V)) /\ cs[n + 1] \in G
             /\ upTo(n + 1) = Append(upTo(n), cs[n + 1])
  <2>1. n + 1 \in 1..N /\ n \in 0..N
    BY <1>4
  <2>2. cs[n + 1] \in G
    BY <2>1
  <2>3. upTo(n + 1) = Append(upTo(n), cs[n + 1])
    BY <2>1
  <2>4. upTo(n) \in Seq(G)
    BY <2>1
  <2>5. upTo(n) \in Seq(ChunksOf(V))
    <3> HIDE DEF upTo
    <3>1. QED
      BY <2>4, SeqMonotonic
  <2>6. QED
    BY <2>2, <2>3, <2>5
<1> HIDE DEF N, upTo
<1> DEFINE S == {n \in Nat : n <= N => PayloadOf(f[n]) = PayloadOf(upTo(n))}
<1>5. 0 \in S
  BY <1>2, <1>3
<1>6. ASSUME NEW n \in S PROVE n + 1 \in S
  <2>1. SUFFICES ASSUME n + 1 <= N PROVE PayloadOf(f[n + 1]) = PayloadOf(upTo(n + 1))
    OBVIOUS
  <2>2. n \in Nat /\ n \in 0..N /\ n + 1 \in 1..N /\ (n + 1) - 1 = n /\ f[n] \in Seq(G)
    BY <1>3, <2>1
  <2>3. PayloadOf(f[n]) = PayloadOf(upTo(n))
    BY <1>3, <2>1, <2>2
  <2>4. f[n + 1] = Joined(f[n], cs[n + 1])
    BY <1>2, <2>2
  <2>5. /\ upTo(n) \in Seq(ChunksOf(V)) /\ cs[n + 1] \in G
        /\ upTo(n + 1) = Append(upTo(n), cs[n + 1])
    BY <1>4, <2>1, <2>2
  <2>6. PayloadOf(Joined(f[n], cs[n + 1])) = PayloadOf(f[n]) \o cs[n + 1].payload
    BY <2>2, <2>5, JoinedProperties
  <2>7. PayloadOf(Append(upTo(n), cs[n + 1])) = PayloadOf(upTo(n)) \o cs[n + 1].payload
    BY <2>5, PayloadProperties
  <2>8. QED
    BY <2>3, <2>4, <2>5, <2>6, <2>7
<1>7. N \in S
  <2> HIDE DEF S
  <2>1. S \in SUBSET Nat
    BY DEF S
  <2>2. QED
    BY <1>3, <1>5, <1>6, <2>1, SetInduction
<1>8. QED
  <2>1. N \in 0..N
    BY <1>3
  <2>2. QED
    BY <1>2, <1>3, <1>7, <2>1

LEMMA AllChunksJoinable == \A V : Joinable(ChunksOf(V))
<1> SUFFICES ASSUME NEW V, NEW c \in ChunksOf(V), NEW d \in ChunksOf(V),
                    c.kind = "BIN", d.kind = "BIN"
             PROVE  [kind |-> "BIN", payload |-> c.payload \o d.payload] \in ChunksOf(V)
  BY DEF Joinable
<1> DEFINE p == c.payload
           q == d.payload
<1>1. p \in Seq(V) /\ q \in Seq(V) /\ p # <<>>
  BY DEF ChunksOf
<1>2. p \o q \in Seq(V) /\ p \o q # <<>>
  <2> HIDE DEF p, q
  <2>1. QED
    BY <1>1, ConcatEqualIffEmpty
<1>3. QED
  BY <1>2 DEF ChunksOf, ChunkKinds

-----------------------------------------------------------------------------
(* The router.                                                             *)

(* What a device of protocol h sends.                                      *)
Spoken(h) == Printable \cup {"P", h}

Frames(h, b) == {i \in 1..Len(b) - 1 : b[i] = h /\ b[i + 1] = "P"}

RoutingOf(V) ==
  [state : [active : Headers \cup {None}, pending : Seq(V)], fed : Seq(V)]

(* Routing r has heard the binary data b of a device of protocol h: until  *)
(* its protocol is found no frame was in b, and a header at its end is     *)
(* pending; then all but a front without frames was fed.                   *)
Waiting(r, b, h, front) ==
  /\ r.state.active = None /\ r.fed = <<>> /\ Frames(h, b) = {}
  /\ b = front \o r.state.pending
  /\ r.state.pending = <<h>> \/ (r.state.pending = <<>> /\ (b = <<>> \/ b[Len(b)] # h))

Feeding(r, b, h, front) ==
  /\ r.state.active = h /\ r.fed # <<>>
  /\ b = front \o r.fed
  /\ \A i \in Frames(h, b) : i > Len(front)

Heard(r, b, h) ==
  /\ r \in RoutingOf(Spoken(h))
  /\ \E front \in Seq(Spoken(h)) : Waiting(r, b, h, front) \/ Feeding(r, b, h, front)

LEMMA HeadersDiffer ==
  ASSUME NEW h \in Headers
  PROVE  /\ h \notin Printable /\ h # "P" /\ h # None /\ Spoken(h) \subseteq Pieces
         /\ \A g \in Headers : g \in Spoken(h) => g = h
BY HeadersAreBinary DEF Spoken, Pieces

LEMMA FrameIsFound ==
  ASSUME NEW V, NEW b \in Seq(V), NEW h
  PROVE  Probe(h, b) <=> Frames(h, b) # {}
<1>1. Len(b) \in Nat
  OBVIOUS
<1>2. ASSUME NEW i \in 1..Len(b) - 1
      PROVE  SubSeq(b, i, i + 1) = <<h, "P">> <=> b[i] = h /\ b[i + 1] = "P"
  <2>1. i \in 1..Len(b) /\ i + 1 \in 1..Len(b)
    BY <1>1
  <2> DEFINE u == SubSeq(b, i, i + 1)
  <2>2. u \in Seq(V) /\ Len(u) = 2 /\ u[1] = b[i] /\ u[2] = b[i + 1]
    <3>1. \A k \in i..i + 1 : b[k] \in V
      BY <1>1, <2>1
    <3>2. /\ u \in Seq(V) /\ Len(u) = (i + 1) - i + 1
          /\ \A k \in 1..(i + 1) - i + 1 : u[k] = b[i + k - 1]
      BY <2>1, <3>1, SubSeqProperties
    <3>3. /\ (i + 1) - i + 1 = 2 /\ 1 \in 1..2 /\ 2 \in 1..2
          /\ i + 1 - 1 = i /\ i + 2 - 1 = i + 1
      OBVIOUS
    <3> HIDE DEF u
    <3>4. QED
      BY <3>2, <3>3
  <2> HIDE DEF u
  <2>3. u = <<h, "P">> <=> u[1] = h /\ u[2] = "P"
    <3>1. CASE u[1] = h /\ u[2] = "P"
      <4>1. Len(<<h, "P">>) = 2 /\ <<h, "P">>[1] = h /\ <<h, "P">>[2] = "P"
        OBVIOUS
      <4>2. u \in Seq(V \cup {h, "P"}) /\ <<h, "P">> \in Seq(V \cup {h, "P"})
        BY <2>2, SeqMonotonic
      <4>3. \A k \in 1..2 : u[k] = <<h, "P">>[k]
        BY <3>1, <4>1
      <4>4. u = <<h, "P">>
        BY <2>2, <4>1, <4>2, <4>3, SeqEqual
      <4>5. QED
        BY <3>1, <4>4
    <3>2. CASE ~(u[1] = h /\ u[2] = "P")
      BY <3>2
    <3>3. QED
      BY <3>1, <3>2
  <2>4. QED
    BY <2>2, <2>3 DEF u
<1>3. QED
  BY <1>2 DEF Probe, HasFrame, Frames

(* Among the bytes of the device, only its own protocol is found, if one   *)
(* is.                                                                     *)
LEMMA OwnProtocolFound ==
  ASSUME NEW h \in Headers, NEW b \in Seq(Spoken(h))
  PROVE  LET found == Only(Protocols, {g \in Headers : Probe(g, b)})
         IN  IF Frames(h, b) # {} THEN found # <<>> /\ Head(found) = h ELSE found = <<>>
<1> DEFINE keep == {g \in Headers : Probe(g, b)}
           found == Only(Protocols, keep)
<1>1. \A g \in keep : g = h
  <2>1. SUFFICES ASSUME NEW g \in keep PROVE g = h
    OBVIOUS
  <2>2. PICK i \in Frames(g, b) : TRUE
    BY FrameIsFound
  <2>3. i \in 1..Len(b) /\ b[i] = g
    BY DEF Frames
  <2>4. QED
    BY <2>3, HeadersDiffer
<1>2. h \in keep <=> Frames(h, b) # {}
  BY FrameIsFound
<1>3. Protocols \in Seq(Headers)
  BY ProtocolsAreListed DEF Headers
<1> HIDE DEF keep
<1>4. found \in Seq(Headers) /\ ToSet(found) = Headers \cap keep
  BY <1>3, OnlyMembers DEF Headers
<1>5. (found = <<>> <=> ToSet(found) = {}) /\ (found # <<>> => Head(found) \in ToSet(found))
  BY <1>4, EmptyList
<1>6. QED
  BY <1>1, <1>2, <1>4, <1>5 DEF keep

LEMMA KeptProperties ==
  ASSUME NEW h \in Headers, NEW b \in Seq(Spoken(h)), b # <<>>
  PROVE  Kept(b) = IF b[Len(b)] = h THEN <<h>> ELSE <<>>
<1>1. Len(b) \in 1..Len(b) /\ Last(b) = b[Len(b)]
  BY DEF Last
<1>2. b[Len(b)] \in Spoken(h)
  BY <1>1
<1>3. (\E g \in Headers : TrailingBytesToKeep(g, b) > 0) <=> b[Len(b)] = h
  BY <1>1, <1>2, HeadersDiffer DEF TrailingBytesToKeep
<1>4. QED
  BY <1>1, <1>3 DEF Kept

(* No frame begins in the front when p arrives behind it.                  *)
LEMMA NoFrameInFront ==
  ASSUME NEW h \in Headers, NEW b \in Seq(Spoken(h)), NEW front \in Seq(Spoken(h)),
         NEW pending \in Seq(Spoken(h)), NEW p \in Seq(Spoken(h)),
         b = front \o pending, Frames(h, b) = {},
         pending = <<h>> \/ (pending = <<>> /\ (b = <<>> \/ b[Len(b)] # h))
  PROVE  \A i \in Frames(h, b \o p) : i > Len(front)
<1> SUFFICES ASSUME NEW i \in Frames(h, b \o p), ~(i > Len(front)) PROVE FALSE
  OBVIOUS
<1> DEFINE all == b \o p
<1>1. /\ Len(b) \in Nat /\ Len(p) \in Nat /\ Len(front) \in Nat /\ all \in Seq(Spoken(h))
      /\ Len(all) = Len(b) + Len(p)
      /\ \A k \in 1..Len(b) : all[k] = b[k]
      /\ i \in 1..Len(all) - 1 /\ all[i] = h /\ all[i + 1] = "P"
  BY DEF Frames
<1>2. Len(b) = Len(front) + Len(pending)
  OBVIOUS
<1> HIDE DEF all
<1>3. i \in 1..Len(front)
  BY <1>1
<1>4. CASE pending = <<h>>
  <2>1. Len(b) = Len(front) + 1
    BY <1>2, <1>4
  <2>2. i \in 1..Len(b) - 1 /\ i \in 1..Len(b) /\ i + 1 \in 1..Len(b)
    BY <1>1, <1>3, <2>1
  <2>3. QED
    BY <1>1, <2>2 DEF Frames
<1>5. CASE pending = <<>> /\ (b = <<>> \/ b[Len(b)] # h)
  <2>1. Len(b) = Len(front)
    BY <1>1, <1>2, <1>5
  <2>2. i \in 1..Len(b) /\ b # <<>> /\ b[i] = h
    BY <1>1, <1>3, <2>1
  <2>3. i # Len(b)
    BY <1>5, <2>2
  <2>4. i \in 1..Len(b) - 1 /\ i + 1 \in 1..Len(b)
    BY <1>1, <2>2, <2>3
  <2>5. QED
    BY <1>1, <2>2, <2>4 DEF Frames
<1>6. QED
  BY <1>4, <1>5

LEMMA RouteHeard ==
  ASSUME NEW h \in Headers, NEW b \in Seq(Spoken(h)), NEW r, Heard(r, b, h),
         NEW c \in ChunksOf(Spoken(h))
  PROVE  Heard(RouteChunk(r, c), b \o BinaryOf(c), h)
<1> DEFINE V == Spoken(h)
           p == c.payload
           pending == r.state.pending
           bytes == pending \o p
           fed0 == r.fed
           found == Only(Protocols, {g \in Headers : Probe(g, bytes)})
           new == RouteChunk(r, c)
           all == b \o p
<1>1. /\ r \in RoutingOf(V) /\ pending \in Seq(V) /\ fed0 \in Seq(V)
      /\ p \in Seq(V) /\ p # <<>>
  BY DEF Heard, RoutingOf, ChunksOf
<1>2. PICK front \in Seq(V) : Waiting(r, b, h, front) \/ Feeding(r, b, h, front)
  BY DEF Heard
<1>3. CASE c.kind # "BIN"
  <2>1. new = r /\ BinaryOf(c) = <<>>
    BY <1>3 DEF RouteChunk, BinaryOf
  <2>2. b \o <<>> = b
    BY ConcatEmptySeq
  <2>3. QED
    BY <2>1, <2>2
<1>4. CASE c.kind = "BIN" /\ Feeding(r, b, h, front)
  <2>1. r.state.active # None
    BY <1>4, HeadersDiffer DEF Feeding
  <2>2. new = [r EXCEPT !.fed = @ \o p] /\ BinaryOf(c) = p
    BY <1>4, <2>1 DEF RouteChunk, BinaryOf
  <2> HIDE DEF p
  <2>3. fed0 \o p \in Seq(V) /\ fed0 \o p # <<>>
    <3> HIDE DEF fed0
    <3>1. QED
      BY <1>1, ConcatEqualIffEmpty
  <2>4. new.fed = fed0 \o p /\ new.state = r.state /\ new \in RoutingOf(V)
    <3>1. fed0 = r.fed
      OBVIOUS
    <3> HIDE DEF fed0
    <3>2. QED
      BY <1>1, <2>2, <2>3, <3>1 DEF RoutingOf
  <2>5. b = front \o fed0 /\ fed0 # <<>> /\ r.state.active = h
        /\ \A i \in Frames(h, b) : i > Len(front)
    BY <1>4 DEF Feeding
  <2> HIDE DEF fed0, new
  <2>6. all = front \o (fed0 \o p)
    BY <1>1, <2>5, ConcatAssociative
  <2>7. ASSUME NEW i \in Frames(h, all) PROVE i > Len(front)
    <3> SUFFICES ASSUME ~(i > Len(front)) PROVE FALSE
      OBVIOUS
    <3>1. /\ Len(b) \in Nat /\ Len(p) \in Nat /\ Len(front) \in Nat
          /\ Len(all) = Len(b) + Len(p)
          /\ \A k \in 1..Len(b) : all[k] = b[k]
          /\ i \in 1..Len(all) - 1 /\ all[i] = h /\ all[i + 1] = "P"
      BY <1>1 DEF Frames
    <3>2. Len(b) = Len(front) + Len(fed0) /\ Len(fed0) \in Nat \ {0}
      BY <1>1, <2>5, EmptySeq
    <3> HIDE DEF all
    <3>3. i \in 1..Len(b) - 1 /\ i \in 1..Len(b) /\ i + 1 \in 1..Len(b)
      BY <3>1, <3>2
    <3>4. i \in Frames(h, b)
      BY <3>1, <3>3 DEF Frames
    <3>5. QED
      BY <2>5, <3>1, <3>4
  <2>8. Feeding(new, all, h, front)
    <3> HIDE DEF all
    <3>1. QED
      BY <2>3, <2>4, <2>5, <2>6, <2>7 DEF Feeding
  <2>9. QED
    BY <2>2, <2>4, <2>8 DEF Heard, new
<1>5. CASE c.kind = "BIN" /\ Waiting(r, b, h, front)
  <2>1. /\ r.state.active = None /\ fed0 = <<>> /\ Frames(h, b) = {}
        /\ b = front \o pending
        /\ pending = <<h>> \/ (pending = <<>> /\ (b = <<>> \/ b[Len(b)] # h))
    BY <1>5 DEF Waiting
  <2>2. BinaryOf(c) = p
    BY <1>5 DEF BinaryOf
  <2>3. new = IF found # <<>>
              THEN [state |-> [active |-> Head(found), pending |-> <<>>],
                    fed |-> fed0 \o bytes]
              ELSE [r EXCEPT !.state.pending = Kept(bytes)]
    BY <1>5, <2>1 DEF RouteChunk
  <2> HIDE DEF p, pending, fed0
  <2>4. bytes \in Seq(V) /\ bytes # <<>> /\ all = front \o bytes
        /\ <<>> \o bytes = bytes /\ all \in Seq(V)
    <3>1. bytes \in Seq(V) /\ bytes # <<>>
      BY <1>1, ConcatEqualIffEmpty
    <3>2. all = front \o bytes
      BY <1>1, <2>1, ConcatAssociative
    <3>3. QED
      BY <1>1, <3>1, <3>2
  <2>5. \A i \in Frames(h, all) : i > Len(front)
    BY <1>1, <2>1, NoFrameInFront
  <2> HIDE DEF bytes, all
  <2>6. IF Frames(h, bytes) # {} THEN found # <<>> /\ Head(found) = h ELSE found = <<>>
    BY <2>4, OwnProtocolFound
  <2> HIDE DEF found, new
  <2>7. CASE Frames(h, bytes) # {}
    <3>1. new = [state |-> [active |-> h, pending |-> <<>>], fed |-> bytes]
      BY <2>1, <2>3, <2>4, <2>6, <2>7
    <3>2. new \in RoutingOf(V)
      BY <2>4, <3>1 DEF RoutingOf
    <3>3. Feeding(new, all, h, front)
      BY <2>4, <2>5, <3>1 DEF Feeding
    <3>4. QED
      BY <2>2, <3>2, <3>3 DEF Heard, all, new
  <2>8. CASE Frames(h, bytes) = {}
    <3>1. new = [r EXCEPT !.state.pending = Kept(bytes)]
      BY <2>3, <2>6, <2>8
    <3>2. Kept(bytes) = IF bytes[Len(bytes)] = h THEN <<h>> ELSE <<>>
      BY <2>4, KeptProperties
    <3>3. /\ Len(bytes) \in Nat \ {0} /\ Len(all) = Len(front) + Len(bytes)
          /\ Len(front) \in Nat
          /\ \A k \in 1..Len(bytes) : all[Len(front) + k] = bytes[k]
      <4>1. Len(bytes) \in Nat \ {0}
        BY <2>4, EmptySeq
      <4>2. QED
        BY <2>4, <4>1
    <3>4. Frames(h, all) = {}
      <4>1. SUFFICES ASSUME NEW i \in Frames(h, all) PROVE FALSE
        OBVIOUS
      <4>2. i \in 1..Len(all) - 1 /\ all[i] = h /\ all[i + 1] = "P" /\ i > Len(front)
        BY <2>5 DEF Frames
      <4> DEFINE k == i - Len(front)
      <4>3. k \in 1..Len(bytes) - 1 /\ k \in 1..Len(bytes) /\ k + 1 \in 1..Len(bytes)
            /\ i = Len(front) + k /\ i + 1 = Len(front) + (k + 1)
        BY <3>3, <4>2
      <4> HIDE DEF k
      <4>4. bytes[k] = h /\ bytes[k + 1] = "P"
        BY <3>3, <4>2, <4>3
      <4>5. QED
        BY <2>8, <4>3, <4>4 DEF Frames
    <3>5. <<h>> \in Seq(V) /\ <<>> \in Seq(V)
      BY DEF Spoken
    <3>6. Kept(bytes) \in Seq(V)
      BY <3>2, <3>5
    <3>7. /\ new.state.active = None /\ new.state.pending = Kept(bytes) /\ new.fed = <<>>
          /\ new \in RoutingOf(V)
      <4>1. r.state.active = None /\ r.fed = <<>>
        BY <2>1 DEF fed0
      <4>2. QED
        BY <1>1, <3>1, <3>6, <4>1 DEF RoutingOf
    <3>8. \E f \in Seq(V) : all = f \o Kept(bytes)
      <4>1. CASE bytes[Len(bytes)] = h
        <5> DEFINE n == Len(all) - 1
        <5>1. n \in Nat /\ n + 1 = Len(all) /\ all[n + 1] = h
          BY <3>3, <4>1
        <5> HIDE DEF n
        <5>2. SubSeq(all, 1, n) \in Seq(V)
          BY <2>4, <5>1
        <5>2a. all = SubSeq(all, 1, n) \o <<h>>
          <6>1. /\ 1 \in 1..Len(all) /\ n + 1 \in 1..Len(all) /\ (n + 1) - 1 = n
            BY <5>1
          <6>2. SubSeq(all, 1, n + 1) = SubSeq(all, 1, (n + 1) - 1) \o <<all[n + 1]>>
            BY <2>4, <6>1, SubSeqRecursiveSecond
          <6>3. SubSeq(all, 1, n + 1) = all
            BY <2>4, <5>1, SubSeqFull
          <6>4. QED
            BY <5>1, <6>1, <6>2, <6>3
        <5>3. QED
          BY <3>2, <4>1, <5>2, <5>2a
      <4>2. CASE bytes[Len(bytes)] # h
        BY <2>4, <3>2, <4>2, ConcatEmptySeq
      <4>3. QED
        BY <4>1, <4>2
    <3>9. PICK f \in Seq(V) : all = f \o Kept(bytes)
      BY <3>8
    <3>10. all[Len(all)] = bytes[Len(bytes)]
      BY <3>3
    <3>11. Waiting(new, all, h, f)
      BY <3>2, <3>4, <3>7, <3>9, <3>10 DEF Waiting
    <3>12. QED
      BY <2>2, <3>7, <3>11 DEF Heard, all, new
  <2>9. QED
    BY <2>7, <2>8
<1>6. QED
  BY <1>2, <1>3, <1>4, <1>5

LEMMA RouteTypes ==
  ASSUME NEW V, NEW r \in RoutingOf(V), NEW c \in ChunksOf(V)
  PROVE  RouteChunk(r, c) \in RoutingOf(V)
<1> DEFINE p == c.payload
           pending == r.state.pending
           bytes == pending \o p
           fed0 == r.fed
           found == Only(Protocols, {g \in Headers : Probe(g, bytes)})
           new == RouteChunk(r, c)
<1>1. /\ pending \in Seq(V) /\ fed0 \in Seq(V) /\ p \in Seq(V) /\ p # <<>>
  BY DEF RoutingOf, ChunksOf
<1>2. new = IF c.kind # "BIN" THEN r
            ELSE IF r.state.active # None THEN [r EXCEPT !.fed = fed0 \o p]
            ELSE IF found # <<>>
                 THEN [state |-> [active |-> Head(found), pending |-> <<>>],
                       fed |-> fed0 \o bytes]
            ELSE [r EXCEPT !.state.pending = Kept(bytes)]
  BY DEF RouteChunk
<1> HIDE DEF p, pending, fed0
<1>3. bytes \in Seq(V) /\ bytes # <<>>
  BY <1>1, ConcatEqualIffEmpty
<1> HIDE DEF bytes
<1>4. fed0 \o p \in Seq(V) /\ fed0 \o bytes \in Seq(V) /\ <<>> \in Seq(V)
  BY <1>1, <1>3
<1>5. Kept(bytes) \in Seq(V)
  <2>1. Last(bytes) \in V
    BY <1>3 DEF Last
  <2>2. <<Last(bytes)>> \in Seq(V)
    BY <2>1
  <2>3. QED
    BY <1>4, <2>2 DEF Kept
<1>6. found # <<>> => Head(found) \in Headers
  <2>1. Protocols \in Seq(Headers)
    BY ProtocolsAreListed
  <2>2. found \in Seq(Headers)
    BY <2>1, OnlyMembers
  <2>3. QED
    BY <2>2
<1> HIDE DEF found, new
<1>7. CASE c.kind # "BIN"
  BY <1>2, <1>7 DEF new
<1>8. CASE c.kind = "BIN" /\ r.state.active # None
  <2>1. new = [r EXCEPT !.fed = fed0 \o p]
    BY <1>2, <1>8
  <2>2. new \in RoutingOf(V)
    BY <1>4, <2>1 DEF RoutingOf
  <2>3. QED
    BY <2>2 DEF new
<1>9. CASE c.kind = "BIN" /\ r.state.active = None /\ found # <<>>
  <2>1. new = [state |-> [active |-> Head(found), pending |-> <<>>],
               fed |-> fed0 \o bytes]
    BY <1>2, <1>9
  <2>2. new \in RoutingOf(V)
    BY <1>4, <1>6, <1>9, <2>1 DEF RoutingOf
  <2>3. QED
    BY <2>2 DEF new
<1>10. CASE c.kind = "BIN" /\ r.state.active = None /\ found = <<>>
  <2>1. new = [r EXCEPT !.state.pending = Kept(bytes)]
    BY <1>2, <1>10
  <2>2. new \in RoutingOf(V)
    BY <1>5, <2>1 DEF RoutingOf
  <2>3. QED
    BY <2>2 DEF new
<1>11. QED
  BY <1>7, <1>8, <1>9, <1>10

(* f[n] is the routing after the first n chunks. *)
Routes(f, r, cs) ==
  /\ f[0] = r
  /\ \A n \in 1..Len(cs) : f[n] = RouteChunk(f[n - 1], cs[n])
  /\ Routed(r, cs) = f[Len(cs)]

LEMMA RoutedRecursion ==
  ASSUME NEW V, NEW r \in RoutingOf(V), NEW cs \in Seq(ChunksOf(V))
  PROVE  \E f \in [0..Len(cs) -> RoutingOf(V)] : Routes(f, r, cs)
<1> DEFINE N == Len(cs)
           W == RoutingOf(V)
           Def(f) == [n \in 0..N |-> IF n = 0 THEN r ELSE RouteChunk(f[n - 1], cs[n])]
           F == CHOOSE f : f = Def(f)
           step == [x \in (1..N) \X W |-> RouteChunk(x[2], cs[x[1]])]
<1>1. Routed(r, cs) = F[N]
  BY DEF Routed
<1>2. N \in Nat /\ r \in W
  OBVIOUS
<1>3. \A i \in 1..N, w \in W : RouteChunk(w, cs[i]) \in W
  <2>1. \A i \in 1..N : cs[i] \in ChunksOf(V)
    OBVIOUS
  <2>2. QED
    BY <2>1, RouteTypes
<1> HIDE DEF N, W
<1>4. step \in [(1..N) \X W -> W]
  BY <1>3
<1>5. \A i \in 1..N, w \in W : step[<<i, w>>] = RouteChunk(w, cs[i])
  OBVIOUS
<1> HIDE DEF step
<1>6. PICK f \in [0..N -> W] : Follows(f, r, N, step)
  BY <1>2, <1>4, FiniteRecursion
<1>7. f[0] = r /\ \A i \in 1..N : f[i] = step[<<i, f[i - 1]>>]
  BY <1>6 DEF Follows
<1>8. \A i \in 1..N : i - 1 \in 0..N /\ f[i - 1] \in W
  BY <1>2
<1>9. \A i \in 1..N : f[i] = RouteChunk(f[i - 1], cs[i])
  BY <1>5, <1>7, <1>8
<1>10. f = Def(f)
  <2>1. \A n \in 0..N : f[n] = Def(f)[n]
    <3> TAKE n \in 0..N
    <3>1. CASE n = 0
      BY <1>7, <3>1
    <3>2. CASE n # 0
      <4>1. n \in 1..N
        BY <1>2, <3>2
      <4>2. Def(f)[n] = RouteChunk(f[n - 1], cs[n])
        BY <3>2
      <4>3. QED
        BY <1>9, <4>1, <4>2
    <3>3. QED
      BY <3>1, <3>2
  <2>2. f = [n \in 0..N |-> f[n]]
    OBVIOUS
  <2>3. QED
    BY <2>1, <2>2
<1>11. F = Def(F)
  <2> HIDE DEF Def
  <2>1. QED
    BY <1>10
<1> HIDE DEF F
<1>12. F[0] = r
  BY <1>2, <1>11
<1>13. ASSUME NEW n \in 1..N PROVE F[n] = RouteChunk(F[n - 1], cs[n])
  <2>1. n \in 0..N /\ n # 0
    BY <1>2
  <2>2. Def(F)[n] = RouteChunk(F[n - 1], cs[n])
    BY <2>1
  <2>3. QED
    BY <1>11, <2>2
<1>14. F \in [0..N -> W]
  <2>1. ASSUME NEW i \in 1..N, F[i - 1] \in W PROVE F[i] = step[<<i, F[i - 1]>>]
    BY <1>5, <1>13, <2>1
  <2>2. \A i \in 0..N : F[i] \in W
    BY <1>2, <1>4, <1>12, <2>1, RecursionTypes
  <2>3. F = [n \in 0..N |-> F[n]]
    <3> DEFINE H == [n \in 0..N |-> IF n = 0 THEN r ELSE RouteChunk(F[n - 1], cs[n])]
    <3>1. F = H
      BY <1>11
    <3>2. QED
      BY <3>1
  <2>4. QED
    BY <2>2, <2>3
<1>15. QED
  BY <1>1, <1>12, <1>13, <1>14 DEF N, W, Routes

(* The binary data in a list of chunks. *)
BinaryIn(cs) == FlattenSeq([i \in DOMAIN cs |-> BinaryOf(cs[i])])

LEMMA BinaryProperties ==
  ASSUME NEW V
  PROVE  /\ BinaryIn(<<>>) = <<>>
         /\ \A s \in Seq(ChunksOf(V)) : BinaryIn(s) \in Seq(V)
         /\ \A s \in Seq(ChunksOf(V)), c \in ChunksOf(V) :
              BinaryIn(Append(s, c)) = BinaryIn(s) \o BinaryOf(c)
<1> DEFINE C == ChunksOf(V)
           g == [c \in C |-> BinaryOf(c)]
<1>1. g \in [C -> Seq(V)]
  BY DEF ChunksOf, BinaryOf
<1>2. \A s \in Seq(C) : BinaryIn(s) = FlatMap(g, s)
  <2>1. SUFFICES ASSUME NEW s \in Seq(C) PROVE BinaryIn(s) = FlatMap(g, s)
    OBVIOUS
  <2>2. [i \in DOMAIN s |-> g[s[i]]] = [i \in DOMAIN s |-> BinaryOf(s[i])]
    <3> HIDE DEF C
    <3>1. QED
      OBVIOUS
  <2>3. QED
    BY <2>2 DEF BinaryIn, FlatMap
<1>3. \A c \in C : g[c] = BinaryOf(c)
  OBVIOUS
<1> HIDE DEF C, g
<1>4. <<>> \in Seq(C) /\ \A s \in Seq(C), c \in C : Append(s, c) \in Seq(C)
  OBVIOUS
<1>5. /\ FlatMap(g, <<>>) = <<>>
      /\ \A s \in Seq(C) : FlatMap(g, s) \in Seq(V)
      /\ \A s \in Seq(C), c \in C : FlatMap(g, Append(s, c)) = FlatMap(g, s) \o g[c]
  BY <1>1, FlatMapProperties
<1>6. QED
  BY <1>2, <1>3, <1>4, <1>5 DEF C

LEMMA RoutedHeard ==
  ASSUME NEW h \in Headers, NEW cs \in Seq(ChunksOf(Spoken(h))),
         NEW new \in Seq(ChunksOf(Spoken(h))), NEW r, Heard(r, BinaryIn(cs), h)
  PROVE  Heard(Routed(r, new), BinaryIn(cs \o new), h)
<1> DEFINE N == Len(new)
           C == ChunksOf(Spoken(h))
           upTo(n) == cs \o SubSeq(new, 1, n)
<1>1. r \in RoutingOf(Spoken(h))
  BY DEF Heard
<1>2. PICK f \in [0..N -> RoutingOf(Spoken(h))] : Routes(f, r, new)
  BY <1>1, RoutedRecursion
<1>3. /\ f[0] = r /\ Routed(r, new) = f[N]
      /\ \A n \in 1..N : f[n] = RouteChunk(f[n - 1], new[n])
  BY <1>2 DEF Routes
<1>4. N \in Nat /\ upTo(0) = cs /\ upTo(N) = cs \o new
  <2>1. N \in Nat /\ SubSeq(new, 1, 0) = <<>> /\ SubSeq(new, 1, N) = new
    BY SubSeqFull
  <2>2. QED
    BY <2>1, ConcatEmptySeq
<1>5. ASSUME NEW n \in Nat, n + 1 <= N
      PROVE  /\ upTo(n) \in Seq(C) /\ new[n + 1] \in C
             /\ upTo(n + 1) = Append(upTo(n), new[n + 1])
  <2> HIDE DEF C
  <2>0. cs \in Seq(C) /\ new \in Seq(C)
    BY DEF C
  <2>1. n + 1 \in 1..N /\ n \in 0..N
    BY <1>5
  <2>2. new[n + 1] \in C
    BY <2>0, <2>1
  <2> DEFINE u == SubSeq(new, 1, n)
             x == new[n + 1]
  <2>3. SubSeq(new, 1, n + 1) = Append(u, x) /\ u \in Seq(C)
    BY <2>0, <2>1
  <2> HIDE DEF u, x
  <2>4. cs \o Append(u, x) = Append(cs \o u, x) /\ cs \o u \in Seq(C)
    BY <2>0, <2>2, <2>3 DEF x
  <2>5. QED
    BY <2>2, <2>3, <2>4 DEF u, x
<1> HIDE DEF N, upTo
<1> DEFINE S == {n \in Nat : n <= N => Heard(f[n], BinaryIn(upTo(n)), h)}
<1>6. 0 \in S
  BY <1>3, <1>4
<1>7. ASSUME NEW n \in S PROVE n + 1 \in S
  <2>1. SUFFICES ASSUME n + 1 <= N PROVE Heard(f[n + 1], BinaryIn(upTo(n + 1)), h)
    OBVIOUS
  <2>2. n \in Nat /\ n \in 0..N /\ n + 1 \in 1..N /\ (n + 1) - 1 = n /\ n <= N
    BY <1>4, <2>1
  <2>3. Heard(f[n], BinaryIn(upTo(n)), h)
    BY <2>2
  <2>4. f[n + 1] = RouteChunk(f[n], new[n + 1])
    BY <1>3, <2>2
  <2>5. /\ upTo(n) \in Seq(C) /\ new[n + 1] \in C
        /\ upTo(n + 1) = Append(upTo(n), new[n + 1])
    BY <1>5, <2>1, <2>2
  <2>6. BinaryIn(upTo(n)) \in Seq(Spoken(h))
        /\ BinaryIn(Append(upTo(n), new[n + 1])) = BinaryIn(upTo(n)) \o BinaryOf(new[n + 1])
    BY <2>5, BinaryProperties
  <2>7. Heard(RouteChunk(f[n], new[n + 1]), BinaryIn(upTo(n)) \o BinaryOf(new[n + 1]), h)
    BY <2>3, <2>5, <2>6, RouteHeard
  <2>8. QED
    BY <2>4, <2>5, <2>6, <2>7
<1>8. N \in S
  <2> HIDE DEF S
  <2>1. S \in SUBSET Nat
    BY DEF S
  <2>2. QED
    BY <1>4, <1>6, <1>7, <2>1, SetInduction
<1>9. Heard(f[N], BinaryIn(upTo(N)), h)
  <2>1. N <= N
    BY <1>4
  <2>2. QED
    BY <1>8, <2>1
<1>10. QED
  BY <1>3, <1>4, <1>9

-----------------------------------------------------------------------------
(* Sentences.  b is the buffer; what it begins with is known as far as it  *)
(* has arrived.                                                            *)

LEMMA Steps ==
  ASSUME NEW n \in Nat, NEW k \in Nat, k <= n
  PROVE  n = k \/ n >= k + 1
OBVIOUS

LEMMA NoFramerAtText ==
  ASSUME NEW b, b[1] \in {"D", "T"}
  PROVE  /\ {Framer(h, b).size : h \in Framed} \ {0} = {}
         /\ ~ \E h \in Framed : Framer(h, b).wait
<1>1. \A h \in Framed : b[1] # h
  BY HeadersAreBinary, FramedAreProtocols DEF Printable
<1>2. \A h \in Framed : Framer(h, b).size = 0
  BY <1>1 DEF Framer
<1>3. \A h \in Framed : b # <<h>>
  BY <1>1
<1>4. \A h \in Framed : Framer(h, b).wait = FALSE
  <2>1. \A h \in Framed : Framer(h, b).wait = (b = <<h>>)
    BY DEF Framer
  <2>2. QED
    BY <1>3, <2>1, Zenon
<1>5. QED
  BY <1>2, <1>4

LEMMA TextNext ==
  ASSUME NEW V, NEW b \in Seq(V), b # <<>>, b[1] \in {"D", "T"}
  PROVE  /\ LooksLikeTextRun(b, 1) =>
              NextChunk(b) = [kind |-> Classify(SubSeq(b, 1, LineLength(b))),
                              size |-> LineLength(b)]
         /\ ~LooksLikeTextRun(b, 1) /\ Boundaries(b) = {} /\ IsTextLike(b) =>
              NextChunk(b) = [kind |-> "ASCII",
                              size |-> IF Len(b) > MaxText THEN Len(b) ELSE 0]
<1>1. {Framer(h, b).size : h \in Framed} \ {0} = {}
  BY NoFramerAtText
<1>2. ~ \E h \in Framed : Framer(h, b).wait
  BY NoFramerAtText
<1>3. ASSUME LooksLikeTextRun(b, 1)
      PROVE  NextChunk(b) = [kind |-> Classify(SubSeq(b, 1, LineLength(b))),
                             size |-> LineLength(b)]
  BY <1>1, <1>2, <1>3 DEF NextChunk
<1>4. ASSUME ~LooksLikeTextRun(b, 1), Boundaries(b) = {}, IsTextLike(b)
      PROVE  NextChunk(b) = [kind |-> "ASCII",
                             size |-> IF Len(b) > MaxText THEN Len(b) ELSE 0]
  BY <1>1, <1>2, <1>4 DEF NextChunk
<1>5. QED
  BY <1>3, <1>4

LEMMA SentenceNext ==
  ASSUME NEW V, NEW b \in Seq(V), b # <<>>, b[1] = "D",
         Len(b) >= 2 => b[2] = "C", Len(b) >= 3 => b[3] = "L",
         Len(b) >= 4 => b[4] \notin LineEnds,
         NextChunk(b).size # 0
  PROVE  \/ NextChunk(b).size = 2 /\ Len(b) = 2
         \/ NextChunk(b).size = 3 /\ Len(b) >= 3 /\ NextChunk(b).kind = "NMEA"
<1>1. Len(b) \in Nat /\ Len(b) >= 1 /\ MaxText \in Nat /\ MaxText >= 1
  BY BoundsArePositive
<1>2. CASE Len(b) = 1
  <2>1. ~LooksLikeTextRun(b, 1)
    BY <1>2 DEF LooksLikeTextRun
  <2>2. Boundaries(b) = {}
    BY <1>2 DEF Boundaries
  <2>3. IsTextLike(b)
    <3>1. ToSet(b) \subseteq Printable
      BY <1>2 DEF ToSet, Printable
    <3>2. QED
      BY <3>1 DEF IsTextLike
  <2>4. NextChunk(b) = [kind |-> "ASCII",
                        size |-> IF Len(b) > MaxText THEN Len(b) ELSE 0]
    BY <2>1, <2>2, <2>3, TextNext
  <2>5. QED
    BY <1>1, <1>2, <2>4
<1>3. CASE Len(b) >= 2
  <2> DEFINE n == LineLength(b)
  <2>1. b[2] = "C" /\ 2 \in 1..Len(b) /\ 1 \in 1..Len(b)
    BY <1>1, <1>3
  <2>2. LooksLikeTextRun(b, 1)
    <3>1. \A j \in 1..2 : b[j] \in Printable
      BY <2>1 DEF Printable
    <3>2. b[2] \in LineEnds /\ 2 \in 1 + 1..Len(b)
      BY <1>1, <1>3, <2>1 DEF LineEnds
    <3>3. QED
      BY <3>1, <3>2 DEF LooksLikeTextRun
  <2>3. NextChunk(b) = [kind |-> Classify(SubSeq(b, 1, n)), size |-> n]
    BY <2>2, TextNext
  <2>4. n \in 1..Len(b) /\ IsLine(b, n)
    BY <2>1, LineLengthProperties DEF LineEnds
  <2> HIDE DEF n
  <2>5. n # 1
    BY <2>4 DEF IsLine, LineEnds
  <2>6. n = 2 => Len(b) = 2
    <3>1. SUFFICES ASSUME n = 2, Len(b) # 2 PROVE FALSE
      OBVIOUS
    <3>2. Len(b) >= 3 /\ n + 1 = 3
      BY <1>1, <1>3, <3>1, Steps, 2 + 1 = 3
    <3>3. b[n + 1] \in LineEnds
      BY <3>2 DEF LineEnds
    <3>4. QED
      BY <2>4, <3>1, <3>3 DEF IsLine
  <2>7. ~(n > 3)
    <3>1. SUFFICES ASSUME n > 3 PROVE FALSE
      OBVIOUS
    <3>2. 2 \in 1..n /\ 4 \in 1..n /\ 2 < 4 /\ Len(b) >= 4
      BY <1>1, <2>4, <3>1
    <3>3. b[2] \in LineEnds
      BY <2>1 DEF LineEnds
    <3>4. QED
      BY <2>4, <3>2, <3>3 DEF IsLine
  <2>8. CASE n = 2
    BY <2>3, <2>6, <2>8
  <2>9. CASE n = 3
    <3>1. Len(b) >= 3
      BY <1>1, <2>4, <2>9
    <3>2. SubSeq(b, 1, 3)[1] = "D"
      BY <1>1, <3>1
    <3>3. Classify(SubSeq(b, 1, 3)) = "NMEA"
      BY <3>2 DEF Classify
    <3>4. QED
      BY <2>3, <2>9, <3>1, <3>3
  <2>10. QED
    BY <1>1, <2>4, <2>5, <2>7, <2>8, <2>9
<1>4. Len(b) = 1 \/ Len(b) >= 2
  BY <1>1, Steps, 1 + 1 = 2
<1>5. QED
  BY <1>2, <1>3, <1>4

LEMMA LineNext ==
  ASSUME NEW V, NEW b \in Seq(V), b # <<>>, b[1] = "T",
         Len(b) >= 2 => b[2] = "T", Len(b) >= 3 => b[3] = "C", Len(b) >= 4 => b[4] = "L",
         Len(b) >= 5 => b[5] \notin LineEnds,
         NextChunk(b).size # 0
  PROVE  \/ NextChunk(b).size = 2 /\ Len(b) = 2
         \/ NextChunk(b).size = 3 /\ Len(b) = 3
         \/ NextChunk(b).size = 4 /\ Len(b) >= 4 /\ NextChunk(b).kind # "NMEA"
<1>1. Len(b) \in Nat /\ Len(b) >= 1 /\ MaxText \in Nat /\ MaxText >= 1
  BY BoundsArePositive
<1>2. CASE Len(b) \in {1, 2}
  <2>1. ~LooksLikeTextRun(b, 1)
    <3>1. \A end \in 1 + 1..Len(b) : b[end] = "T"
      BY <1>2
    <3>2. QED
      BY <3>1 DEF LooksLikeTextRun, LineEnds
  <2>2. Boundaries(b) = {}
    <3>1. SUFFICES ASSUME NEW i \in Boundaries(b) PROVE FALSE
      OBVIOUS
    <3>2. i \in 2..Len(b) /\ \E end \in i + 1..Len(b) : b[end] \in LineEnds
      BY DEF Boundaries, LooksLikeTextRun
    <3>3. QED
      BY <1>2, <3>2
  <2>3. IsTextLike(b)
    <3>1. \A i \in 1..Len(b) : b[i] \in Printable
      BY <1>1, <1>2 DEF Printable
    <3>2. ToSet(b) \subseteq Printable
      BY <3>1 DEF ToSet
    <3>3. QED
      BY <3>2 DEF IsTextLike
  <2>4. NextChunk(b) = [kind |-> "ASCII",
                        size |-> IF Len(b) > MaxText THEN Len(b) ELSE 0]
    BY <2>1, <2>2, <2>3, TextNext
  <2>5. QED
    BY <1>1, <1>2, <2>4
<1>3. CASE Len(b) >= 3
  <2> DEFINE n == LineLength(b)
  <2>1. b[1] = "T" /\ b[2] = "T" /\ b[3] = "C" /\ 3 \in 1..Len(b) /\ 1 \in 1..Len(b)
    BY <1>1, <1>3
  <2>2. LooksLikeTextRun(b, 1)
    <3>1. \A j \in 1..3 : j = 1 \/ j = 2 \/ j = 3
      OBVIOUS
    <3>2. \A j \in 1..3 : b[j] \in Printable
      BY <2>1, <3>1 DEF Printable
    <3>3. b[3] \in LineEnds /\ 3 \in 1 + 1..Len(b)
      BY <1>1, <1>3, <2>1 DEF LineEnds
    <3>4. QED
      BY <3>2, <3>3 DEF LooksLikeTextRun
  <2>3. NextChunk(b) = [kind |-> Classify(SubSeq(b, 1, n)), size |-> n]
    BY <2>2, TextNext
  <2>4. n \in 1..Len(b) /\ IsLine(b, n)
    BY <2>1, LineLengthProperties DEF LineEnds
  <2> HIDE DEF n
  <2>5. n # 1 /\ n # 2
    BY <2>1, <2>4 DEF IsLine, LineEnds
  <2>6. n = 3 => Len(b) = 3
    <3>1. SUFFICES ASSUME n = 3, Len(b) # 3 PROVE FALSE
      OBVIOUS
    <3>2. Len(b) >= 4 /\ n + 1 = 4
      BY <1>1, <1>3, <3>1, Steps, 3 + 1 = 4
    <3>3. b[n + 1] \in LineEnds
      BY <3>2 DEF LineEnds
    <3>4. QED
      BY <2>4, <3>1, <3>3 DEF IsLine
  <2>7. ~(n > 4)
    <3>1. SUFFICES ASSUME n > 4 PROVE FALSE
      OBVIOUS
    <3>2. 3 \in 1..n /\ 5 \in 1..n /\ 3 < 5 /\ Len(b) >= 5
      BY <1>1, <2>4, <3>1
    <3>3. b[3] \in LineEnds
      BY <2>1 DEF LineEnds
    <3>4. QED
      BY <2>4, <3>2, <3>3 DEF IsLine
  <2>8. CASE n = 3
    BY <2>3, <2>6, <2>8
  <2>9. CASE n = 4
    <3>1. Len(b) >= 4
      BY <1>1, <2>4, <2>9
    <3>2. SubSeq(b, 1, 4)[1] = "T"
      BY <1>1, <3>1
    <3>3. Classify(SubSeq(b, 1, 4)) # "NMEA"
      BY <3>2 DEF Classify
    <3>4. QED
      BY <2>3, <2>9, <3>1, <3>3
  <2>10. QED
    BY <1>1, <2>4, <2>5, <2>7, <2>8, <2>9
<1>4. Len(b) \in {1, 2} \/ Len(b) >= 3
  BY <1>1, Steps, 1 + 1 = 2, 2 + 1 = 3
<1>5. QED
  BY <1>2, <1>3, <1>4

LEMMA FrameNext ==
  ASSUME NEW V, NEW b \in Seq(V), b # <<>>, NEW h \in Framed, b[1] = h,
         Len(b) >= 2 => b[2] = "P",
         NextChunk(b).size # 0
  PROVE  NextChunk(b).size = 2 /\ Len(b) >= 2 /\ NextChunk(b).kind = "BIN"
<1> DEFINE sizes == {Framer(g, b).size : g \in Framed} \ {0}
<1>1. Len(b) \in Nat /\ Len(b) >= 1
  OBVIOUS
<1>2. CASE Len(b) = 1
  <2>1. \A g \in Framed : Framer(g, b).size = 0
    BY <1>2 DEF Framer
  <2>2. b = <<h>>
    BY <1>2
  <2>3. Framer(h, b).wait
    BY <2>2, Zenon DEF Framer
  <2>4. sizes = {}
    BY <2>1
  <2>5. NextChunk(b) = [kind |-> "BIN", size |-> 0]
    BY <2>3, <2>4 DEF NextChunk
  <2>6. QED
    BY <2>5
<1>3. CASE Len(b) >= 2
  <2>1. Framer(h, b).size = 2
    BY <1>1, <1>3 DEF Framer
  <2>2. sizes = {2}
    <3>1. \A g \in Framed : Framer(g, b).size \in {0, 2}
      BY DEF Framer
    <3>2. QED
      BY <2>1, <3>1
  <2>3. NextChunk(b) = [kind |-> "BIN", size |-> CHOOSE n \in sizes : TRUE]
    BY <2>2 DEF NextChunk
  <2>4. (CHOOSE n \in sizes : TRUE) = 2
    BY <2>2
  <2>5. QED
    BY <1>3, <2>3, <2>4
<1>4. Len(b) = 1 \/ Len(b) >= 2
  BY <1>1, Steps, 1 + 1 = 2
<1>5. QED
  BY <1>2, <1>3, <1>4

Aligned(h) == {FlattenSeq(items) : items \in Seq(Items(h))}

(* A sentence is a chunk of its own, and no other chunk holds one. *)
Proper(c) == IF c.kind = "NMEA" THEN c.payload = <<"D", "C", "L">>
                                ELSE "D" \notin ToSet(c.payload)
ProperOf(V) == {c \in ChunksOf(V) : Proper(c)}

CutOff(c) == Last(c.payload) \in {"T", "C"}

LEMMA ProperJoinable == \A V : Joinable(ProperOf(V))
<1> SUFFICES ASSUME NEW V, NEW c \in ProperOf(V), NEW d \in ProperOf(V),
                    c.kind = "BIN", d.kind = "BIN"
             PROVE  [kind |-> "BIN", payload |-> c.payload \o d.payload] \in ProperOf(V)
  BY DEF Joinable
<1> DEFINE p == c.payload
           q == d.payload
<1>1. [kind |-> "BIN", payload |-> p \o q] \in ChunksOf(V)
  BY AllChunksJoinable DEF Joinable, ProperOf
<1>2. p \in Seq(V) /\ q \in Seq(V) /\ "D" \notin ToSet(p) /\ "D" \notin ToSet(q)
  BY DEF ProperOf, Proper, ChunksOf
<1> HIDE DEF p, q
<1>3. "D" \notin ToSet(p \o q)
  BY <1>2, ConcatMembers
<1>4. QED
  BY <1>1, <1>3 DEF ProperOf, Proper, p, q

LEMMA ItemProperties ==
  ASSUME NEW h \in Headers, NEW item \in Items(h)
  PROVE  /\ item \in Seq(Spoken(h)) /\ item # <<>>
         /\ item[1] \notin LineEnds
<1>1. <<"D", "C", "L">> \in Seq(Spoken(h))
  BY DEF Spoken, Printable
<1>2. <<"T", "T", "C", "L">> \in Seq(Spoken(h))
  BY DEF Spoken, Printable
<1>3. <<h, "P">> \in Seq(Spoken(h))
  BY DEF Spoken
<1>4. h \notin LineEnds
  BY HeadersDiffer DEF LineEnds, Printable
<1>5. CASE item = <<"D", "C", "L">>
  <2>1. item[1] = "D" /\ item # <<>>
    BY <1>5
  <2>2. QED
    BY <1>1, <1>5, <2>1 DEF LineEnds
<1>6. CASE item = <<"T", "T", "C", "L">>
  <2>1. item[1] = "T" /\ item # <<>>
    BY <1>6
  <2>2. QED
    BY <1>2, <1>6, <2>1 DEF LineEnds
<1>7. CASE item = <<h, "P">>
  <2>1. item[1] = h /\ item # <<>>
    BY <1>7
  <2>2. QED
    BY <1>3, <1>4, <1>7, <2>1
<1>8. QED
  BY <1>5, <1>6, <1>7 DEF Items

(* What is aligned is empty or begins with an item.                        *)
LEMMA AlignedProperties ==
  ASSUME NEW h \in Headers, NEW s \in Aligned(h)
  PROVE  /\ s \in Seq(Spoken(h))
         /\ s # <<>> => /\ s[1] \notin LineEnds
                        /\ \E item \in Items(h), rest \in Aligned(h) : s = item \o rest
<1> DEFINE W == Seq(Spoken(h))
<1>1. PICK items \in Seq(Items(h)) : s = FlattenSeq(items)
  BY DEF Aligned
<1>2. Items(h) \subseteq W
  BY ItemProperties
<1>3. items \in Seq(W)
  <2> HIDE DEF W
  <2>1. QED
    BY <1>2, SeqMonotonic
<1>4. s \in W
  BY <1>1, <1>3, FlattenType
<1>5. CASE items = <<>>
  BY <1>1, <1>4, <1>5, FlattenEmpty
<1>6. CASE items # <<>>
  <2> DEFINE item == Head(items)
             more == Tail(items)
  <2>1. item \in Items(h) /\ more \in Seq(Items(h))
    BY <1>6
  <2>2. items = <<item>> \o more
    <3>1. /\ Len(items) \in Nat \ {0} /\ items[1] = item
          /\ SubSeq(items, 2, Len(items)) = more
      BY <1>6, TailIsSubSeq, EmptySeq
    <3>2. 1 \in 1..Len(items) /\ Len(items) \in 1..Len(items)
      BY <3>1
    <3>3. SubSeq(items, 1, Len(items)) = <<items[1]>> \o SubSeq(items, 1 + 1, Len(items))
      BY <3>2, SubSeqRecursiveFirst
    <3>4. SubSeq(items, 1, Len(items)) = items
      BY SubSeqFull
    <3> HIDE DEF item, more
    <3>5. 1 + 1 = 2
      OBVIOUS
    <3>6. QED
      BY <3>1, <3>3, <3>4, <3>5
  <2> HIDE DEF item, more
  <2>3. item \in W /\ item # <<>> /\ item[1] \notin LineEnds
    BY <2>1, ItemProperties
  <2>4. more \in Seq(W) /\ <<item>> \in Seq(W) /\ <<>> \in Seq(W)
    <3> HIDE DEF W
    <3>1. QED
      BY <1>2, <2>1, <2>3, SeqMonotonic
  <2>5. FlattenSeq(<<item>>) = item
    <3>1. Append(<<>>, item) = <<item>>
      OBVIOUS
    <3>2. FlattenSeq(Append(<<>>, item)) = FlattenSeq(<<>>) \o item
      BY <2>3, <2>4, FlattenAppend
    <3>3. <<>> \o item = item
      BY <2>3, ConcatEmptySeq
    <3>4. QED
      BY <3>1, <3>2, <3>3, FlattenEmpty
  <2>6. s = item \o FlattenSeq(more)
    BY <1>1, <2>2, <2>4, <2>5, FlattenConcat
  <2>7. FlattenSeq(more) \in Aligned(h)
    BY <2>1 DEF Aligned
  <2>8. s[1] = item[1]
    <3>1. FlattenSeq(more) \in W
      BY <2>4, FlattenType
    <3>2. 1 \in 1..Len(item)
      <4>1. Len(item) \in Nat \ {0}
        BY <2>3, EmptySeq
      <4>2. QED
        BY <4>1
    <3> DEFINE r == FlattenSeq(more)
    <3> HIDE DEF r
    <3>3. r \in Seq(Spoken(h)) /\ item \in Seq(Spoken(h)) /\ s = item \o r
      BY <2>3, <2>6, <3>1 DEF r
    <3> HIDE DEF W
    <3>4. QED
      BY <3>2, <3>3
  <2>9. QED
    BY <1>4, <2>1, <2>3, <2>6, <2>7, <2>8
<1>7. QED
  BY <1>5, <1>6

(* A turn at the head of what is aligned takes an item, or a line that is  *)
(* cut off.                                                                *)
LEMMA TurnSentences ==
  ASSUME NEW h \in Headers, h \in Framed,
         NEW b \in Seq(Spoken(h)), b # <<>>, NEW x \in Seq(Spoken(h)), b \o x \in Aligned(h),
         NEW c \in ChunksOf(Spoken(h)), NEW left \in Seq(Spoken(h)),
         c.kind = NextChunk(b).kind, c.payload = SubSeq(b, 1, NextChunk(b).size),
         c.payload \o left = b
  PROVE  CutOff(c) \/ (Proper(c) /\ left \o x \in Aligned(h))
<1> DEFINE V == Spoken(h)
           n == NextChunk(b).size
           p == c.payload
<1>1. /\ Len(b) \in Nat \ {0} /\ Len(x) \in Nat /\ b \o x # <<>> /\ b \o x \in Seq(V)
      /\ Len(b \o x) = Len(b) + Len(x)
      /\ \A k \in 1..Len(b) : (b \o x)[k] = b[k]
  <2>1. Len(b) \in Nat \ {0}
    BY EmptySeq
  <2>2. b \o x # <<>>
    BY ConcatEqualIffEmpty
  <2>3. QED
    BY <2>1, <2>2
<1>2. PICK item \in Items(h), rest \in Aligned(h) : b \o x = item \o rest
  BY <1>1, AlignedProperties
<1>3. item \in Seq(V) /\ rest \in Seq(V) /\ (rest # <<>> => rest[1] \notin LineEnds)
  BY ItemProperties, AlignedProperties
<1>4. p \in Seq(V) /\ p # <<>> /\ p \o left = b /\ p = SubSeq(b, 1, n)
  BY DEF ChunksOf
<1>5. n \in 1..Len(b)
  <2>1. n \in 0..Len(b)
    BY NextChunkSize
  <2>2. n # 0
    <3>1. SubSeq(b, 1, 0) = <<>>
      BY SubSeqEmpty
    <3> HIDE DEF n, p
    <3>2. QED
      BY <1>4, <3>1
  <2> HIDE DEF n
  <2>3. QED
    BY <1>1, <2>1, <2>2
<1>6. Len(p) = n /\ \A k \in 1..n : p[k] = b[k]
  <2> HIDE DEF p
  <2> HIDE DEF n
  <2>1. QED
    BY <1>1, <1>4, <1>5
<1>7. \A k \in 1..Len(item) : k <= Len(b) => b[k] = item[k]
  <2>1. \A k \in 1..Len(item) : (item \o rest)[k] = item[k]
    BY <1>3
  <2>2. \A k \in 1..Len(item) : k <= Len(b) => k \in 1..Len(b)
    BY <1>1, <1>3
  <2>3. QED
    BY <1>1, <1>2, <2>1, <2>2
<1>8. Len(b) >= Len(item) + 1 => b[Len(item) + 1] \notin LineEnds
  <2>1. SUFFICES ASSUME Len(b) >= Len(item) + 1 PROVE b[Len(item) + 1] \notin LineEnds
    OBVIOUS
  <2>2. Len(item) \in Nat /\ Len(rest) \in Nat /\ Len(item \o rest) = Len(item) + Len(rest)
    BY <1>3
  <2>3. Len(rest) >= 1 /\ rest # <<>> /\ Len(item) + 1 \in 1..Len(b)
    BY <1>1, <1>2, <2>1, <2>2
  <2>4. (item \o rest)[Len(item) + 1] = rest[1]
    BY <1>3, <2>2, <2>3
  <2>5. QED
    BY <1>1, <1>2, <1>3, <2>3, <2>4
<1>9. CutOff(c) \/ (Proper(c) /\ p = item)
  <2>1. Last(p) = p[n]
    BY <1>6 DEF Last
  <2> HIDE DEF n, p
  <2>2. CASE item = <<"D", "C", "L">>
    <3>1. /\ Len(item) = 3 /\ item[1] = "D" /\ item[2] = "C" /\ item[3] = "L"
      BY <2>2
    <3>2. b[1] = "D" /\ (Len(b) >= 2 => b[2] = "C") /\ (Len(b) >= 3 => b[3] = "L")
          /\ (Len(b) >= 4 => b[4] \notin LineEnds)
      <4>1. 1 \in 1..Len(item) /\ 2 \in 1..Len(item) /\ 3 \in 1..Len(item) /\ 1 <= Len(b)
            /\ Len(item) + 1 = 4
        BY <1>1, <3>1
      <4>2. QED
        BY <1>1, <1>7, <1>8, <3>1, <4>1
    <3>3. \/ n = 2 /\ Len(b) = 2
          \/ n = 3 /\ Len(b) >= 3 /\ NextChunk(b).kind = "NMEA"
      <4>1. n # 0
        BY <1>5
      <4>2. QED
        BY <3>2, <4>1, SentenceNext DEF n
    <3>4. CASE n = 2 /\ Len(b) = 2
      <4>1. p[2] = "C"
        BY <1>6, <3>2, <3>4
      <4>2. QED
        BY <2>1, <3>4, <4>1 DEF CutOff, p
    <3>5. CASE n = 3 /\ Len(b) >= 3 /\ NextChunk(b).kind = "NMEA"
      <4>1. 1 \in 1..3 /\ 2 \in 1..3 /\ 3 \in 1..3 /\ Len(b) >= 2
        BY <1>1, <3>5
      <4>2. p[1] = "D" /\ p[2] = "C" /\ p[3] = "L"
        BY <1>6, <3>2, <3>5, <4>1
      <4>3. p = item
        <5>1. \A k \in 1..3 : k = 1 \/ k = 2 \/ k = 3
          OBVIOUS
        <5>2. \A k \in 1..3 : p[k] = item[k]
          BY <3>1, <4>2, <5>1
        <5>3. QED
          BY <1>3, <1>4, <1>6, <3>1, <3>5, <5>2, SeqEqual
      <4>4. QED
        BY <2>2, <3>5, <4>3 DEF Proper, p
    <3>6. QED
      BY <3>3, <3>4, <3>5
  <2>3. CASE item = <<"T", "T", "C", "L">>
    <3>1. /\ Len(item) = 4 /\ item[1] = "T" /\ item[2] = "T" /\ item[3] = "C" /\ item[4] = "L"
      BY <2>3
    <3>2. b[1] = "T" /\ (Len(b) >= 2 => b[2] = "T") /\ (Len(b) >= 3 => b[3] = "C")
          /\ (Len(b) >= 4 => b[4] = "L") /\ (Len(b) >= 5 => b[5] \notin LineEnds)
      <4>1. 1 \in 1..Len(item) /\ 2 \in 1..Len(item) /\ 3 \in 1..Len(item) /\ 4 \in 1..Len(item)
            /\ 1 <= Len(b) /\ Len(item) + 1 = 5
        BY <1>1, <3>1
      <4>2. QED
        BY <1>1, <1>7, <1>8, <3>1, <4>1
    <3>3. \/ n = 2 /\ Len(b) = 2
          \/ n = 3 /\ Len(b) = 3
          \/ n = 4 /\ Len(b) >= 4 /\ NextChunk(b).kind # "NMEA"
      <4>1. n # 0
        BY <1>5
      <4>2. QED
        BY <3>2, <4>1, LineNext DEF n
    <3>4. CASE (n = 2 /\ Len(b) = 2) \/ (n = 3 /\ Len(b) = 3)
      <4>1. p[n] \in {"T", "C"}
        <5>1. CASE n = 2 /\ Len(b) = 2
          <6>1. p[2] = b[2] /\ b[2] = "T"
            BY <1>6, <3>2, <5>1
          <6>2. QED
            BY <5>1, <6>1
        <5>2. CASE n = 3 /\ Len(b) = 3
          <6>0. 3 \in 1..n /\ Len(b) >= 3
            BY <5>2
          <6>1. p[3] = b[3] /\ b[3] = "C"
            BY <1>6, <3>2, <6>0
          <6>2. QED
            BY <5>2, <6>1
        <5>3. QED
          BY <3>4, <5>1, <5>2
      <4>2. QED
        BY <2>1, <4>1 DEF CutOff, p
    <3>5. CASE n = 4 /\ Len(b) >= 4 /\ NextChunk(b).kind # "NMEA"
      <4>1. 1 \in 1..4 /\ 2 \in 1..4 /\ 3 \in 1..4 /\ 4 \in 1..4 /\ Len(b) >= 2 /\ Len(b) >= 3
        BY <1>1, <3>5
      <4>2. p[1] = "T" /\ p[2] = "T" /\ p[3] = "C" /\ p[4] = "L"
        BY <1>6, <3>2, <3>5, <4>1
      <4>3. \A k \in 1..4 : k = 1 \/ k = 2 \/ k = 3 \/ k = 4
        OBVIOUS
      <4>4. p = item
        <5>1. \A k \in 1..4 : p[k] = item[k]
          BY <3>1, <4>2, <4>3
        <5>2. QED
          BY <1>3, <1>4, <1>6, <3>1, <3>5, <5>1, SeqEqual
      <4>5. "D" \notin ToSet(p)
        <5>1. \A k \in DOMAIN p : p[k] \in {"T", "C", "L"}
          <6>1. DOMAIN p = 1..4
            BY <1>4, <1>6, <3>5
          <6>2. QED
            BY <4>2, <4>3, <6>1
        <5>2. QED
          BY <5>1 DEF ToSet
      <4>6. QED
        BY <3>5, <4>4, <4>5 DEF Proper, p
    <3>6. QED
      BY <3>3, <3>4, <3>5
  <2>4. CASE item = <<h, "P">>
    <3>1. Len(item) = 2 /\ item[1] = h /\ item[2] = "P"
      BY <2>4
    <3>2. b[1] = h /\ (Len(b) >= 2 => b[2] = "P")
      <4>1. 1 \in 1..Len(item) /\ 2 \in 1..Len(item) /\ 1 <= Len(b)
        BY <1>1, <3>1
      <4>2. QED
        BY <1>1, <1>7, <3>1, <4>1
    <3>3. n = 2 /\ Len(b) >= 2 /\ NextChunk(b).kind = "BIN"
      <4>1. n # 0
        BY <1>5
      <4>2. QED
        BY <3>2, <4>1, FrameNext DEF n
    <3>4. p[1] = h /\ p[2] = "P"
      BY <1>6, <3>2, <3>3
    <3>5. \A k \in 1..2 : k = 1 \/ k = 2
      OBVIOUS
    <3>6. p = item
      <4>1. \A k \in 1..2 : p[k] = item[k]
        BY <3>1, <3>4, <3>5
      <4>2. QED
        BY <1>3, <1>4, <1>6, <3>1, <3>3, <4>1, SeqEqual
    <3>7. "D" \notin ToSet(p)
      <4>1. \A k \in DOMAIN p : p[k] \in {h, "P"}
        <5>1. DOMAIN p = 1..2
          BY <1>4, <1>6, <3>3
        <5>2. QED
          BY <3>4, <3>5, <5>1
      <4>2. h # "D"
        BY HeadersDiffer DEF Printable
      <4>3. QED
        BY <4>1, <4>2 DEF ToSet
    <3>8. QED
      BY <3>3, <3>6, <3>7 DEF Proper, p
  <2>5. QED
    BY <2>2, <2>3, <2>4 DEF Items
<1>10. p = item => left \o x = rest
  <2> HIDE DEF p
  <2>1. SUFFICES ASSUME p = item PROVE left \o x = rest
    OBVIOUS
  <2>2. (item \o left) \o x = item \o (left \o x)
    <3>1. item \in Seq(V) /\ left \in Seq(V) /\ x \in Seq(V)
      BY <1>3
    <3> HIDE DEF V
    <3>2. QED
      BY <3>1, ConcatAssociative
  <2>3. item \o (left \o x) = item \o rest
    BY <1>2, <1>4, <2>1, <2>2
  <2>4. left \o x \in Seq(V)
    OBVIOUS
  <2>5. QED
    BY <1>3, <2>3, <2>4, ConcatSimplifications
<1>11. QED
  BY <1>9, <1>10

(* While x is still to come behind b: a line was cut off, or every chunk   *)
(* taken is proper and what is left is still aligned.                      *)
LEMMA TakenSentences ==
  ASSUME NEW h \in Headers, h \in Framed,
         NEW b \in Seq(Spoken(h)), NEW x \in Seq(Spoken(h)), b \o x \in Aligned(h)
  PROVE  LET t == TakeAvailableChunks(b)
         IN  \/ \E i \in DOMAIN t.chunks : CutOff(t.chunks[i])
             \/ t.chunks \in Seq(ProperOf(Spoken(h))) /\ t.rest \o x \in Aligned(h)
<1> DEFINE V == Spoken(h)
           N == Len(b)
           t == TakeAvailableChunks(b)
           Cut(cs) == \E i \in DOMAIN cs : CutOff(cs[i])
           Good(s) ==
              Cut(s.chunks) \/ (s.chunks \in Seq(ProperOf(V)) /\ s.rest \o x \in Aligned(h))
<1>1. PICK f \in [0..N -> Taking(V)] : Takes(f, b)
  BY TakingRecursion
<1>2. /\ f[0] = [chunks |-> <<>>, rest |-> b] /\ t = f[N]
      /\ \A n \in 1..N : f[n] = Turn(f[n - 1])
  BY <1>1 DEF Takes
<1>3. N \in Nat
  OBVIOUS
<1> DEFINE S == {n \in Nat : n <= N => Good(f[n])}
<1> HIDE DEF N, t
<1>4. 0 \in S
  <2>1. f[0].chunks = <<>> /\ f[0].rest = b
    BY <1>2
  <2>2. f[0].chunks \in Seq(ProperOf(V)) /\ f[0].rest \o x \in Aligned(h)
    <3>1. <<>> \in Seq(ProperOf(V))
      OBVIOUS
    <3>2. QED
      BY <2>1, <3>1
  <2>3. Good(f[0])
    BY <2>2
  <2> HIDE DEF Good
  <2>4. QED
    BY <2>3
<1>5. ASSUME NEW s \in Taking(V), Good(s) PROVE Good(Turn(s))
  <2>1. s.chunks \in Seq(ChunksOf(V)) /\ s.rest \in Seq(V)
    BY DEF Taking
  <2>2. CASE Turn(s) = s
    BY <1>5, <2>2
  <2>3. CASE \E c \in ChunksOf(V) :
               /\ c.kind = NextChunk(s.rest).kind
               /\ c.payload = SubSeq(s.rest, 1, NextChunk(s.rest).size)
               /\ Turn(s).chunks = Append(s.chunks, c)
               /\ c.payload \o Turn(s).rest = s.rest
               /\ Turn(s) \in Taking(V)
    <3>1. PICK c \in ChunksOf(V) :
               /\ c.kind = NextChunk(s.rest).kind
               /\ c.payload = SubSeq(s.rest, 1, NextChunk(s.rest).size)
               /\ Turn(s).chunks = Append(s.chunks, c)
               /\ c.payload \o Turn(s).rest = s.rest
               /\ Turn(s) \in Taking(V)
      BY <2>3
    <3> DEFINE new == Turn(s)
    <3>2. /\ new.rest \in Seq(V)
          /\ Len(s.chunks) \in Nat
          /\ new.chunks \in Seq(ChunksOf(V)) /\ Len(new.chunks) = Len(s.chunks) + 1
          /\ \A i \in 1..Len(s.chunks) : new.chunks[i] = s.chunks[i]
          /\ new.chunks[Len(s.chunks) + 1] = c
      <4>1. new.rest \in Seq(V) /\ new.chunks \in Seq(ChunksOf(V))
        BY <3>1 DEF Taking
      <4>2. new.chunks = Append(s.chunks, c)
        BY <3>1
      <4> HIDE DEF new
      <4>3. QED
        BY <2>1, <4>1, <4>2, AppendProperties
    <3>3. CASE Cut(s.chunks)
      <4>1. PICK i \in DOMAIN s.chunks : CutOff(s.chunks[i])
        BY <3>3
      <4>2. i \in 1..Len(s.chunks) /\ i \in DOMAIN new.chunks
        BY <2>1, <3>2
      <4> HIDE DEF new
      <4>3. CutOff(new.chunks[i])
        BY <3>2, <4>1, <4>2
      <4>4. QED
        BY <4>2, <4>3 DEF new
    <3>4. CASE s.chunks \in Seq(ProperOf(V)) /\ s.rest \o x \in Aligned(h)
      <4>1. s.rest # <<>>
        <5>1. c.payload \in Seq(V) /\ c.payload # <<>>
          BY DEF ChunksOf
        <5> DEFINE p == c.payload
                   q == Turn(s).rest
        <5>2. p \o q = s.rest /\ p \in Seq(V) /\ q \in Seq(V) /\ p # <<>>
          BY <3>1, <3>2, <5>1
        <5> HIDE DEF p, q
        <5>3. QED
          BY <5>2, ConcatEqualIffEmpty
      <4>2. CutOff(c) \/ (Proper(c) /\ new.rest \o x \in Aligned(h))
        BY <2>1, <3>1, <3>2, <3>4, <4>1, TurnSentences
      <4>3. CASE CutOff(c)
        <5>1. Len(s.chunks) + 1 \in DOMAIN new.chunks
          BY <3>2
        <5> HIDE DEF new
        <5>2. CutOff(new.chunks[Len(s.chunks) + 1])
          BY <3>2, <4>3
        <5>3. QED
          BY <5>1, <5>2 DEF new
      <4>4. CASE Proper(c) /\ new.rest \o x \in Aligned(h)
        <5>1. c \in ProperOf(V)
          BY <4>4 DEF ProperOf
        <5>2. Append(s.chunks, c) \in Seq(ProperOf(V))
          BY <3>4, <5>1
        <5>3. QED
          BY <3>1, <4>4, <5>2
      <4>5. QED
        BY <4>2, <4>3, <4>4
    <3>5. QED
      BY <1>5, <3>3, <3>4
  <2>4. QED
    BY <2>2, <2>3, TurnProperties
<1>6. ASSUME NEW n \in S PROVE n + 1 \in S
  <2> HIDE DEF Good
  <2>1. SUFFICES ASSUME n + 1 <= N PROVE Good(f[n + 1])
    OBVIOUS
  <2>2. n \in Nat /\ n \in 0..N /\ n + 1 \in 1..N /\ (n + 1) - 1 = n /\ n <= N
    BY <1>3, <2>1
  <2>3. f[n + 1] = Turn(f[n]) /\ f[n] \in Taking(V)
    BY <1>1, <1>2, <2>2
  <2>4. QED
    BY <1>5, <2>2, <2>3
<1>7. N \in S
  <2> HIDE DEF S
  <2>1. S \in SUBSET Nat
    BY DEF S
  <2>2. QED
    BY <1>3, <1>4, <1>6, <2>1, SetInduction
<1>8. Good(f[N])
  <2> HIDE DEF Good
  <2>1. N <= N
    BY <1>3
  <2>2. QED
    BY <1>7, <2>1
<1>9. QED
  BY <1>2, <1>8 DEF t

-----------------------------------------------------------------------------
(* The streams of devices.                                                 *)

LEMMA NothingIsAStream == \A V : <<>> \in Seq(V)
OBVIOUS

LEMMA PlansAreAligned ==
  ASSUME NEW h \in Headers, NEW p \in Plans(h)
  PROVE  p \in Aligned(h)
<1>1. PICK items \in SeqOf(Items(h), MaxItems) : p = FlattenSeq(items)
  BY DEF Plans
<1>2. items \in Seq(Items(h))
  <2>1. PICK m \in 0..MaxItems : items \in [1..m -> Items(h)]
    BY <1>1 DEF SeqOf
  <2>2. m \in Nat
    BY <2>1, BoundsArePositive
  <2>3. QED
    BY <2>1, <2>2
<1>3. QED
  BY <1>1, <1>2 DEF Aligned

LEMMA NothingIsAligned == \A h : <<>> \in Aligned(h)
<1> SUFFICES ASSUME NEW h PROVE <<>> \in Aligned(h)
  OBVIOUS
<1>1. <<>> \in Seq(Items(h))
  OBVIOUS
<1>2. QED
  BY <1>1, FlattenEmpty DEF Aligned

-----------------------------------------------------------------------------
(* The bytes of a connection on their way.                                 *)

Sent == Spoken(speaks)

DataTypes ==
  /\ speaks \in Headers /\ plan \in Seq(Sent) /\ read \in 0..Len(plan)
  /\ readBuffer \in Seq(Sent) /\ buffer \in Seq(Sent) /\ Len(buffer) <= MaxText
  /\ chunks \in Seq(ChunksOf(Sent)) /\ cut \in BOOLEAN

(* Where the bytes of the connection are.                                  *)
Whole == PayloadOf(chunks) \o (buffer \o readBuffer) = SubSeq(plan, 1, read)

(* The bytes still to come. *)
Ahead == SubSeq(plan, read + 1, Len(plan))

(* Until a line is cut off, the chunker stands between two items.          *)
Sentences ==
  ~cut /\ speaks \in Framed =>
    /\ chunks \in Seq(ProperOf(Sent))
    /\ buffer \o (readBuffer \o Ahead) \in Aligned(speaks)

Routing == Heard([state |-> router, fed |-> fed], BinaryIn(chunks), speaks)

DataInv == DataTypes /\ Whole /\ Sentences /\ Routing

(* No byte has been read. *)
Fresh ==
  /\ speaks \in Headers /\ plan \in Aligned(speaks) /\ read = 0
  /\ readBuffer = <<>> /\ buffer = <<>> /\ router = Idle
  /\ chunks = <<>> /\ fed = <<>> /\ cut = FALSE

LEMMA FreshData == Fresh => DataInv
<1> SUFFICES ASSUME Fresh PROVE DataInv
  OBVIOUS
<1>1. /\ speaks \in Headers /\ plan \in Aligned(speaks) /\ read = 0
      /\ readBuffer = <<>> /\ buffer = <<>> /\ router = Idle
      /\ chunks = <<>> /\ fed = <<>> /\ cut = FALSE
  BY DEF Fresh
<1>2. plan \in Seq(Sent)
  BY <1>1, AlignedProperties DEF Sent
<1>3. <<>> \in Seq(Sent) /\ <<>> \in Seq(ChunksOf(Sent)) /\ <<>> \in Seq(ProperOf(Sent))
  BY NothingIsAStream
<1>4. Len(plan) \in Nat
  BY <1>2
<1>5. DataTypes
  <2>1. read \in 0..Len(plan)
    BY <1>1, <1>4
  <2>2. Len(buffer) <= MaxText
    BY <1>1, BoundsArePositive
  <2>3. QED
    BY <1>1, <1>2, <1>3, <2>1, <2>2 DEF DataTypes
<1>6. Whole
  <2>1. PayloadOf(chunks) = <<>>
    BY <1>1, PayloadProperties
  <2>2. SubSeq(plan, 1, read) = <<>>
    BY <1>1, SubSeqEmpty
  <2>3. <<>> \o (<<>> \o <<>>) = <<>>
    BY <1>3, ConcatEmptySeq
  <2>4. QED
    BY <1>1, <2>1, <2>2, <2>3 DEF Whole
<1>7. Sentences
  <2>1. Ahead = plan
    <3>1. read + 1 = 1
      BY <1>1
    <3>2. QED
      BY <1>2, <3>1, SubSeqFull DEF Ahead
  <2>2. <<>> \o (<<>> \o plan) = plan
    BY <1>2, <1>3, ConcatEmptySeq
  <2>3. QED
    BY <1>1, <1>3, <2>1, <2>2 DEF Sentences
<1>8. Routing
  <2> DEFINE r == [state |-> router, fed |-> fed]
  <2>1. BinaryIn(chunks) = <<>>
    BY <1>1, BinaryProperties
  <2>2. r = [state |-> [active |-> None, pending |-> <<>>], fed |-> <<>>]
    BY <1>1 DEF Idle
  <2>3. r \in RoutingOf(Spoken(speaks))
    <3>1. <<>> \in Seq(Spoken(speaks))
      BY NothingIsAStream
    <3>2. [active |-> None, pending |-> <<>>]
            \in [active : Headers \cup {None}, pending : Seq(Spoken(speaks))]
      BY <3>1
    <3>3. QED
      BY <2>2, <3>1, <3>2 DEF RoutingOf
  <2>4. r.state.active = None /\ r.fed = <<>> /\ r.state.pending = <<>>
    BY <2>2
  <2>5. Frames(speaks, <<>>) = {}
    BY DEF Frames
  <2>6. <<>> \o <<>> = <<>>
    BY <1>3, ConcatEmptySeq
  <2> HIDE DEF r
  <2>7. Waiting(r, <<>>, speaks, <<>>)
    BY <2>4, <2>5, <2>6 DEF Waiting
  <2>8. Heard(r, <<>>, speaks)
    BY <1>3, <2>3, <2>7 DEF Heard, Sent
  <2>9. QED
    BY <2>1, <2>8 DEF Routing, r
<1>9. QED
  BY <1>5, <1>6, <1>7, <1>8 DEF DataInv

LEMMA FreshDataNext == Fresh' => DataInv'
BY FreshData, PTL

(* Without a connection nothing is left of an earlier one.                 *)
ClosedIsFresh == ~connected => Fresh

StreamInv == connected \in BOOLEAN /\ DataInv /\ ClosedIsFresh

LEMMA StreamInit == Init => StreamInv
<1> SUFFICES ASSUME Init PROVE StreamInv
  OBVIOUS
<1>1. connected = FALSE
  BY DEF Init
<1>2. Fresh
  BY NothingIsAligned DEF Init, Fresh
<1>3. QED
  BY <1>1, <1>2, FreshData DEF StreamInv, ClosedIsFresh

LEMMA ConnectKeepsStream == StreamInv /\ Connect => StreamInv'
<1> SUFFICES ASSUME StreamInv, Connect PROVE StreamInv'
  OBVIOUS
<1>1. ~connected /\ connected' = TRUE /\ UNCHANGED <<read, readBuffer, chunks, fed, cut>>
  BY DEF Connect, reads, history
<1>2. Fresh
  BY <1>1 DEF StreamInv, ClosedIsFresh
<1>3. buffer' = <<>> /\ router' = Idle
  BY DEF Connect, ResetStream
<1>4. speaks' \in Headers /\ plan' \in Plans(speaks')
  BY DEF Connect
<1>5. plan' \in Aligned(speaks')
  BY <1>4, PlansAreAligned
<1>6. Fresh'
  BY <1>1, <1>2, <1>3, <1>4, <1>5 DEF Fresh
<1>7. QED
  BY <1>1, <1>6, FreshDataNext DEF StreamInv, ClosedIsFresh

LEMMA DisconnectKeepsStream == StreamInv /\ Disconnect => StreamInv'
<1> SUFFICES ASSUME StreamInv, Disconnect PROVE StreamInv'
  OBVIOUS
<1>1. /\ connected' = FALSE /\ plan' = <<>> /\ read' = 0 /\ chunks' = <<>>
      /\ fed' = <<>> /\ cut' = FALSE /\ readBuffer' = <<>> /\ buffer' = <<>>
      /\ router' = Idle /\ speaks' = speaks
  BY DEF Disconnect, ResetStream, BufferAfterClose
<1>2. speaks \in Headers
  BY DEF StreamInv, DataInv, DataTypes
<1>3. Fresh'
  BY <1>1, <1>2, NothingIsAligned DEF Fresh
<1>4. QED
  BY <1>1, <1>3, FreshDataNext DEF StreamInv, ClosedIsFresh

(* n more pieces of a stream are read behind what was read. *)
LEMMA ReadOn ==
  ASSUME NEW V, NEW p \in Seq(V), NEW k \in 0..Len(p), NEW n \in Nat, k + n <= Len(p)
  PROVE  LET new == SubSeq(p, k + 1, k + n)
         IN  /\ new \in Seq(V)
             /\ SubSeq(p, 1, k) \o new = SubSeq(p, 1, k + n)
             /\ new \o SubSeq(p, k + n + 1, Len(p)) = SubSeq(p, k + 1, Len(p))
<1>1. Len(p) \in Nat /\ k + n \in Nat /\ k \in Nat
  OBVIOUS
<1>2. SubSeq(p, 1, k) \o SubSeq(p, k + 1, k + n) = SubSeq(p, 1, k + n)
  BY <1>1, ConcatAdjacentSubSeq
<1>3. SubSeq(p, k + 1, k + n) \o SubSeq(p, k + n + 1, Len(p)) = SubSeq(p, k + 1, Len(p))
  <2> DEFINE m == k + n
  <2>1. m \in k..Len(p) /\ Len(p) \in m..Len(p) /\ k + 1 \in 1..Len(p) + 1
    BY <1>1
  <2>2. m \in (k + 1) - 1..Len(p)
    BY <1>1
  <2> HIDE DEF m
  <2>3. SubSeq(p, k + 1, m) \o SubSeq(p, m + 1, Len(p)) = SubSeq(p, k + 1, Len(p))
    BY <2>1, <2>2, ConcatAdjacentSubSeq
  <2>4. QED
    BY <2>3 DEF m
<1>4. SubSeq(p, k + 1, k + n) \in Seq(V)
  BY <1>1
<1>5. QED
  BY <1>2, <1>3, <1>4

LEMMA ReadyReadKeepsStream ==
  ASSUME StreamInv, NEW n \in 1..Len(plan), ReadyRead(n)
  PROVE  StreamInv'
<1> DEFINE new == SubSeq(plan, read + 1, read + n)
<1>1. /\ connected /\ connected' = connected /\ read + n <= Len(plan) /\ read' = read + n
      /\ readBuffer' = readBuffer \o new
      /\ UNCHANGED <<speaks, plan, buffer, router, chunks, fed, cut>>
  BY DEF ReadyRead, socket, history
<1>2. DataTypes /\ Whole /\ Sentences /\ Routing
  BY DEF StreamInv, DataInv
<1>3. /\ plan \in Seq(Sent) /\ read \in 0..Len(plan) /\ readBuffer \in Seq(Sent)
      /\ buffer \in Seq(Sent) /\ chunks \in Seq(ChunksOf(Sent))
  BY <1>2 DEF DataTypes
<1>4. n \in Nat /\ Len(plan) \in Nat
  BY <1>3
<1>5. /\ new \in Seq(Sent) /\ SubSeq(plan, 1, read) \o new = SubSeq(plan, 1, read')
      /\ new \o Ahead' = Ahead
  BY <1>1, <1>3, <1>4, ReadOn DEF Ahead
<1>6. Ahead' \in Seq(Sent)
  <2>1. read' + 1 \in Nat /\ read' + 1 >= 1
    BY <1>1, <1>3, <1>4
  <2>2. QED
    BY <1>1, <1>3, <1>4, <2>1 DEF Ahead
<1> HIDE DEF new
<1>7. Sent' = Sent
  BY <1>1 DEF Sent
<1>8. DataTypes'
  <2>1. readBuffer' \in Seq(Sent)
    BY <1>1, <1>3, <1>5, ConcatProperties
  <2>2. read' \in 0..Len(plan)
    BY <1>1, <1>3, <1>4
  <2>3. QED
    BY <1>1, <1>2, <1>7, <2>1, <2>2 DEF DataTypes
<1>9. Whole'
  <2> DEFINE taken == PayloadOf(chunks)
  <2>1. taken \in Seq(Sent)
    BY <1>3, PayloadProperties
  <2>2. taken' = taken
    BY <1>1
  <2> HIDE DEF taken
  <2>3. taken \o (buffer \o (readBuffer \o new)) = (taken \o (buffer \o readBuffer)) \o new
    <3>1. buffer \in Seq(Sent) /\ readBuffer \in Seq(Sent) /\ new \in Seq(Sent)
      BY <1>3, <1>5
    <3> DEFINE kept == buffer \o readBuffer
    <3>2. kept \in Seq(Sent)
      BY <3>1, ConcatProperties
    <3>3. kept \o new = buffer \o (readBuffer \o new)
      BY <3>1, ConcatAssociative
    <3> HIDE DEF kept
    <3>4. (taken \o kept) \o new = taken \o (kept \o new)
      BY <2>1, <3>1, <3>2, ConcatAssociative
    <3>5. QED
      BY <3>3, <3>4 DEF kept
  <2>4. taken \o (buffer \o readBuffer) = SubSeq(plan, 1, read)
    BY <1>2 DEF Whole, taken
  <2>5. QED
    BY <1>1, <1>5, <2>2, <2>3, <2>4 DEF Whole, taken
<1>10. Sentences'
  <2>1. readBuffer' \o Ahead' = readBuffer \o Ahead
    <3>1. readBuffer \in Seq(Sent) /\ new \in Seq(Sent)
      BY <1>3, <1>5
    <3>2. (readBuffer \o new) \o Ahead' = readBuffer \o (new \o Ahead')
      BY <1>6, <3>1, ConcatAssociative
    <3>3. QED
      BY <1>1, <1>5, <3>2
  <2>2. QED
    BY <1>1, <1>2, <1>7, <2>1 DEF Sentences
<1>11. Routing'
  BY <1>1, <1>2 DEF Routing
<1>12. QED
  BY <1>1, <1>8, <1>9, <1>10, <1>11 DEF StreamInv, DataInv, ClosedIsFresh

(* What a call passes on is the front of the read buffer, and the whole of *)
(* it fits behind what the chunker kept.                                   *)
LEMMA PassedOnProperties ==
  ASSUME NEW V, readBuffer \in Seq(V), buffer \in Seq(V), Len(buffer) <= MaxText
  PROVE  LET left == SubSeq(readBuffer, Len(PassedOn) + 1, Len(readBuffer))
         IN  /\ PassedOn \in Seq(V) /\ left \in Seq(V)
             /\ PassedOn \o left = readBuffer
             /\ Appended(buffer, PassedOn) = buffer \o PassedOn
<1> DEFINE n == IF Len(readBuffer) < DispatchLen THEN Len(readBuffer) ELSE DispatchLen
           left == SubSeq(readBuffer, Len(PassedOn) + 1, Len(readBuffer))
<1>1. Len(readBuffer) \in Nat /\ DispatchLen \in Nat
  BY BoundsArePositive
<1>2. n \in 0..Len(readBuffer) /\ n <= DispatchLen
  BY <1>1
<1>3. PassedOn = SubSeq(readBuffer, 1, n)
  BY DEF PassedOn
<1> HIDE DEF n
<1>4. PassedOn \in Seq(V) /\ Len(PassedOn) = n
  BY <1>1, <1>2, <1>3
<1>5. PassedOn \o left = readBuffer
  <2>1. readBuffer = SubSeq(readBuffer, 1, Len(readBuffer))
    BY SubSeqFull
  <2>2. SubSeq(readBuffer, 1, 0 + n) \o SubSeq(readBuffer, 0 + n + 1, Len(readBuffer))
          = SubSeq(readBuffer, 1, Len(readBuffer))
    <3>1. n \in 1 - 1..Len(readBuffer) /\ Len(readBuffer) \in n..Len(readBuffer)
          /\ 1 \in 1..Len(readBuffer) + 1 /\ 0 + n = n
      BY <1>1, <1>2
    <3>2. SubSeq(readBuffer, 1, n) \o SubSeq(readBuffer, n + 1, Len(readBuffer))
            = SubSeq(readBuffer, 1, Len(readBuffer))
      BY <3>1, ConcatAdjacentSubSeq
    <3>3. QED
      BY <3>1, <3>2
  <2>3. 0 + n = n
    BY <1>2
  <2>4. QED
    BY <1>3, <1>4, <2>1, <2>2, <2>3
<1>6. left \in Seq(V)
  BY <1>1, <1>2, <1>4
<1>7. Appended(buffer, PassedOn) = buffer \o PassedOn
  <2> DEFINE all == buffer \o PassedOn
  <2>1. Len(all) = Len(buffer) + Len(PassedOn) /\ Len(buffer) \in Nat
    BY <1>4
  <2> HIDE DEF all
  <2>2. Capacity \in Nat /\ MaxText \in Nat
    BY BoundsArePositive
  <2>3. ~(Len(all) > Capacity)
    BY <1>1, <1>2, <1>4, <2>1, <2>2, CapacitySuffices
  <2>4. QED
    BY <2>3 DEF Appended, all
<1>8. QED
  BY <1>4, <1>5, <1>6, <1>7

LEMMA HandledKeepsStream ==
  ASSUME DataInv, PassedOn # <<>>, HandleIncomingBytes(PassedOn),
         readBuffer' = SubSeq(readBuffer, Len(PassedOn) + 1, Len(readBuffer)),
         UNCHANGED <<speaks, plan, read>>
  PROVE  DataInv'
<1> DEFINE held == buffer \o PassedOn
           taken == TakeAvailableChunks(held)
           new == MergeBinary(taken.chunks)
           routed == Routed([state |-> router, fed |-> fed], new)
           rest == readBuffer'
<1>1. DataTypes /\ Whole /\ Sentences /\ Routing
  BY DEF DataInv
<1>2. /\ plan \in Seq(Sent) /\ read \in 0..Len(plan) /\ readBuffer \in Seq(Sent)
      /\ buffer \in Seq(Sent) /\ Len(buffer) <= MaxText /\ cut \in BOOLEAN
      /\ chunks \in Seq(ChunksOf(Sent)) /\ speaks \in Headers
  BY <1>1 DEF DataTypes
<1>3. /\ PassedOn \in Seq(Sent) /\ rest \in Seq(Sent) /\ PassedOn \o rest = readBuffer
      /\ Appended(buffer, PassedOn) = held
  BY <1>2, PassedOnProperties
<1>4. /\ buffer' = taken.rest /\ chunks' = chunks \o new
      /\ router' = routed.state /\ fed' = routed.fed
      /\ cut' = (cut \/ \E i \in DOMAIN taken.chunks : CutOff(taken.chunks[i]))
  BY <1>3 DEF HandleIncomingBytes, CutOff
<1> HIDE DEF rest
<1>5. held \in Seq(Sent)
  BY <1>2, <1>3, ConcatProperties
<1> HIDE DEF held
<1>6. /\ taken \in Taking(Sent) /\ PayloadOf(taken.chunks) \o taken.rest = held
      /\ Len(taken.rest) <= MaxText
  BY <1>5, TakingProperties
<1> HIDE DEF taken
<1>7. taken.chunks \in Seq(ChunksOf(Sent)) /\ taken.rest \in Seq(Sent)
  BY <1>6 DEF Taking
<1>8. new \in Seq(ChunksOf(Sent)) /\ PayloadOf(new) = PayloadOf(taken.chunks)
  BY <1>7, AllChunksJoinable, MergeProperties
<1>9. ~cut' /\ speaks \in Framed => new \in Seq(ProperOf(Sent))
                                    /\ taken.rest \o (rest \o Ahead) \in Aligned(speaks)
  <2> SUFFICES ASSUME ~cut', speaks \in Framed
               PROVE  new \in Seq(ProperOf(Sent))
                      /\ taken.rest \o (rest \o Ahead) \in Aligned(speaks)
    OBVIOUS
  <2>1. ~cut /\ ~ \E i \in DOMAIN taken.chunks : CutOff(taken.chunks[i])
    BY <1>4
  <2>2. buffer \o (readBuffer \o Ahead) \in Aligned(speaks)
    BY <1>1, <2>1 DEF Sentences
  <2> DEFINE ahead == Ahead
             behind == rest \o ahead
  <2>3. ahead \in Seq(Sent)
    <3>1. read + 1 \in Nat /\ read + 1 >= 1 /\ Len(plan) \in Nat
      BY <1>2
    <3>2. QED
      BY <1>2, <3>1 DEF Ahead
  <2> HIDE DEF ahead
  <2>4. behind \in Seq(Sent)
    BY <1>3, <2>3, ConcatProperties
  <2>5. PassedOn \o behind = readBuffer \o ahead
    <3>1. PassedOn \in Seq(Sent) /\ rest \in Seq(Sent)
      BY <1>3
    <3>2. (PassedOn \o rest) \o ahead = PassedOn \o (rest \o ahead)
      BY <2>3, <3>1, ConcatAssociative
    <3>3. QED
      BY <1>3, <3>2
  <2> HIDE DEF behind
  <2>6. held \o behind = buffer \o (PassedOn \o behind)
    <3>1. buffer \in Seq(Sent) /\ PassedOn \in Seq(Sent)
      BY <1>2, <1>3
    <3>2. (buffer \o PassedOn) \o behind = buffer \o (PassedOn \o behind)
      BY <2>4, <3>1, ConcatAssociative
    <3>3. QED
      BY <3>2 DEF held
  <2>7. held \o behind \in Aligned(speaks)
    BY <2>2, <2>5, <2>6 DEF ahead
  <2>8. taken.chunks \in Seq(ProperOf(Sent)) /\ taken.rest \o behind \in Aligned(speaks)
    BY <1>2, <1>5, <2>1, <2>4, <2>7, TakenSentences DEF Sent, taken
  <2>9. new \in Seq(ProperOf(Sent))
    <3>1. ProperOf(Sent) \in SUBSET ChunksOf(Sent)
      BY DEF ProperOf
    <3>2. QED
      BY <2>8, <3>1, ProperJoinable, MergeProperties
  <2>10. QED
    BY <2>8, <2>9 DEF behind, ahead
<1>10. Heard(routed, BinaryIn(chunks \o new), speaks)
  BY <1>1, <1>2, <1>8, RoutedHeard DEF Routing, Sent
<1>11. Sent' = Sent /\ Ahead' = Ahead
  BY DEF Sent, Ahead
<1> HIDE DEF new
<1>12. DataTypes'
  <2>1. chunks' \in Seq(ChunksOf(Sent))
    BY <1>2, <1>4, <1>8, ConcatProperties
  <2>2. cut' \in BOOLEAN
    BY <1>2, <1>4
  <2>3. QED
    BY <1>2, <1>3, <1>4, <1>6, <1>7, <1>11, <2>1, <2>2 DEF DataTypes, rest
<1>13. Whole'
  <2> DEFINE before == PayloadOf(chunks)
             p == PayloadOf(new)
             l == taken.rest
             r == rest
  <2>1. before \in Seq(Sent) /\ p \in Seq(Sent)
    BY <1>2, <1>8, PayloadProperties
  <2>2. PayloadOf(chunks \o new) = before \o p
    BY <1>2, <1>8, PayloadProperties
  <2>3. p \o l = buffer \o PassedOn
    BY <1>6, <1>8 DEF held
  <2>4. l \in Seq(Sent) /\ r \in Seq(Sent)
    BY <1>3, <1>7
  <2>5. PassedOn \o r = readBuffer
    BY <1>3
  <2>6. PayloadOf(chunks') = before \o p /\ buffer' = l /\ readBuffer' = r
    BY <1>4, <2>2 DEF rest
  <2>7. before \o (buffer \o readBuffer) = SubSeq(plan, 1, read)
    BY <1>1 DEF Whole
  <2> HIDE DEF before, p, l, r
  <2>8. (before \o p) \o (l \o r) = before \o (buffer \o (PassedOn \o r))
    <3>1. buffer \in Seq(Sent) /\ PassedOn \in Seq(Sent)
      BY <1>2, <1>3
    <3> DEFINE left == l \o r
               all == PassedOn \o r
    <3>2. left \in Seq(Sent) /\ all \in Seq(Sent)
      BY <2>4, <3>1, ConcatProperties
    <3>3. (p \o l) \o r = p \o left
      BY <2>1, <2>4, ConcatAssociative
    <3>4. (buffer \o PassedOn) \o r = buffer \o all
      BY <2>4, <3>1, ConcatAssociative
    <3> HIDE DEF left, all
    <3>5. (before \o p) \o left = before \o (p \o left)
      BY <2>1, <3>2, ConcatAssociative
    <3>6. p \o left = buffer \o all
      BY <2>3, <3>3, <3>4
    <3>7. QED
      BY <3>5, <3>6 DEF left, all
  <2>9. QED
    BY <2>5, <2>6, <2>7, <2>8 DEF Whole
<1>14. Sentences'
  <2> SUFFICES ASSUME ~cut', (speaks \in Framed)'
               PROVE  /\ chunks' \in Seq(ProperOf(Sent'))
                      /\ buffer' \o (readBuffer' \o Ahead') \in Aligned(speaks')
    BY DEF Sentences
  <2>1. ~cut /\ speaks \in Framed
    BY <1>4
  <2>2. chunks \in Seq(ProperOf(Sent))
    BY <1>1, <2>1 DEF Sentences
  <2>3. new \in Seq(ProperOf(Sent)) /\ taken.rest \o (rest \o Ahead) \in Aligned(speaks)
    BY <1>9, <2>1
  <2>4. chunks \o new \in Seq(ProperOf(Sent))
    BY <2>2, <2>3, ConcatProperties
  <2>5. QED
    BY <1>4, <1>11, <2>3, <2>4 DEF rest
<1>15. Routing'
  <2>1. Heard(routed, BinaryIn(chunks'), speaks')
    BY <1>4, <1>10
  <2>2. routed \in RoutingOf(Spoken(speaks))
    BY <1>10 DEF Heard
  <2> HIDE DEF routed
  <2>3. routed = [state |-> routed.state, fed |-> routed.fed]
    BY <2>2 DEF RoutingOf
  <2>4. QED
    BY <1>4, <2>1, <2>3 DEF Routing
<1>16. QED
  BY <1>12, <1>13, <1>14, <1>15 DEF DataInv

LEMMA DispatchKeepsStream == StreamInv /\ DispatchBufferedReads => StreamInv'
<1> SUFFICES ASSUME StreamInv, DispatchBufferedReads PROVE StreamInv'
  OBVIOUS
<1>1. /\ readBuffer' = SubSeq(readBuffer, Len(PassedOn) + 1, Len(readBuffer))
      /\ UNCHANGED <<connected, speaks, plan, read>>
  BY DEF DispatchBufferedReads, PassOn, socket
<1>2. connected \in BOOLEAN /\ DataInv /\ ClosedIsFresh
  BY DEF StreamInv
<1>3. readBuffer \in Seq(Sent)
  BY <1>2 DEF DataInv, DataTypes
<1>4. CASE PassedOn = <<>>
  <2>1. UNCHANGED <<buffer, router, chunks, fed, cut>>
    BY <1>4 DEF DispatchBufferedReads, history
  <2>2. readBuffer' = readBuffer
    <3>1. Len(PassedOn) + 1 = 1
      BY <1>4
    <3>2. QED
      BY <1>1, <1>3, <3>1, SubSeqFull
  <2>3. QED
    BY <1>1, <1>2, <2>1, <2>2
    DEF StreamInv, DataInv, DataTypes, Whole, Sentences, Routing, Sent, Ahead,
        ClosedIsFresh, Fresh
<1>5. CASE PassedOn # <<>>
  <2>1. HandleIncomingBytes(PassedOn)
    BY <1>5 DEF DispatchBufferedReads
  <2>2. DataInv'
    BY <1>1, <1>2, <1>5, <2>1, HandledKeepsStream
  <2>3. connected
    <3>1. SUFFICES ASSUME ~connected PROVE FALSE
      BY <1>2
    <3>2. readBuffer = <<>>
      BY <1>2, <3>1 DEF ClosedIsFresh, Fresh
    <3>3. PassedOn = <<>>
      <4>1. Len(readBuffer) = 0 /\ DispatchLen > 0
        BY <3>2, BoundsArePositive
      <4>2. PassedOn = SubSeq(readBuffer, 1, 0)
        BY <4>1 DEF PassedOn
      <4>3. QED
        BY <1>3, <4>2, SubSeqEmpty
    <3>4. QED
      BY <1>5, <3>3
  <2>4. QED
    BY <1>1, <1>2, <2>2, <2>3 DEF StreamInv, ClosedIsFresh
<1>6. QED
  BY <1>4, <1>5

LEMMA StreamKept == StreamInv /\ [Next]_vars => StreamInv'
<1> SUFFICES ASSUME StreamInv, [Next]_vars PROVE StreamInv'
  OBVIOUS
<1>1. CASE UNCHANGED vars
  BY <1>1 DEF vars, socket, reads, history, StreamInv, DataInv, DataTypes, Whole,
              Sentences, Routing, Sent, Ahead, ClosedIsFresh, Fresh
<1>2. QED
  BY <1>1, ConnectKeepsStream, ReadyReadKeepsStream, DispatchKeepsStream,
     DisconnectKeepsStream DEF Next

THEOREM StreamInvariance == Spec => []StreamInv
BY StreamInit, StreamKept, PTL DEF Spec

-----------------------------------------------------------------------------
(* The flag and the calls in the event queue.                              *)

ReadTypes ==
  /\ connected \in BOOLEAN /\ scheduled \in BOOLEAN
  /\ connections \in Nat /\ events \in Nat /\ read \in Nat
  /\ plan \in Seq(Pieces) /\ readBuffer \in Seq(Pieces)

(* What has been read has its flag set ...                                 *)
BufferIsFlagged == readBuffer # <<>> => scheduled

(* ... which is never set without a call ...                               *)
FlagHasCall == scheduled => events > 0

(* ... and calls without a flag are left from earlier connections, one of  *)
(* each.                                                                   *)
CallsLeft ==
  events <= connections - (IF connected THEN 1 ELSE 0) + (IF scheduled THEN 1 ELSE 0)

(* Nothing is read without a connection.                                   *)
ClosedIsEmpty == ~connected => readBuffer = <<>> /\ ~scheduled

ReadInv ==
  /\ ReadTypes
  /\ BufferIsFlagged
  /\ FlagHasCall
  /\ CallsLeft
  /\ ClosedIsEmpty

(***************************************************************************)
(* A non-empty read buffer has a dispatchBufferedReads call in the queue:  *)
(* with a loop that serves its queue this is why it is emptied.            *)
(***************************************************************************)
ReadsHaveACall == readBuffer # <<>> => events > 0

(***************************************************************************)
(* However often a device reconnects, no more calls are queued than there  *)
(* were connections: reads do not flood the event queue.                   *)
(***************************************************************************)
OneCallPerConnection == events <= connections

LEMMA ReadInit == Init => ReadInv
<1> SUFFICES ASSUME Init PROVE ReadInv
  OBVIOUS
<1>1. /\ connected = FALSE /\ connections = 0 /\ plan = <<>> /\ read = 0
      /\ readBuffer = <<>> /\ scheduled = FALSE /\ events = 0
  BY DEF Init
<1>2. ReadTypes
  BY <1>1, NothingIsAStream DEF ReadTypes
<1>3. BufferIsFlagged /\ FlagHasCall /\ CallsLeft /\ ClosedIsEmpty
  BY <1>1 DEF BufferIsFlagged, FlagHasCall, CallsLeft, ClosedIsEmpty
<1>4. QED
  BY <1>2, <1>3 DEF ReadInv

LEMMA ConnectKeeps == ReadInv /\ Connect => ReadInv'
<1> SUFFICES ASSUME ReadInv, Connect PROVE ReadInv'
  OBVIOUS
<1>1. /\ ~connected /\ connected' = TRUE /\ connections' = connections + 1
      /\ UNCHANGED <<read, readBuffer, scheduled, events>>
  BY DEF Connect, reads
<1>2. plan' \in Seq(Pieces)
  <2>1. speaks' \in Headers /\ plan' \in Plans(speaks')
    BY DEF Connect
  <2>2. plan' \in Seq(Spoken(speaks'))
    BY <2>1, PlansAreAligned, AlignedProperties
  <2>3. QED
    BY <2>1, <2>2, HeadersDiffer, SeqMonotonic
<1>3. QED
  BY <1>1, <1>2
  DEF ReadInv, ReadTypes, BufferIsFlagged, FlagHasCall, CallsLeft, ClosedIsEmpty

LEMMA ReadyReadKeeps ==
  ASSUME ReadInv, NEW n \in 1..Len(plan), ReadyRead(n)
  PROVE  ReadInv'
<1> DEFINE new == SubSeq(plan, read + 1, read + n)
<1>1. /\ connected /\ read + n <= Len(plan) /\ read' = read + n
      /\ readBuffer' = readBuffer \o new
      /\ scheduled' = TRUE /\ events' = IF scheduled THEN events ELSE events + 1
      /\ UNCHANGED <<connected, connections, plan>>
  BY DEF ReadyRead, Schedule, socket
<1>2. new \in Seq(Pieces)
  BY <1>1 DEF ReadInv, ReadTypes
<1> HIDE DEF new
<1>3. readBuffer' \in Seq(Pieces)
  BY <1>1, <1>2, ConcatProperties DEF ReadInv, ReadTypes
<1>4. QED
  BY <1>1, <1>3
  DEF ReadInv, ReadTypes, BufferIsFlagged, FlagHasCall, CallsLeft, ClosedIsEmpty

LEMMA DispatchKeeps == ReadInv /\ DispatchBufferedReads => ReadInv'
<1> SUFFICES ASSUME ReadInv, DispatchBufferedReads PROVE ReadInv'
  OBVIOUS
<1>1. /\ events > 0
      /\ readBuffer' = SubSeq(readBuffer, Len(PassedOn) + 1, Len(readBuffer))
      /\ IF Len(readBuffer) <= DispatchLen
         THEN scheduled' = FALSE /\ events' = events - 1
         ELSE scheduled' = TRUE /\ events' = (events - 1) + 1
      /\ UNCHANGED <<connected, connections, plan, read>>
  BY DEF DispatchBufferedReads, PassOn, ScheduleRest, Schedule, socket
<1>2. Len(readBuffer) \in Nat /\ DispatchLen \in Nat
  BY BoundsArePositive DEF ReadInv, ReadTypes
<1>3. Len(PassedOn) = IF Len(readBuffer) < DispatchLen THEN Len(readBuffer) ELSE DispatchLen
  BY <1>2 DEF PassedOn, ReadInv, ReadTypes
<1>4. readBuffer' \in Seq(Pieces)
  BY <1>1, <1>2, <1>3 DEF ReadInv, ReadTypes
<1>5. CASE Len(readBuffer) <= DispatchLen
  <2>1. Len(PassedOn) = Len(readBuffer)
    BY <1>2, <1>3, <1>5
  <2>2. readBuffer' = <<>>
    <3>1. readBuffer' = SubSeq(readBuffer, Len(readBuffer) + 1, Len(readBuffer))
      BY <1>1, <2>1
    <3>2. readBuffer \in Seq(Pieces)
      BY DEF ReadInv, ReadTypes
    <3>3. Len(readBuffer') = 0
      BY <1>2, <3>1, <3>2
    <3>4. QED
      BY <1>4, <3>3, EmptySeq
  <2>3. scheduled' = FALSE /\ events' = events - 1
    BY <1>1, <1>5
  <2>4. ReadTypes'
    <3>1. ReadTypes /\ events > 0
      BY <1>1 DEF ReadInv
    <3>2. scheduled' \in BOOLEAN
      BY <2>3
    <3>3. events' \in Nat
      BY <2>3, <3>1 DEF ReadTypes
    <3>4. QED
      BY <1>1, <1>4, <3>1, <3>2, <3>3 DEF ReadTypes
  <2>5. CallsLeft'
    <3>1. /\ connections \in Nat /\ events \in Nat /\ events > 0 /\ CallsLeft
          /\ connected \in BOOLEAN
      BY <1>1 DEF ReadInv, ReadTypes
    <3>2. QED
      BY <1>1, <2>3, <3>1 DEF CallsLeft
  <2>6. BufferIsFlagged' /\ FlagHasCall' /\ ClosedIsEmpty'
    BY <2>2, <2>3 DEF BufferIsFlagged, FlagHasCall, ClosedIsEmpty
  <2>7. QED
    BY <2>4, <2>5, <2>6 DEF ReadInv
<1>6. CASE ~(Len(readBuffer) <= DispatchLen)
  <2>1. readBuffer # <<>>
    BY <1>2, <1>6
  <2>2. scheduled /\ connected
    BY <2>1 DEF ReadInv, BufferIsFlagged, ClosedIsEmpty
  <2>3. QED
    BY <1>1, <1>4, <1>6, <2>2
    DEF ReadInv, ReadTypes, BufferIsFlagged, FlagHasCall, CallsLeft, ClosedIsEmpty
<1>7. QED
  BY <1>5, <1>6

LEMMA DisconnectKeeps == ReadInv /\ Disconnect => ReadInv'
<1> SUFFICES ASSUME ReadInv, Disconnect PROVE ReadInv'
  OBVIOUS
<1>1. /\ connected /\ connected' = FALSE /\ plan' = <<>> /\ read' = 0
      /\ readBuffer' = <<>> /\ scheduled' = FALSE
      /\ UNCHANGED <<connections, events>>
  BY DEF Disconnect, BufferAfterClose
<1>2. ReadTypes'
  BY <1>1, NothingIsAStream DEF ReadInv, ReadTypes
<1>3. CallsLeft'
  BY <1>1 DEF ReadInv, ReadTypes, CallsLeft, FlagHasCall
<1>4. BufferIsFlagged' /\ FlagHasCall' /\ ClosedIsEmpty'
  BY <1>1 DEF BufferIsFlagged, FlagHasCall, ClosedIsEmpty
<1>5. QED
  BY <1>2, <1>3, <1>4 DEF ReadInv

LEMMA ReadKept == ReadInv /\ [Next]_vars => ReadInv'
<1> SUFFICES ASSUME ReadInv, [Next]_vars PROVE ReadInv'
  OBVIOUS
<1>1. CASE UNCHANGED vars
  BY <1>1 DEF vars, socket, reads, ReadInv, ReadTypes, BufferIsFlagged, FlagHasCall,
              CallsLeft, ClosedIsEmpty
<1>2. QED
  BY <1>1, ConnectKeeps, ReadyReadKeeps, DispatchKeeps, DisconnectKeeps DEF Next

THEOREM ReadInvariance == Spec => []ReadInv
BY ReadInit, ReadKept, PTL DEF Spec

(* In every reachable state a non-empty read buffer has a call queued.     *)
THEOREM ReadsAreServed == Spec => []ReadsHaveACall
<1>1. ReadInv => ReadsHaveACall
  BY DEF ReadInv, BufferIsFlagged, FlagHasCall, ReadsHaveACall
<1>2. QED
  BY <1>1, ReadInvariance, PTL

(* In every reachable state at most one call is queued for each connection.*)
THEOREM QueueIsNotFlooded == Spec => []OneCallPerConnection
<1>1. ReadInv => OneCallPerConnection
  BY DEF ReadInv, ReadTypes, CallsLeft, ClosedIsEmpty, OneCallPerConnection
<1>2. QED
  BY <1>1, ReadInvariance, PTL

-----------------------------------------------------------------------------
(* The properties of Stream.                                               *)

ConnectionsAreCounted == connections \in 0..MaxConnections

LEMMA CountInvariance == Spec => []ConnectionsAreCounted
<1>1. Init => ConnectionsAreCounted
  BY BoundsArePositive DEF Init, ConnectionsAreCounted
<1>2. ASSUME ConnectionsAreCounted, [Next]_vars PROVE ConnectionsAreCounted'
  <2>1. CASE Connect
    BY <1>2, <2>1, BoundsArePositive DEF Connect, ConnectionsAreCounted
  <2>2. CASE UNCHANGED connections
    BY <1>2, <2>2 DEF ConnectionsAreCounted
  <2>3. QED
    BY <1>2, <2>1, <2>2
    DEF Next, vars, socket, ReadyRead, DispatchBufferedReads, Disconnect
<1>3. QED
  BY <1>1, <1>2, PTL DEF Spec

(* All variables have their types. *)
THEOREM TypeCorrect == Spec => []TypeOK
<1>1. ReadInv /\ StreamInv /\ ConnectionsAreCounted => TypeOK
  <2> SUFFICES ASSUME ReadInv, StreamInv, ConnectionsAreCounted PROVE TypeOK
    OBVIOUS
  <2>1. /\ speaks \in Headers /\ plan \in Seq(Sent) /\ read \in 0..Len(plan)
        /\ readBuffer \in Seq(Sent) /\ buffer \in Seq(Sent) /\ Len(buffer) <= MaxText
        /\ cut \in BOOLEAN
    BY DEF StreamInv, DataInv, DataTypes
  <2>2. /\ connected \in BOOLEAN /\ scheduled \in BOOLEAN
        /\ connections \in Nat /\ events \in Nat /\ events <= connections
    BY DEF ReadInv, ReadTypes, CallsLeft, ClosedIsEmpty
  <2>3. connections \in 0..MaxConnections
    BY DEF ConnectionsAreCounted
  <2>4. events \in 0..MaxConnections
    BY <2>2, <2>3, BoundsArePositive
  <2>5. Seq(Sent) \subseteq Seq(Pieces)
    BY <2>1, HeadersDiffer, SeqMonotonic DEF Sent
  <2>6. Len(buffer) <= Capacity
    <3>1. Len(buffer) \in Nat
      BY <2>1
    <3>2. QED
      BY <2>1, <3>1, BoundsArePositive, CapacitySuffices
  <2>7. [state |-> router, fed |-> fed] \in RoutingOf(Sent)
    BY DEF StreamInv, DataInv, Routing, Heard, Sent
  <2>8. router \in [active : Headers \cup {None}, pending : Seq(Sent)] /\ fed \in Seq(Sent)
    BY <2>7 DEF RoutingOf
  <2>9. router.active \in Headers \cup {None} /\ router.pending \in Seq(Sent)
    BY <2>8
  <2>10. QED
    BY <2>1, <2>2, <2>3, <2>4, <2>5, <2>6, <2>8, <2>9 DEF TypeOK
<1>2. QED
  BY <1>1, ReadInvariance, StreamInvariance, CountInvariance, PTL

(* No byte is lost, doubled or reordered between the socket and the        *)
(* chunks, through any number of reads, calls and connections.             *)
THEOREM BytesAreOrdered == Spec => []BytesInOrder
<1>1. StreamInv => BytesInOrder
  <2> SUFFICES ASSUME StreamInv PROVE BytesInOrder
    OBVIOUS
  <2>1. Whole /\ DataTypes
    BY DEF StreamInv, DataInv
  <2> DEFINE taken == PayloadOf(chunks)
  <2>2. taken \in Seq(Sent) /\ buffer \in Seq(Sent) /\ readBuffer \in Seq(Sent)
    BY <2>1, PayloadProperties DEF DataTypes
  <2> HIDE DEF taken
  <2>3. taken \o buffer \o readBuffer = taken \o (buffer \o readBuffer)
    BY <2>2, ConcatAssociative
  <2>4. QED
    BY <2>1, <2>3 DEF BytesInOrder, Whole, taken
<1>2. QED
  BY <1>1, StreamInvariance, PTL

(* Wherever reads and calls divide the stream, every sentence is a chunk   *)
(* of its own, and no other chunk holds one.                               *)
THEOREM SentencesAreChunks == Spec => []SentencesAreFound
<1>1. StreamInv => SentencesAreFound
  <2> SUFFICES ASSUME StreamInv, ~cut, speaks \in Framed, NEW i \in DOMAIN chunks
               PROVE  Proper(chunks[i])
    BY DEF SentencesAreFound, Proper
  <2>1. chunks \in Seq(ProperOf(Sent))
    BY DEF StreamInv, DataInv, Sentences
  <2>2. chunks[i] \in ProperOf(Sent)
    BY <2>1
  <2>3. QED
    BY <2>2 DEF ProperOf
<1>2. QED
  BY <1>1, StreamInvariance, PTL

(* The protocol of the device is found at its first whole frame, and no    *)
(* frame is lost to the plugin, however the chunks divide it.              *)
THEOREM FramesAreFed == Spec => []FramesReachDecoder
<1>1. StreamInv => FramesReachDecoder
  <2> SUFFICES ASSUME StreamInv, FramesIn(Binary) # {}
               PROVE  /\ router.active = speaks
                      /\ \A i \in FramesIn(Binary) : i > Len(Binary) - Len(fed)
                      /\ fed = SubSeq(Binary, Len(Binary) - Len(fed) + 1, Len(Binary))
    BY DEF FramesReachDecoder
  <2> DEFINE r == [state |-> router, fed |-> fed]
  <2>1. Heard(r, BinaryIn(chunks), speaks)
    BY DEF StreamInv, DataInv, Routing
  <2>2. Binary = BinaryIn(chunks) /\ FramesIn(Binary) = Frames(speaks, Binary)
    BY DEF Binary, BinaryIn, FramesIn, Frames
  <2>3. r.state = router /\ r.fed = fed
    OBVIOUS
  <2> HIDE DEF r
  <2>4. fed \in Seq(Spoken(speaks))
    BY <2>1, <2>3 DEF Heard, RoutingOf
  <2>5. PICK front \in Seq(Spoken(speaks)) :
          Waiting(r, Binary, speaks, front) \/ Feeding(r, Binary, speaks, front)
    BY <2>1, <2>2 DEF Heard
  <2>6. Feeding(r, Binary, speaks, front)
    BY <2>2, <2>5 DEF Waiting
  <2>7. /\ router.active = speaks /\ Binary = front \o fed
        /\ \A i \in Frames(speaks, Binary) : i > Len(front)
    BY <2>3, <2>6 DEF Feeding
  <2>8. Len(Binary) = Len(front) + Len(fed) /\ Len(front) \in Nat /\ Len(fed) \in Nat
    BY <2>4, <2>5, <2>7
  <2>9. Len(Binary) - Len(fed) = Len(front)
    BY <2>8
  <2>10. fed = SubSeq(Binary, Len(front) + 1, Len(Binary))
    <3>1. SubSeq(front \o fed, Len(front) + 1, Len(front) + Len(fed)) = fed
      <4>1. SubSeq(front \o fed, Len(front) + 1, Len(front) + Len(fed)) \in Seq(Spoken(speaks))
        BY <2>4, <2>5, <2>8
      <4>2. Len(SubSeq(front \o fed, Len(front) + 1, Len(front) + Len(fed))) = Len(fed)
        BY <2>4, <2>5, <2>8
      <4>3. ASSUME NEW i \in 1..Len(fed)
            PROVE  SubSeq(front \o fed, Len(front) + 1, Len(front) + Len(fed))[i] = fed[i]
        BY <2>4, <2>5, <2>8
      <4>4. QED
        BY <2>4, <4>1, <4>2, <4>3, SeqEqual
    <3>2. QED
      BY <2>7, <2>8, <3>1
  <2>11. QED
    BY <2>2, <2>7, <2>9, <2>10
<1>2. QED
  BY <1>1, StreamInvariance, PTL

=============================================================================
