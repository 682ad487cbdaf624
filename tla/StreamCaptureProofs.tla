------------------------- MODULE StreamCaptureProofs -------------------------
(***************************************************************************)
(* Proofs about StreamCapture: for every limit, chunk size, pipe size and  *)
(* length of the stream, the buffer keeps both ends of it within its limit *)
(* and a capture without a diagnostic is exact.                            *)
(***************************************************************************)
EXTENDS StreamCapture, SequenceTheorems, TLAPS

---------------------------------------------------------------------------
(* Ranges of the stream *)

\* A range of the stream is a sequence of as many positions as it spans.
LEMMA BytesAre ==
  ASSUME NEW a \in Nat, NEW b \in Nat
  PROVE  /\ Bytes(a, b) \in Seq(Nat)
         /\ Len(Bytes(a, b)) = Most(b - a, 0)
         /\ a <= b => Len(Bytes(a, b)) = b - a
         /\ \A i \in 1 .. b - a : Bytes(a, b)[i] = a + i
         /\ b <= a => Bytes(a, b) = <<>>
<1>1. CASE a <= b
  <2>1. b - a \in Nat
    BY <1>1
  <2>2. Bytes(a, b) \in [1 .. b - a -> Nat]
    BY <1>1 DEF Bytes
  <2>3. Bytes(a, b) \in Seq(Nat) /\ Len(Bytes(a, b)) = b - a
    BY <2>1, <2>2
  <2>4. \A i \in 1 .. b - a : Bytes(a, b)[i] = a + i
    BY DEF Bytes
  <2>5. b <= a => Bytes(a, b) = <<>>
    BY <2>3, <1>1, EmptySeq
  <2>6. QED
    BY <1>1, <2>3, <2>4, <2>5 DEF Most
<1>2. CASE b < a
  <2>1. 1 .. b - a = {}
    BY <1>2
  <2>2. Bytes(a, b) = <<>>
    BY <2>1 DEF Bytes
  <2>3. QED
    BY <1>2, <2>1, <2>2, EmptySeq DEF Most
<1>3. QED
  BY <1>1, <1>2

\* The length of a range.
LEMMA BytesLength == \A a, b \in Nat : a <= b => Len(Bytes(a, b)) = b - a
  BY BytesAre

\* Two adjacent ranges make one.
LEMMA BytesJoin ==
  ASSUME NEW a \in Nat, NEW b \in Nat, NEW c \in Nat, a <= b, b <= c
  PROVE  Bytes(a, b) \o Bytes(b, c) = Bytes(a, c)
<1> DEFINE s == Bytes(a, b)
           t == Bytes(b, c)
           u == Bytes(a, c)
<1>1. s \in Seq(Nat) /\ Len(s) = b - a /\ \A i \in 1 .. b - a : s[i] = a + i
  BY BytesAre
<1>2. t \in Seq(Nat) /\ Len(t) = c - b /\ \A i \in 1 .. c - b : t[i] = b + i
  BY BytesAre
<1>3. u \in Seq(Nat) /\ Len(u) = c - a /\ \A i \in 1 .. c - a : u[i] = a + i
  <2>1. a <= c
    OBVIOUS
  <2>2. QED
    BY <2>1, BytesAre
<1> HIDE DEF s, t, u
<1>4. /\ s \o t \in Seq(Nat)
      /\ Len(s \o t) = Len(s) + Len(t)
      /\ \A i \in 1 .. Len(s) + Len(t) :
           (s \o t)[i] = IF i <= Len(s) THEN s[i] ELSE t[i - Len(s)]
  BY <1>1, <1>2, ConcatProperties
<1>5. Len(s) + Len(t) = c - a
  BY <1>1, <1>2
<1>6. \A i \in 1 .. c - a : (s \o t)[i] = u[i]
  <2> TAKE i \in 1 .. c - a
  <2>2. (s \o t)[i] = IF i <= b - a THEN s[i] ELSE t[i - (b - a)]
    BY <1>1, <1>4, <1>5
  <2>3. CASE i <= b - a
    BY <1>1, <1>3, <2>2, <2>3
  <2>4. CASE i > b - a
    BY <1>2, <1>3, <2>2, <2>4
  <2>5. i <= b - a \/ i > b - a
    OBVIOUS
  <2>6. QED
    BY <2>3, <2>4, <2>5, Zenon
<1>7. s \o t = u
  BY <1>3, <1>4, <1>5, <1>6, SeqEqual
<1>8. QED
  BY <1>7 DEF s, t, u

\* A part of a range is a range.
LEMMA BytesPart ==
  ASSUME NEW a \in Nat, NEW b \in Nat, a <= b,
         NEW m \in 1 .. b - a + 1, NEW n \in 0 .. b - a, m <= n + 1
  PROVE  SubSeq(Bytes(a, b), m, n) = Bytes(a + m - 1, a + n)
<1> DEFINE s == Bytes(a, b)
           u == Bytes(a + m - 1, a + n)
<1>0. a + m - 1 \in Nat /\ a + n \in Nat /\ a + m - 1 <= a + n
  OBVIOUS
<1>1. /\ s \in Seq(Nat) /\ Len(s) = b - a /\ \A i \in 1 .. b - a : s[i] = a + i
      /\ u \in Seq(Nat) /\ Len(u) = n - m + 1
      /\ \A i \in 1 .. n - m + 1 : u[i] = a + m - 1 + i
  <2>1. (a + n) - (a + m - 1) = n - m + 1
    OBVIOUS
  <2>2. QED
    BY <1>0, <2>1, BytesAre
<1> HIDE DEF s, u
<1>2. \A i \in m .. n : s[i] \in Nat
  BY <1>1
<1>3. /\ SubSeq(s, m, n) \in Seq(Nat)
      /\ Len(SubSeq(s, m, n)) = n - m + 1
      /\ \A i \in 1 .. n - m + 1 : SubSeq(s, m, n)[i] = s[m + i - 1]
  BY <1>2, SubSeqProperties
<1>4. \A i \in 1 .. n - m + 1 : SubSeq(s, m, n)[i] = u[i]
  BY <1>1, <1>3
<1>5. SubSeq(s, m, n) = u
  BY <1>1, <1>3, <1>4, SeqEqual
<1>6. QED
  BY <1>5 DEF s, u

---------------------------------------------------------------------------
(* The inductive invariant *)

\* The tail is never smaller than the head, and both are natural numbers.
LEMMA LimitFacts ==
  ASSUME limit \in Limits
  PROVE  /\ HeadLimit \in Nat /\ TailLimit \in Nat
         /\ HeadLimit <= TailLimit
         /\ HeadLimit + TailLimit = limit
<1>1. limit \in Nat
  BY LimitsAssumption
<1>2. HeadLimit \in Nat /\ 2 * HeadLimit <= limit
  BY <1>1 DEF HeadLimit
<1>3. QED
  BY <1>1, <1>2 DEF TailLimit

\* Both ends that the buffer keeps of n bytes, and their lengths.
LEMMA KeptLength ==
  ASSUME limit \in Limits
  PROVE  \A n \in Nat :
           /\ KeptHead(n) \in Seq(Nat) /\ Len(KeptHead(n)) \in 0 .. HeadLimit
           /\ KeptTail(n) \in Seq(Nat) /\ Len(KeptTail(n)) \in 0 .. TailLimit
           /\ Len(KeptHead(n)) + Len(KeptTail(n)) <= n
<1> TAKE n \in Nat
<1> DEFINE h == Least(HeadLimit, n)
           t == Most(Least(HeadLimit, n), n - TailLimit)
<1>1. HeadLimit \in Nat /\ TailLimit \in Nat
  BY LimitFacts
<1>2. h \in Nat /\ h <= HeadLimit /\ h <= n
  BY <1>1 DEF Least
<1>3. t \in Nat /\ h <= t /\ t <= n /\ n - TailLimit <= t
  <2> HIDE DEF h
  <2>1. t = IF h <= n - TailLimit THEN n - TailLimit ELSE h
    BY DEF Most, h
  <2> HIDE DEF t
  <2>2. QED
    BY <1>1, <1>2, <2>1
<1>4. KeptHead(n) = Bytes(0, h) /\ KeptTail(n) = Bytes(t, n)
  BY DEF KeptHead, KeptTail
<1> HIDE DEF h, t
<1>5. 0 \in Nat /\ 0 <= h /\ h - 0 = h
  BY <1>2
<1>6. Bytes(0, h) \in Seq(Nat) /\ Len(Bytes(0, h)) = h
  <2>1. Bytes(0, h) \in Seq(Nat)
    BY <1>2, <1>5, BytesAre
  <2>2. Len(Bytes(0, h)) = h
    BY <1>2, <1>5, BytesLength
  <2>3. QED
    BY <2>1, <2>2
<1>7. Bytes(t, n) \in Seq(Nat) /\ Len(Bytes(t, n)) = n - t
  <2>1. Bytes(t, n) \in Seq(Nat)
    BY <1>3, BytesAre
  <2>2. Len(Bytes(t, n)) = n - t
    BY <1>3, BytesLength
  <2>3. QED
    BY <2>1, <2>2
<1>8. QED
  BY <1>1, <1>2, <1>3, <1>4, <1>6, <1>7

\* Every step keeps the account of the stream.
LEMMA StreamStep == CaptureInv /\ [Next]_vars => StreamInv'
<1> SUFFICES ASSUME CaptureInv, [Next]_vars
             PROVE  StreamInv'
  OBVIOUS
<1> USE LengthAssumption, ChunkSizeAssumption DEF CaptureInv, StreamInv
<1>1. CASE TargetWrites
  BY <1>1 DEF TargetWrites, drainerVars, bufferVars
<1>2. CASE PipeCloses
  BY <1>2 DEF PipeCloses, drainerVars, bufferVars
<1>3. CASE Read
  BY <1>3 DEF Read, Least, pipeVars, bufferVars
<1>4. CASE DrainEnds
  BY <1>4 DEF DrainEnds, pipeVars, bufferVars
<1>5. CASE Feed
  BY <1>5 DEF Feed, CountChunk, FillHead, KeepTail, ExtendTail, pipeVars
<1>6. CASE CallerStep
  BY <1>6 DEF CallerStep, Join, CollectErrors, Render, SizeHead, SizeTail, Compare,
     RenderWhole, CountOmitted, RenderHead, RenderTail, CallerGoes, pipeVars,
     bufferVars, drainerVars
<1>7. CASE UNCHANGED vars
  BY <1>7 DEF vars, pipeVars, bufferVars, drainerVars
<1>8. QED
  BY <1>1, <1>2, <1>3, <1>4, <1>5, <1>6, <1>7 DEF Next, DrainerStep

\* One feed, statement by statement: what the buffer keeps of the stream grows
\* from what it kept before the chunk to what it keeps after it.
LEMMA BufferStep == CaptureInv /\ [Next]_vars => BufferInv'
<1> SUFFICES ASSUME CaptureInv, [Next]_vars
             PROVE  BufferInv'
  OBVIOUS
<1> DEFINE H == HeadLimit
           T == TailLimit
           p == Stored
<1>0. /\ H \in Nat /\ T \in Nat /\ H <= T
      /\ taken \in Nat /\ limit \in Limits
      /\ drainer \in {"read", "count", "fill", "keep", "extend", "done"}
  BY LimitFacts DEF CaptureInv, StreamInv
<1>1. CASE UNCHANGED <<bufferVars, drainerVars>>
  BY <1>1 DEF CaptureInv, BufferInv, Stored, KeptHead, KeptTail, HeadLimit, TailLimit,
     bufferVars, drainerVars, Bytes, Most, Least
<1>2. CASE Read
  <2> PICK n \in 1 .. Least(ChunkSize, written - taken) :
        chunk' = Bytes(taken, taken + n) /\ taken' = taken + n
    BY <1>2 DEF Read
  <2>1. n \in Nat /\ n > 0
    BY ChunkSizeAssumption DEF CaptureInv, StreamInv, Least
  <2>2. Len(chunk') = n
    <3>1. Len(Bytes(taken, taken + n)) = (taken + n) - taken
      <4>1. taken + n \in Nat /\ taken <= taken + n
        BY <1>0, <2>1
      <4>2. QED
        BY <1>0, <4>1, BytesLength
    <3>2. QED
      BY <1>0, <2>1, <3>1
  <2>3. Stored' = taken
    BY <1>0, <2>1, <2>2 DEF Stored
  <2>4. /\ drainer = "read" /\ drainer' = "count" /\ total' = taken
        /\ head' = KeptHead(taken) /\ tail' = KeptTail(taken)
        /\ HeadLimit' = HeadLimit /\ TailLimit' = TailLimit
    BY <1>2 DEF Read, CaptureInv, BufferInv, bufferVars, HeadLimit, TailLimit
  <2>5. QED
    BY <1>0, <2>1, <2>3, <2>4 DEF BufferInv, KeptHead, KeptTail
<1>3. CASE DrainEnds
  BY <1>3 DEF DrainEnds, CaptureInv, BufferInv, bufferVars, HeadLimit, TailLimit,
     KeptHead, KeptTail
<1>4. CASE CountChunk
  <2>1. drainer = "count" /\ drainer' = "fill" /\ total' = total + Len(chunk)
    BY <1>4 DEF CountChunk
  <2>2. total = Stored /\ Stored \in Nat /\ Stored < taken /\ chunk = Bytes(Stored, taken)
    BY <2>1 DEF CaptureInv, BufferInv
  <2>3. Len(chunk) = taken - Stored
    <3>1. Stored <= taken
      BY <1>0, <2>2
    <3>2. QED
      BY <1>0, <2>2, <3>1, BytesLength
  <2>4. total' = taken
    BY <1>0, <2>1, <2>2, <2>3
  <2>5. Stored' = Stored /\ UNCHANGED <<taken, chunk, head, tail, HeadLimit, TailLimit>>
    BY <1>4 DEF CountChunk, Stored, HeadLimit, TailLimit
  <2>6. QED
    BY <2>1, <2>4, <2>5 DEF CaptureInv, BufferInv, KeptHead, KeptTail
<1>5. CASE FillHead
  <2> DEFINE take == Least(H - Len(head), Len(chunk))
             q == p + take
  <2>1. /\ drainer = "fill" /\ p \in Nat /\ p < taken /\ chunk = Bytes(p, taken)
        /\ total = taken /\ head = Bytes(0, Least(H, p)) /\ tail = KeptTail(p)
    BY <1>5 DEF FillHead, CaptureInv, BufferInv, KeptHead
  <2>2. /\ head' = head \o SubSeq(chunk, 1, take)
        /\ chunk' = SubSeq(chunk, take + 1, Len(chunk))
        /\ drainer' = IF chunk' = <<>> \/ T = 0 THEN "read" ELSE "keep"
        /\ UNCHANGED <<tail, total, taken, HeadLimit, TailLimit>>
    BY <1>5 DEF FillHead, HeadLimit, TailLimit
  <2>3. Len(chunk) = taken - p /\ Len(head) = Least(H, p)
    <3> DEFINE h == Least(H, p)
    <3>1. h \in Nat
      BY <1>0, <2>1 DEF Least
    <3> HIDE DEF h
    <3>2. Len(Bytes(0, h)) = h
      <4>1. 0 \in Nat /\ 0 <= h /\ h - 0 = h
        BY <3>1
      <4>2. QED
        BY <3>1, <4>1, BytesLength
    <3>3. p <= taken
      BY <1>0, <2>1
    <3>4. Len(Bytes(p, taken)) = taken - p
      BY <1>0, <2>1, <3>3, BytesLength
    <3>5. QED
      BY <2>1, <3>1, <3>2, <3>4 DEF h
  <2>4. take = IF p < H THEN Least(H - p, taken - p) ELSE 0
    BY <1>0, <2>1, <2>3 DEF Least
  <2>5. take \in Nat /\ q \in Nat /\ take <= taken - p /\ p <= q /\ q <= taken
    BY <1>0, <2>1, <2>4 DEF Least
  <2>6. IF p < H THEN q = Least(H, taken) ELSE q = p
    BY <1>0, <2>1, <2>4 DEF Least
  <2> HIDE DEF take
  <2>7. SubSeq(chunk, 1, take) = Bytes(p, q)
    <3>1. 1 \in 1 .. taken - p + 1 /\ take \in 0 .. taken - p /\ 1 <= take + 1
          /\ p <= taken
      BY <1>0, <2>1, <2>5
    <3>2. SubSeq(Bytes(p, taken), 1, take) = Bytes(p + 1 - 1, p + take)
      BY <1>0, <2>1, <3>1, BytesPart
    <3>3. p + 1 - 1 = p
      BY <2>1
    <3>4. QED
      BY <2>1, <3>2, <3>3
  <2>8. chunk' = Bytes(q, taken)
    <3>1. /\ take + 1 \in 1 .. taken - p + 1 /\ taken - p \in 0 .. taken - p
          /\ take + 1 <= (taken - p) + 1 /\ p <= taken
      BY <1>0, <2>1, <2>5
    <3>2. SubSeq(Bytes(p, taken), take + 1, taken - p) = Bytes(p + (take + 1) - 1, p + (taken - p))
      BY <1>0, <2>1, <3>1, BytesPart
    <3>3. p + (take + 1) - 1 = q /\ p + (taken - p) = taken
      BY <1>0, <2>1, <2>5
    <3>4. QED
      BY <2>1, <2>2, <2>3, <3>2, <3>3
  <2>9. Len(chunk') = taken - q
    BY <1>0, <2>5, <2>8, BytesLength
  <2>10. Stored' = q
    <3>1. Stored' = taken' - Len(chunk')
      BY DEF Stored
    <3> HIDE DEF q
    <3>2. QED
      BY <1>0, <2>2, <2>5, <2>9, <3>1
  <2>11. chunk' = <<>> <=> q = taken
    <3>1. q = taken => Bytes(q, taken) = <<>>
      BY <1>0, <2>5, BytesAre
    <3>2. chunk' = <<>> => Len(chunk') = 0
      OBVIOUS
    <3>3. QED
      BY <1>0, <2>5, <2>8, <2>9, <3>1, <3>2
  <2>12. head' = Bytes(0, Least(H, q))
    <3>1. CASE p <= H
      <4>1. Least(H, p) = p /\ Least(H, q) = q
        BY <1>0, <2>1, <2>5, <2>6, <3>1 DEF Least
      <4>2. Bytes(0, p) \o Bytes(p, q) = Bytes(0, q)
        <5>1. 0 \in Nat /\ 0 <= p /\ p <= q
          BY <2>1, <2>5
        <5>2. QED
          BY <2>1, <2>5, <5>1, BytesJoin
      <4>3. QED
        BY <2>1, <2>2, <2>7, <4>1, <4>2
    <3>2. CASE H < p
      <4>1. Least(H, p) = H /\ q = p
        BY <1>0, <2>1, <2>6, <3>2 DEF Least
      <4>2. Bytes(p, q) = <<>>
        BY <2>1, <2>5, <4>1, BytesAre
      <4>3. Bytes(0, H) \in Seq(Nat)
        BY <1>0, BytesAre
      <4>4. Bytes(0, H) \o <<>> = Bytes(0, H)
        BY <4>3, ConcatEmptySeq
      <4>5. head' = Bytes(0, Least(H, p)) \o Bytes(p, q)
        BY <2>1, <2>2, <2>7
      <4>6. QED
        BY <4>1, <4>2, <4>4, <4>5
    <3>3. QED
      BY <1>0, <2>1, <3>1, <3>2
  <2>13. tail' = KeptTail(q)
    <3>1. CASE p < H
      <4>1. Most(Least(H, p), p - T) = p /\ Most(Least(H, q), q - T) = q
        BY <1>0, <2>1, <2>5, <2>6, <3>1 DEF Least, Most
      <4>2. Bytes(p, p) = <<>> /\ Bytes(q, q) = <<>>
        BY <2>1, <2>5, BytesAre
      <4>3. QED
        BY <2>1, <2>2, <4>1, <4>2 DEF KeptTail
    <3>2. CASE H <= p
      BY <1>0, <2>1, <2>2, <2>6, <3>2
    <3>3. QED
      BY <1>0, <2>1, <3>1, <3>2
  <2> HIDE DEF q
  <2>14. CASE q = taken
    BY <2>1, <2>2, <2>11, <2>12, <2>13, <2>14 DEF BufferInv, KeptHead, KeptTail
  <2>15. CASE q # taken /\ T = 0
    <3>1. H = 0
      BY <1>0, <2>15
    <3>2. Least(H, q) = 0 /\ Least(H, taken) = 0
      BY <1>0, <2>5, <3>1 DEF Least
    <3>3. Most(0, q - T) = q /\ Most(0, taken - T) = taken
      BY <1>0, <2>5, <2>15 DEF Most
    <3>4. Bytes(q, q) = <<>> /\ Bytes(taken, taken) = <<>>
      BY <1>0, <2>5, BytesAre
    <3>5. KeptTail(q) = KeptTail(taken)
      BY <3>2, <3>3, <3>4 DEF KeptTail
    <3>6. drainer' = "read"
      BY <2>2, <2>15
    <3>7. QED
      BY <2>1, <2>2, <2>12, <2>13, <3>2, <3>5, <3>6 DEF BufferInv, KeptHead, KeptTail
  <2>16. CASE q # taken /\ T # 0
    <3>1. drainer' = "keep"
      BY <2>2, <2>11, <2>16
    <3>2. q < taken /\ H <= q /\ T > 0
      BY <1>0, <2>1, <2>5, <2>6, <2>16 DEF Least
    <3>3. Least(H, q) = H
      BY <1>0, <2>5, <3>2 DEF Least
    <3>4. QED
      BY <2>1, <2>2, <2>5, <2>8, <2>10, <2>12, <2>13, <3>1, <3>2, <3>3
         DEF BufferInv, KeptTail
  <2>17. QED
    BY <2>14, <2>15, <2>16
<1>6. CASE KeepTail
  <2> DEFINE s == Most(H, p - T)
             overflow == Len(tail) + Len(chunk) - T
  <2>1. /\ drainer = "keep" /\ p \in Nat /\ H <= p /\ p < taken /\ chunk = Bytes(p, taken)
        /\ total = taken /\ head = Bytes(0, H) /\ T > 0 /\ tail = KeptTail(p)
    BY <1>6 DEF KeepTail, CaptureInv, BufferInv
  <2>2. UNCHANGED <<head, total, taken, chunk, Stored, HeadLimit, TailLimit>>
    BY <1>6 DEF KeepTail, Stored, HeadLimit, TailLimit
  <2>3. IF Len(chunk) >= T
        THEN tail' = SubSeq(chunk, Len(chunk) - T + 1, Len(chunk)) /\ drainer' = "read"
        ELSE tail' = SubSeq(tail, Most(overflow, 0) + 1, Len(tail)) /\ drainer' = "extend"
    BY <1>6 DEF KeepTail
  <2>4. Len(chunk) = taken - p
    <3>1. p <= taken
      BY <1>0, <2>1
    <3>2. QED
      BY <1>0, <2>1, <3>1, BytesLength
  <2>5. CASE Len(chunk) >= T
    <3>1. /\ taken - p - T + 1 \in 1 .. taken - p + 1 /\ taken - p \in 0 .. taken - p
          /\ taken - p - T + 1 <= (taken - p) + 1 /\ p <= taken
      BY <1>0, <2>1, <2>4, <2>5
    <3>2. SubSeq(Bytes(p, taken), taken - p - T + 1, taken - p)
            = Bytes(p + (taken - p - T + 1) - 1, p + (taken - p))
      BY <1>0, <2>1, <3>1, BytesPart
    <3>3. p + (taken - p - T + 1) - 1 = taken - T /\ p + (taken - p) = taken
      BY <1>0, <2>1
    <3>4. tail' = Bytes(taken - T, taken) /\ drainer' = "read"
      BY <2>1, <2>3, <2>4, <2>5, <3>2, <3>3
    <3>5. Least(H, taken) = H /\ Most(H, taken - T) = taken - T
      BY <1>0, <2>1, <2>4, <2>5 DEF Least, Most
    <3>6. QED
      BY <2>1, <2>2, <3>4, <3>5 DEF BufferInv, KeptHead, KeptTail
  <2>6. CASE Len(chunk) < T
    <3>1. s \in Nat /\ s <= p /\ Least(H, p) = H
      BY <1>0, <2>1 DEF Least, Most
    <3>2. tail = Bytes(s, p)
      BY <2>1, <3>1 DEF KeptTail
    <3>0. s = IF H <= p - T THEN p - T ELSE H
      BY DEF Most
    <3> HIDE DEF s
    <3>3. Len(tail) = p - s
      BY <2>1, <3>1, <3>2, BytesLength
    <3>4. overflow = taken - s - T
      BY <1>0, <2>1, <2>4, <3>1, <3>3
    <3> DEFINE lost == Most(overflow, 0)
    <3>5. lost \in Nat /\ lost <= p - s
      BY <1>0, <2>1, <2>4, <2>6, <3>1, <3>4 DEF Most
    <3>6. s + lost = Most(H, taken - T)
      <4>1. lost = IF overflow <= 0 THEN 0 ELSE overflow
        BY DEF Most
      <4>2. Most(H, taken - T) = IF H <= taken - T THEN taken - T ELSE H
        BY DEF Most
      <4> HIDE DEF lost, overflow
      <4>3. QED
        BY <1>0, <2>1, <2>4, <2>6, <3>0, <3>1, <3>4, <4>1, <4>2
    <3>7. tail' = SubSeq(tail, lost + 1, p - s) /\ drainer' = "extend"
      BY <1>0, <2>1, <2>3, <2>4, <2>6, <3>3
    <3> HIDE DEF lost
    <3>8. SubSeq(Bytes(s, p), lost + 1, p - s) = Bytes(s + (lost + 1) - 1, s + (p - s))
      <4>1. /\ lost + 1 \in 1 .. p - s + 1 /\ p - s \in 0 .. p - s
            /\ lost + 1 <= (p - s) + 1
        BY <2>1, <3>1, <3>5
      <4>2. QED
        BY <2>1, <3>1, <4>1, BytesPart
    <3>9. s + (lost + 1) - 1 = s + lost /\ s + (p - s) = p
      BY <2>1, <3>1, <3>5
    <3>10. tail' = Bytes(Most(H, taken - T), p)
      BY <3>2, <3>6, <3>7, <3>8, <3>9
    <3>11. taken - p < T
      BY <2>4, <2>6
    <3>12. QED
      BY <2>1, <2>2, <3>7, <3>10, <3>11 DEF BufferInv
  <2>7. QED
    BY <1>0, <2>1, <2>4, <2>5, <2>6
<1>7. CASE ExtendTail
  <2>1. /\ drainer = "extend" /\ drainer' = "read" /\ tail' = tail \o chunk
        /\ UNCHANGED <<head, total, taken, HeadLimit, TailLimit>>
    BY <1>7 DEF ExtendTail, HeadLimit, TailLimit
  <2>2. /\ p \in Nat /\ H <= p /\ p < taken /\ chunk = Bytes(p, taken)
        /\ taken - p < T /\ total = taken /\ head = Bytes(0, H)
        /\ tail = Bytes(Most(H, taken - T), p)
    BY <2>1 DEF CaptureInv, BufferInv
  <2> DEFINE s == Most(H, taken - T)
  <2>3. s \in Nat /\ s <= p
    BY <1>0, <2>2 DEF Most
  <2>4. tail' = Bytes(s, taken)
    <3> HIDE DEF s, p, H, T
    <3>0. p \in Nat /\ s \in Nat /\ taken \in Nat /\ s <= p /\ p <= taken
      BY <1>0, <2>2, <2>3
    <3>1. Bytes(s, p) \o Bytes(p, taken) = Bytes(s, taken)
      BY <3>0, BytesJoin
    <3>2. tail = Bytes(s, p)
      BY <2>2 DEF s
    <3>3. QED
      BY <2>1, <2>2, <3>1, <3>2
  <2>5. Least(H, taken) = H
    BY <1>0, <2>2 DEF Least
  <2>6. QED
    BY <2>1, <2>2, <2>4, <2>5 DEF BufferInv, KeptHead, KeptTail
<1>8. QED
  BY <1>1, <1>2, <1>3, <1>4, <1>5, <1>6, <1>7 DEF Next, DrainerStep, Feed, TargetWrites,
     PipeCloses, CallerStep, Join, CollectErrors, Render, SizeHead, SizeTail, Compare,
     RenderWhole, CountOmitted, RenderHead, RenderTail, CallerGoes, vars

\* What the caller computes stays right: once it has joined the drainer, nobody
\* changes the buffer under it.
LEMMA CallerInvStep == CaptureInv /\ [Next]_vars => CallerInv'
<1> SUFFICES ASSUME CaptureInv, [Next]_vars
             PROVE  CallerInv'
  OBVIOUS
<1> USE DEF CaptureInv, CallerInv, Joined
<1>1. CASE TargetWrites \/ PipeCloses
  BY <1>1 DEF TargetWrites, PipeCloses, drainerVars, bufferVars, callerVars
<1>2. CASE DrainerStep
  <2>1. drainer # "done" /\ UNCHANGED callerVars
    BY <1>2 DEF DrainerStep, Read, DrainEnds, Feed, CountChunk, FillHead, KeepTail, ExtendTail
  <2>2. ~Joined
    BY <2>1
  <2>3. QED
    BY <2>1, <2>2 DEF callerVars
<1>3. CASE CallerStep
  <2> USE DEF CallerGoes, pipeVars, bufferVars, drainerVars
  <2>1. CASE Join
    BY <2>1 DEF Join
  <2>2. CASE CollectErrors
    BY <2>2 DEF CollectErrors
  <2>3. CASE SizeHead
    BY <2>3 DEF SizeHead
  <2>4. CASE SizeTail
    BY <2>4 DEF SizeTail
  <2>5. CASE Compare
    <3>1. Joined => total \in Nat /\ retained \in Nat
      BY <2>5, KeptLength DEF Compare, StreamInv, BufferInv
    <3>2. Joined => total <= retained \/ total > retained
      BY <3>1
    <3>3. QED
      BY <2>5, <3>2 DEF Compare
  <2>6. CASE RenderWhole
    BY <2>6 DEF RenderWhole
  <2>7. CASE CountOmitted
    BY <2>7 DEF CountOmitted
  <2>8. CASE RenderHead
    BY <2>8 DEF RenderHead
  <2>9. CASE RenderTail
    BY <2>9 DEF RenderTail
  <2>10. QED
    BY <1>3, <2>1, <2>2, <2>3, <2>4, <2>5, <2>6, <2>7, <2>8, <2>9 DEF CallerStep, Render
<1>4. CASE UNCHANGED vars
  BY <1>4 DEF vars, pipeVars, bufferVars, drainerVars, callerVars
<1>5. QED
  BY <1>1, <1>2, <1>3, <1>4 DEF Next

---------------------------------------------------------------------------
(* Theorems *)

\* CaptureInv holds in every reachable state.
THEOREM CaptureInvariance == Spec => []CaptureInv
<1>1. Init => CaptureInv
  <2> SUFFICES ASSUME Init PROVE CaptureInv
    OBVIOUS
  <2>1. StreamInv
    <3>1. /\ limit \in Limits
          /\ written \in Nat /\ taken \in Nat /\ taken <= written /\ written <= Length
      BY LengthAssumption DEF Init
    <3>2. drainer = "read" /\ failed = FALSE /\ eof = FALSE
      BY DEF Init
    <3>3. QED
      BY <3>1, <3>2 DEF StreamInv
  <2>2. KeptHead(0) = <<>> /\ KeptTail(0) = <<>>
    <3>1. Least(HeadLimit, 0) = 0 /\ Most(0, 0 - TailLimit) = 0
      BY <2>1, LimitFacts DEF StreamInv, Least, Most
    <3>2. Bytes(0, 0) = <<>>
      BY BytesAre
    <3>3. QED
      BY <3>1, <3>2 DEF KeptHead, KeptTail
  <2>3. BufferInv
    BY <2>2 DEF Init, BufferInv
  <2>4. CallerInv
    BY DEF Init, CallerInv, Joined
  <2>5. QED
    BY <2>1, <2>3, <2>4 DEF CaptureInv
<1>2. CaptureInv /\ [Next]_vars => CaptureInv'
  BY StreamStep, BufferStep, CallerInvStep DEF CaptureInv
<1>3. QED
  BY <1>1, <1>2, PTL DEF Spec

\* For every limit and however the stream is cut into chunks, no more than the
\* limit is retained, between two statements of a feed too.
THEOREM RetentionBounded == Spec => []RetentionIsBounded
<1>1. CaptureInv => RetentionIsBounded
  <2> SUFFICES ASSUME CaptureInv PROVE RetentionIsBounded
    OBVIOUS
  <2>0. /\ HeadLimit \in Nat /\ TailLimit \in Nat /\ HeadLimit + TailLimit = limit
        /\ HeadLimit <= TailLimit
        /\ taken \in Nat
        /\ drainer \in {"read", "count", "fill", "keep", "extend", "done"}
    BY LimitFacts DEF CaptureInv, StreamInv
  <2>1. \A n \in Nat : /\ Len(KeptHead(n)) \in 0 .. HeadLimit
                       /\ Len(KeptTail(n)) \in 0 .. TailLimit
    BY KeptLength DEF CaptureInv, StreamInv
  <2>2. CASE drainer \in {"read", "done", "count", "fill"}
    <3>1. \E n \in Nat : head = KeptHead(n) /\ tail = KeptTail(n)
      BY <2>0, <2>2 DEF CaptureInv, BufferInv
    <3>2. QED
      BY <2>0, <2>1, <3>1 DEF RetentionIsBounded
  <2>3. CASE drainer \in {"keep", "extend"}
    <3>1. Len(head) = HeadLimit
      <4>1. 0 \in Nat /\ 0 <= HeadLimit /\ HeadLimit - 0 = HeadLimit
        BY <2>0
      <4>2. head = Bytes(0, HeadLimit)
        BY <2>3 DEF CaptureInv, BufferInv
      <4>3. QED
        BY <2>0, <4>1, <4>2, BytesLength
    <3>2. Len(tail) \in 0 .. TailLimit
      <4>1. CASE drainer = "keep"
        BY <2>1, <4>1 DEF CaptureInv, BufferInv
      <4>2. CASE drainer = "extend"
        <5> DEFINE s == Most(HeadLimit, taken - TailLimit)
        <5>1. /\ Stored \in Nat /\ HeadLimit <= Stored /\ taken - Stored < TailLimit
              /\ Stored < taken /\ tail = Bytes(s, Stored)
          BY <4>2 DEF CaptureInv, BufferInv
        <5>2. s \in Nat /\ s <= Stored /\ taken - TailLimit <= s
          BY <2>0, <5>1 DEF Most
        <5> HIDE DEF s
        <5>3. Len(tail) = Stored - s
          BY <5>1, <5>2, BytesLength
        <5>4. QED
          BY <2>0, <5>1, <5>2, <5>3
      <4>3. QED
        BY <2>3, <4>1, <4>2
    <3>3. QED
      BY <2>0, <3>1, <3>2 DEF RetentionIsBounded
  <2>4. QED
    BY <2>0, <2>2, <2>3
<1>2. QED
  BY <1>1, CaptureInvariance, PTL

\* Between two feeds the buffer is exactly what its limit keeps of the stream.
THEOREM BothEndsKept == Spec => []KeepsBothEnds
<1>1. CaptureInv => KeepsBothEnds
  BY DEF CaptureInv, BufferInv, KeepsBothEnds
<1>2. QED
  BY <1>1, CaptureInvariance, PTL

\* A capture without a drain diagnostic is exact, whatever the caller and the
\* drainer interleave.
THEOREM CleanCaptureExact == Spec => []CleanCaptureIsExact
<1>1. CaptureInv => CleanCaptureIsExact
  <2> SUFFICES ASSUME CaptureInv, caller = "rendered", ~late, ~errored
               PROVE  /\ eof
                      /\ text = KeptHead(written) \o KeptTail(written)
                      /\ omitted = written - Len(text)
    BY DEF CleanCaptureIsExact
  <2>1. drainer = "done" /\ ~failed
    BY DEF CaptureInv, CallerInv, Joined
  <2>2. eof /\ taken = written /\ written \in Nat
    BY <2>1 DEF CaptureInv, StreamInv
  <2>3. head = KeptHead(written) /\ tail = KeptTail(written) /\ total = written
    BY <2>1, <2>2 DEF CaptureInv, BufferInv
  <2>4. /\ text = head \o tail
        /\ omitted = total - retained \/ (omitted = 0 /\ total <= retained)
        /\ retained = Len(head) + Len(tail)
    BY DEF CaptureInv, CallerInv, Joined
  <2>5. head \in Seq(Nat) /\ tail \in Seq(Nat) /\ Len(head) + Len(tail) <= written
    BY <2>2, <2>3, KeptLength DEF CaptureInv, StreamInv
  <2>6. Len(text) = Len(head) + Len(tail)
    BY <2>4, <2>5, ConcatProperties
  <2>7. omitted = written - Len(text)
    <3>1. Len(head) \in Nat /\ Len(tail) \in Nat
      BY <2>5
    <3>2. QED
      BY <2>2, <2>3, <2>4, <2>5, <2>6, <3>1
  <2>8. QED
    BY <2>2, <2>3, <2>4, <2>7
<1>2. QED
  BY <1>1, CaptureInvariance, PTL

---------------------------------------------------------------------------
(* A rendering beside a drainer that still feeds *)

\* At every statement the buffer holds two ranges of the stream, the head's
\* before the tail's.
LEMMA BufferRanges ==
  ASSUME CaptureInv
  PROVE  \E k, x, y \in Nat : /\ k <= x /\ x <= y /\ y <= taken
                              /\ head = Bytes(0, k) /\ Len(head) = k
                              /\ tail = Bytes(x, y) /\ Len(tail) = y - x
<1>0. /\ HeadLimit \in Nat /\ TailLimit \in Nat /\ taken \in Nat
      /\ drainer \in {"read", "count", "fill", "keep", "extend", "done"}
  BY LimitFacts DEF CaptureInv, StreamInv
<1>1. SUFFICES \E k, x, y \in Nat : /\ k <= x /\ x <= y /\ y <= taken
                                    /\ head = Bytes(0, k) /\ tail = Bytes(x, y)
  <2> PICK k \in Nat, x \in Nat, y \in Nat :
        k <= x /\ x <= y /\ y <= taken /\ head = Bytes(0, k) /\ tail = Bytes(x, y)
    BY <1>1
  <2>1. Len(Bytes(0, k)) = k - 0
    <3>1. 0 \in Nat /\ 0 <= k
      OBVIOUS
    <3>2. QED
      BY <3>1, BytesLength
  <2>2. Len(Bytes(x, y)) = y - x
    BY BytesLength
  <2>3. QED
    BY <2>1, <2>2
<1>2. ASSUME NEW n \in Nat, n <= taken, head = KeptHead(n), tail = KeptTail(n)
      PROVE  \E k, x, y \in Nat : /\ k <= x /\ x <= y /\ y <= taken
                                  /\ head = Bytes(0, k) /\ tail = Bytes(x, y)
  <2> DEFINE k == Least(HeadLimit, n)
             x == Most(k, n - TailLimit)
  <2>1. k \in Nat /\ k <= n
    BY <1>0 DEF Least
  <2>2. head = Bytes(0, k) /\ tail = Bytes(x, n)
    BY <1>2 DEF KeptHead, KeptTail
  <2> HIDE DEF k
  <2>3. x \in Nat /\ k <= x /\ x <= n
    BY <1>0, <2>1 DEF Most
  <2> HIDE DEF x
  <2>4. QED
    BY <1>2, <2>1, <2>2, <2>3
<1>3. CASE drainer \in {"read", "done"}
  <2>1. head = KeptHead(taken) /\ tail = KeptTail(taken) /\ taken <= taken
    BY <1>0, <1>3 DEF CaptureInv, BufferInv
  <2>2. QED
    BY <1>0, <1>2, <2>1
<1>4. CASE drainer \in {"count", "fill", "keep"}
  <2>1. /\ Stored \in Nat /\ Stored < taken /\ tail = KeptTail(Stored)
        /\ drainer = "keep" => HeadLimit <= Stored /\ head = Bytes(0, HeadLimit)
        /\ drainer # "keep" => head = KeptHead(Stored)
    BY <1>4 DEF CaptureInv, BufferInv
  <2>2. drainer = "keep" => head = KeptHead(Stored)
    <3>1. HeadLimit <= Stored => Least(HeadLimit, Stored) = HeadLimit
      BY DEF Least
    <3>2. QED
      BY <2>1, <3>1 DEF KeptHead
  <2>3. Stored <= taken
    BY <1>0, <2>1
  <2>4. QED
    BY <1>2, <2>1, <2>2, <2>3
<1>5. CASE drainer = "extend"
  <2> DEFINE x == Most(HeadLimit, taken - TailLimit)
  <2>1. /\ Stored \in Nat /\ HeadLimit <= Stored /\ Stored < taken
        /\ head = Bytes(0, HeadLimit) /\ taken - Stored < TailLimit
        /\ tail = Bytes(x, Stored)
    BY <1>5 DEF CaptureInv, BufferInv
  <2>2. x \in Nat /\ HeadLimit <= x /\ x <= Stored
    BY <1>0, <2>1 DEF Most
  <2> HIDE DEF x
  <2>3. QED
    BY <1>0, <2>1, <2>2
<1>6. QED
  BY <1>0, <1>3, <1>4, <1>5

\* A range of what was read is a sequence of positions.
LEMMA RangeOfPositions ==
  ASSUME StreamInv, NEW a \in Nat, NEW b \in Nat, a <= b, b <= written
  PROVE  Bytes(a, b) \in Positions
<1>1. Length \in Nat /\ written \in Nat /\ written <= Length
  BY LengthAssumption DEF StreamInv
<1>2. \A i \in 1 .. b - a : a + i \in 1 .. Length
  BY <1>1
<1>3. b - a \in Nat
  OBVIOUS
<1>4. Bytes(a, b) \in [1 .. b - a -> 1 .. Length]
  BY <1>2 DEF Bytes
<1>5. \A S : \A n \in Nat : \A s \in [1 .. n -> S] : s \in Seq(S)
  OBVIOUS
<1>6. Bytes(a, b) \in Seq(1 .. Length)
  BY <1>3, <1>4, <1>5, Zenon
<1>7. QED
  BY <1>6 DEF Positions

\* What the buffer has counted was read.
LEMMA TotalIsRead == CaptureInv => total \in 0 .. taken
  BY DEF CaptureInv, BufferInv, StreamInv

\* A step of the drainer only ever lengthens the head.
LEMMA HeadGrows ==
  CaptureInv /\ [Next]_vars =>
    Len(head) \in Nat /\ Len(head') \in Nat /\ Len(head') >= Len(head)
<1> SUFFICES ASSUME CaptureInv, [Next]_vars
             PROVE  Len(head) \in Nat /\ Len(head') \in Nat /\ Len(head') >= Len(head)
  OBVIOUS
<1>1. Len(head) \in Nat
  BY BufferRanges
<1>2. CASE FillHead
  <2> DEFINE take == Least(HeadLimit - Len(head), Len(chunk))
  <2>1. /\ drainer = "fill" /\ head' = head \o SubSeq(chunk, 1, take)
    BY <1>2 DEF FillHead
  <2>2. /\ Stored \in Nat /\ Stored < taken /\ taken \in Nat
        /\ chunk = Bytes(Stored, taken) /\ head = KeptHead(Stored)
    BY <2>1 DEF CaptureInv, BufferInv, StreamInv
  <2>3. chunk \in Seq(Nat) /\ head \in Seq(Nat) /\ Len(head) \in 0 .. HeadLimit /\ HeadLimit \in Nat
    BY <2>2, BytesAre, KeptLength, LimitFacts DEF CaptureInv, StreamInv
  <2>4. take \in Nat /\ take <= Len(chunk)
    BY <2>3 DEF Least
  <2> HIDE DEF take
  <2>5. \A i \in 1 .. take : chunk[i] \in Nat
    BY <2>3, <2>4
  <2>6. SubSeq(chunk, 1, take) \in Seq(Nat)
    BY <2>4, <2>5, SubSeqProperties
  <2>7. Len(head') = Len(head) + Len(SubSeq(chunk, 1, take))
    BY <2>1, <2>3, <2>6, ConcatProperties
  <2>8. QED
    BY <1>1, <2>6, <2>7
<1>3. CASE head' = head
  BY <1>1, <1>3
<1>4. FillHead \/ head' = head
  BY DEF Next, DrainerStep, Read, DrainEnds, Feed, CountChunk, KeepTail, ExtendTail,
     TargetWrites, PipeCloses, CallerStep, Join, CollectErrors, Render, SizeHead,
     SizeTail, Compare, RenderWhole, CountOmitted, RenderHead, RenderTail, CallerGoes,
     vars, bufferVars
<1>5. QED
  BY <1>2, <1>3, <1>4

\* The caller's text is a range of the stream, or two of which the first ends
\* before the second begins.
Whole(k, x, y) == k <= x /\ x <= y /\ y <= taken /\ text = Bytes(0, k) \o Bytes(x, y)
RenderInv ==
  /\ chunk \in Positions
  /\ late \in BOOLEAN /\ errored \in BOOLEAN
  /\ retained \in Nat /\ omitted \in Nat
  /\ caller = "omit" => total > retained
  /\ caller = "copyTail" => \E k \in Nat : k <= Len(head) /\ text = Bytes(0, k)
  /\ caller = "rendered" => \E k, x, y \in Nat : Whole(k, x, y)
  /\ caller \notin {"copyTail", "rendered"} => text = <<>>

\* The caller's next statement.
LEMMA RenderCallerStep == CaptureInv /\ RenderInv /\ CallerStep => RenderInv'
<1> SUFFICES ASSUME CaptureInv, RenderInv, CallerStep
             PROVE  RenderInv'
  OBVIOUS
<1>1. PICK k \in Nat, x \in Nat, y \in Nat :
        /\ k <= x /\ x <= y /\ y <= taken
        /\ head = Bytes(0, k) /\ Len(head) = k
        /\ tail = Bytes(x, y) /\ Len(tail) = y - x
  BY BufferRanges
<1>2. /\ UNCHANGED <<chunk, total, head, tail, taken>>
      /\ total \in Nat /\ taken \in Nat /\ failed \in BOOLEAN
  BY TotalIsRead DEF CallerStep, Join, CollectErrors, Render, SizeHead, SizeTail, Compare,
     RenderWhole, CountOmitted, RenderHead, RenderTail, CallerGoes, bufferVars,
     drainerVars, CaptureInv, StreamInv
<1> USE <1>2 DEF RenderInv, CallerGoes
<1>3. CASE Join
  BY <1>3 DEF Join
<1>4. CASE CollectErrors
  BY <1>4 DEF CollectErrors
<1>5. CASE SizeHead
  BY <1>1, <1>5 DEF SizeHead
<1>6. CASE SizeTail
  BY <1>1, <1>6 DEF SizeTail
<1>7. CASE Compare
  <2>1. total > retained \/ total <= retained
    OBVIOUS
  <2>2. QED
    BY <1>7, <2>1 DEF Compare
<1>8. CASE RenderWhole
  <2>1. caller = "whole" /\ caller' = "rendered" /\ UNCHANGED <<late, errored, retained, omitted>>
    BY <1>8 DEF RenderWhole
  <2>2. text' = Bytes(0, k) \o Bytes(x, y)
    BY <1>1, <1>8 DEF RenderWhole
  <2>3. Whole(k, x, y)'
    BY <1>1, <2>2 DEF Whole
  <2>4. \E a, b, c \in Nat : Whole(a, b, c)'
    BY <2>3
  <2>5. QED
    BY <2>1, <2>4
<1>9. CASE CountOmitted
  BY <1>9 DEF CountOmitted
<1>10. CASE RenderHead
  BY <1>1, <1>10 DEF RenderHead
<1>11. CASE RenderTail
  <2>1. caller = "copyTail" /\ caller' = "rendered" /\ UNCHANGED <<late, errored, retained, omitted>>
    BY <1>11 DEF RenderTail
  <2>2. PICK a \in Nat : a <= Len(head) /\ text = Bytes(0, a)
    BY <2>1
  <2>3. text' = Bytes(0, a) \o Bytes(x, y)
    BY <1>1, <1>11, <2>2 DEF RenderTail
  <2>4. Whole(a, x, y)'
    BY <1>1, <2>2, <2>3 DEF Whole
  <2>5. \E b, c, d \in Nat : Whole(b, c, d)'
    BY <2>4
  <2>6. QED
    BY <2>1, <2>5
<1>12. QED
  BY <1>3, <1>4, <1>5, <1>6, <1>7, <1>8, <1>9, <1>10, <1>11 DEF CallerStep, Render

\* The target and the drainer, under a caller that renders.
LEMMA RenderOtherStep ==
  CaptureInv /\ RenderInv /\ [Next]_vars /\ ~CallerStep => RenderInv'
<1> SUFFICES ASSUME CaptureInv, RenderInv, [Next]_vars, ~CallerStep
             PROVE  RenderInv'
  OBVIOUS
<1>1. UNCHANGED callerVars
  BY DEF Next, TargetWrites, PipeCloses, DrainerStep, Read, DrainEnds, Feed, CountChunk,
     FillHead, KeepTail, ExtendTail, vars
<1>2. Len(head) \in Nat /\ Len(head') \in Nat /\ Len(head') >= Len(head)
  BY HeadGrows
<1>3. /\ taken \in Nat /\ total \in Nat /\ written \in Nat /\ taken <= written
      /\ written <= Length /\ Length \in Nat
  BY TotalIsRead, LengthAssumption DEF CaptureInv, StreamInv
<1>4. chunk \in Seq(1 .. Length)
  BY DEF RenderInv, Positions
<1>5. /\ chunk' \in Positions
      /\ taken' \in Nat /\ taken' >= taken
      /\ total' \in Nat /\ total' >= total
  <2>1. CASE Read
    <3>1. PICK n \in 1 .. Least(ChunkSize, written - taken) :
            chunk' = Bytes(taken, taken + n) /\ taken' = taken + n
      BY <2>1 DEF Read
    <3>2. n \in Nat /\ taken <= taken + n /\ taken + n <= written
      BY <1>3, ChunkSizeAssumption DEF Least
    <3>3. chunk' \in Positions
      BY <1>3, <3>1, <3>2, RangeOfPositions DEF CaptureInv
    <3>4. QED
      BY <1>3, <2>1, <3>1, <3>2, <3>3 DEF Read, bufferVars
  <2>2. CASE CountChunk
    BY <1>3, <1>4, <2>2 DEF CountChunk, Positions
  <2>3. CASE FillHead
    <3> DEFINE take == Least(HeadLimit - Len(head), Len(chunk))
    <3>1. /\ chunk' = SubSeq(chunk, take + 1, Len(chunk))
          /\ UNCHANGED <<taken, total>>
      BY <2>3 DEF FillHead
    <3>2. HeadLimit \in Nat /\ Len(head) <= HeadLimit
      <4>1. Stored \in Nat /\ head = KeptHead(Stored)
        BY <2>3 DEF FillHead, CaptureInv, BufferInv
      <4>2. QED
        BY <4>1, LimitFacts, KeptLength DEF CaptureInv, StreamInv
    <3>3. take \in Nat /\ Len(chunk) \in Nat
      BY <1>2, <1>4, <3>2 DEF Least
    <3> HIDE DEF take
    <3>4. \A i \in take + 1 .. Len(chunk) : chunk[i] \in 1 .. Length
      <4>1. chunk \in [1 .. Len(chunk) -> 1 .. Length]
        BY <1>4, LenProperties
      <4>2. \A i \in take + 1 .. Len(chunk) : i \in 1 .. Len(chunk)
        BY <3>3
      <4>3. QED
        BY <4>1, <4>2, Zenon
    <3>5. SubSeq(chunk, take + 1, Len(chunk)) \in Seq(1 .. Length)
      BY <3>3, <3>4, SubSeqProperties
    <3>6. QED
      BY <1>3, <3>1, <3>5 DEF Positions
  <2>4. CASE UNCHANGED <<chunk, taken, total>>
    BY <1>3, <1>4, <2>4 DEF Positions
  <2>5. QED
    BY <2>1, <2>2, <2>3, <2>4 DEF Next, CallerStep, TargetWrites, PipeCloses, DrainerStep,
       DrainEnds, Feed, KeepTail, ExtendTail, vars, bufferVars, drainerVars
<1>6. UNCHANGED <<caller, late, errored, retained, omitted, text>>
  BY <1>1 DEF callerVars
<1>7. caller = "omit" => total' > retained
  BY <1>3, <1>5 DEF RenderInv
<1>8. caller = "copyTail" => \E k \in Nat : k <= Len(head') /\ text = Bytes(0, k)
  <2> SUFFICES ASSUME caller = "copyTail"
               PROVE  \E k \in Nat : k <= Len(head') /\ text = Bytes(0, k)
    OBVIOUS
  <2>1. PICK k \in Nat : k <= Len(head) /\ text = Bytes(0, k)
    BY DEF RenderInv
  <2>2. k <= Len(head')
    BY <1>2, <2>1
  <2>3. QED
    BY <2>1, <2>2
<1>9. caller = "rendered" => \E k, x, y \in Nat : Whole(k, x, y)'
  <2> SUFFICES ASSUME caller = "rendered" PROVE \E k, x, y \in Nat : Whole(k, x, y)'
    OBVIOUS
  <2>1. PICK k \in Nat, x \in Nat, y \in Nat : Whole(k, x, y)
    BY DEF RenderInv
  <2>2. Whole(k, x, y)'
    BY <1>3, <1>5, <1>6, <2>1 DEF Whole
  <2>3. QED
    BY <2>2
<1>10. caller \notin {"copyTail", "rendered"} => text = <<>>
  BY DEF RenderInv
<1>11. late \in BOOLEAN /\ errored \in BOOLEAN /\ retained \in Nat /\ omitted \in Nat
  BY DEF RenderInv
<1>12. QED
  BY <1>5, <1>6, <1>7, <1>8, <1>9, <1>10, <1>11 DEF RenderInv

\* The rendered text stays two ranges in order, whatever the drainer does.
LEMMA RenderInvariance == Spec => []RenderInv
<1>1. Init => RenderInv
  <2> SUFFICES ASSUME Init PROVE RenderInv
    OBVIOUS
  <2>1. chunk \in Positions
    BY EmptySeq DEF Init, Positions
  <2>2. QED
    BY <2>1 DEF Init, RenderInv
<1>2. CaptureInv /\ RenderInv /\ [Next]_vars => RenderInv'
  BY RenderCallerStep, RenderOtherStep
<1>3. QED
  BY <1>1, <1>2, CaptureInvariance, PTL DEF Spec

\* Every variable has its type: what the buffer, the chunk and the text hold are
\* bytes of the stream, and nothing is counted that was not read.
THEOREM CaptureTypes == Spec => []TypeOK
<1>1. CaptureInv /\ RenderInv => TypeOK
  <2> SUFFICES ASSUME CaptureInv, RenderInv PROVE TypeOK
    OBVIOUS
  <2>1. PICK k \in Nat, x \in Nat, y \in Nat :
          /\ k <= x /\ x <= y /\ y <= taken /\ head = Bytes(0, k) /\ tail = Bytes(x, y)
    BY BufferRanges
  <2>2. /\ taken \in Nat /\ written \in 0 .. Length /\ taken <= written /\ StreamInv
    BY LengthAssumption DEF CaptureInv, StreamInv
  <2>3. head \in Positions /\ tail \in Positions
    <3>1. 0 \in Nat /\ 0 <= k /\ k <= written /\ y <= written
      BY <2>1, <2>2
    <3>2. QED
      BY <2>1, <2>2, <3>1, RangeOfPositions
  <2>4. text \in Positions
    <3>1. CASE caller = "copyTail"
      <4>1. PICK a \in Nat : a <= Len(head) /\ text = Bytes(0, a)
        BY <3>1 DEF RenderInv
      <4>2. Len(head) <= written /\ Len(head) \in Nat
        BY <2>2, BufferRanges
      <4>3. 0 \in Nat /\ 0 <= a /\ a <= written
        BY <2>2, <4>1, <4>2
      <4>4. QED
        BY <2>2, <4>1, <4>3, RangeOfPositions
    <3>2. CASE caller = "rendered"
      <4>1. PICK a \in Nat, b \in Nat, c \in Nat : Whole(a, b, c)
        BY <3>2 DEF RenderInv
      <4>2. /\ 0 \in Nat /\ 0 <= a /\ a <= written /\ b <= c /\ c <= written
            /\ text = Bytes(0, a) \o Bytes(b, c)
        BY <2>2, <4>1 DEF Whole
      <4>3. Bytes(0, a) \in Positions /\ Bytes(b, c) \in Positions
        BY <2>2, <4>2, RangeOfPositions
      <4>4. \A S : \A s, t \in Seq(S) : s \o t \in Seq(S)
        BY ConcatProperties
      <4>5. QED
        BY <4>2, <4>3, <4>4, Zenon DEF Positions
    <3>3. CASE text = <<>>
      BY <3>3, EmptySeq DEF Positions
    <3>4. QED
      BY <3>1, <3>2, <3>3 DEF RenderInv
  <2>5. total \in 0 .. taken
    BY TotalIsRead
  <2>6. QED
    BY <2>2, <2>3, <2>4, <2>5 DEF TypeOK, CaptureInv, StreamInv, CallerInv, RenderInv
<1>2. QED
  BY <1>1, CaptureInvariance, RenderInvariance, PTL

\* A capture rendered beside its drainer never shows a byte twice or out of order,
\* for every limit and every interleaving of render with feed.
THEOREM RenderingKeepsOrder == Spec => []NothingIsReordered
<1>1. RenderInv /\ CaptureInv => NothingIsReordered
  <2> SUFFICES ASSUME RenderInv, CaptureInv, caller = "rendered" PROVE Increasing(text)
    BY DEF NothingIsReordered
  <2>1. PICK k \in Nat, x \in Nat, y \in Nat : Whole(k, x, y)
    BY DEF RenderInv
  <2> DEFINE s == Bytes(0, k)
             t == Bytes(x, y)
  <2>2. k <= x /\ x <= y /\ text = s \o t
    BY <2>1 DEF Whole
  <2>3. s \in Seq(Nat) /\ Len(s) = k /\ \A i \in 1 .. k : s[i] = i
    <3>1. 0 \in Nat /\ 0 <= k /\ k - 0 = k /\ \A i \in 1 .. k : 0 + i = i
      OBVIOUS
    <3>2. s \in Seq(Nat) /\ Len(s) = k - 0 /\ \A i \in 1 .. k - 0 : s[i] = 0 + i
      BY <3>1, BytesAre
    <3>3. QED
      BY <3>1, <3>2
  <2>4. t \in Seq(Nat) /\ Len(t) = y - x /\ \A i \in 1 .. y - x : t[i] = x + i
    BY <2>2, BytesAre
  <2> HIDE DEF s, t
  <2>5. /\ Len(text) = k + (y - x)
        /\ \A i \in 1 .. k + (y - x) : text[i] = IF i <= k THEN s[i] ELSE t[i - k]
    <3>1. /\ Len(s \o t) = Len(s) + Len(t)
          /\ \A i \in 1 .. Len(s) + Len(t) :
               (s \o t)[i] = IF i <= Len(s) THEN s[i] ELSE t[i - Len(s)]
      BY <2>3, <2>4, ConcatProperties
    <3>2. Len(s) = k /\ Len(t) = y - x
      BY <2>3, <2>4
    <3>3. QED
      BY <2>2, <3>1, <3>2, Zenon
  <2>6. \A i \in 1 .. Len(text) : text[i] = IF i <= k THEN i ELSE x + (i - k)
    <3> TAKE i \in 1 .. Len(text)
    <3>1. CASE i <= k
      BY <2>2, <2>3, <2>5, <3>1
    <3>2. CASE i > k
      <4>1. i - k \in 1 .. y - x
        BY <2>2, <2>5, <3>2
      <4>2. text[i] = t[i - k]
        BY <2>5, <3>2
      <4>3. QED
        BY <2>4, <3>2, <4>1, <4>2
    <3>3. QED
      BY <3>1, <3>2
  <2>7. ASSUME NEW i \in 1 .. Len(text), NEW j \in 1 .. Len(text), i < j
        PROVE  text[i] < text[j]
    <3>1. text[i] = IF i <= k THEN i ELSE x + (i - k)
      BY <2>6
    <3>2. text[j] = IF j <= k THEN j ELSE x + (j - k)
      BY <2>6
    <3>3. QED
      BY <2>2, <2>5, <2>7, <3>1, <3>2
  <2>8. QED
    BY <2>7 DEF Increasing
<1>2. QED
  BY <1>1, CaptureInvariance, RenderInvariance, PTL

=============================================================================
