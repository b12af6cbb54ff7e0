---------------------------- MODULE LogBufProofs ----------------------------
(***************************************************************************)
(* What holds of the log pipe and the ring for buffers, pipes and rings of *)
(* any size and any messages: types, the size of the ring, that no byte is *)
(* lost on the way, and which lines the ring holds and /api/logs answers.  *)
(***************************************************************************)
EXTENDS LogBuf, SequenceTheorems, FiniteSetTheorems, WellFoundedInduction,
        TLAPS

(* The chunk that is being copied is inside the buffer.                    *)
ChunkInside == at \in {"tee", "ring"} => n \in 1..Len(buf)

RingBounded == Len(lines) <= KeepLines /\ Len(answer.lines) <= KeepLines

LogInv == TypeOK /\ ChunkInside /\ RingBounded

----------------------------------------------------------------------------
(* A part of a byte string is one.                                         *)
LEMMA PartTyped ==
  ASSUME NEW B, NEW s \in Seq(B), NEW i \in Nat \ {0}, NEW j \in 0..Len(s)
  PROVE  /\ SubSeq(s, i, j) \in Seq(B)
         /\ i <= j + 1 => Len(SubSeq(s, i, j)) = j - i + 1
<1>1. i \in Int /\ j \in Int /\ \A k \in i..j : s[k] \in B
  OBVIOUS
<1>2. /\ SubSeq(s, i, j) \in Seq(B)
      /\ Len(SubSeq(s, i, j)) = IF i <= j THEN j - i + 1 ELSE 0
  BY ONLY <1>1, SubSeqProperties
<1> QED
  BY <1>2

(* Trimming cuts the end of a line off.                                    *)
LEMMA TrimmedTyped ==
  ASSUME NEW s \in Seq(Bytes)
  PROVE  Trimmed(s) \in Seq(Bytes)
<1> DEFINE K == {i \in DOMAIN s : \E j \in i..Len(s) : s[j] # CR}
<1>1. Len(s) \in Nat /\ DOMAIN s = 1..Len(s)
  OBVIOUS
<1>2. IsFiniteSet(1..Len(s)) /\ Cardinality(1..Len(s)) = Len(s)
  BY SMTT(30), <1>1, FS_Interval
<1>3. Cardinality(K) \in 0..Len(s)
  <2>1. K \subseteq 1..Len(s)
    BY <1>1
  <2>2. IsFiniteSet(K) /\ Cardinality(K) <= Cardinality(1..Len(s))
    BY <1>2, <2>1, FS_Subset
  <2>3. Cardinality(K) \in Nat
    BY <2>2, FS_CardinalityType
  <2> QED
    BY <1>1, <1>2, <2>2, <2>3
<1> HIDE DEF K
<1>4. SubSeq(s, 1, Cardinality(K)) \in Seq(Bytes)
  BY <1>1, <1>3, PartTyped
<1> QED
  BY <1>4 DEF Trimmed, K

(* A line more does not make the ring exceed its size.                     *)
LEMMA AppendedTyped ==
  ASSUME NEW ls \in Seq(Seq(Bytes)), Len(ls) <= KeepLines, NEW l \in Seq(Bytes)
  PROVE  /\ Appended(ls, l) \in Seq(Seq(Bytes))
         /\ Len(Appended(ls, l)) <= KeepLines
<1>1. CASE Len(ls) < KeepLines
  BY <1>1, SizesAssumption DEF Appended
<1>2. CASE ~(Len(ls) < KeepLines)
  <2>1. Appended(ls, l) = [i \in 1..Len(ls) |-> IF i < Len(ls) THEN ls[i + 1] ELSE l]
    BY <1>2 DEF Appended
  <2>2. ASSUME NEW i \in 1..Len(ls)
        PROVE  (IF i < Len(ls) THEN ls[i + 1] ELSE l) \in Seq(Bytes)
    BY <2>2
  <2> QED
    BY <2>1, <2>2
<1> QED
  BY <1>1, <1>2

(* Tail answers with lines of the ring.                                    *)
LEMMA TailTyped ==
  ASSUME NEW ls \in Seq(Seq(Bytes)), NEW k \in Nat
  PROVE  TailOf(ls, k) \in Seq(Seq(Bytes)) /\ Len(TailOf(ls, k)) <= Len(ls)
<1>1. CASE k = 0 \/ k >= Len(ls)
  BY <1>1 DEF TailOf
<1>2. CASE ~(k = 0 \/ k >= Len(ls))
  <2>0. Len(ls) \in Nat /\ Len(ls) > k
    BY <1>2
  <2>1. TailOf(ls, k) = SubSeq(ls, Len(ls) - k + 1, Len(ls))
    BY <1>2, <2>0 DEF TailOf, LastOf
  <2>2. /\ Len(ls) - k + 1 \in Nat \ {0}
        /\ Len(ls) - k + 1 <= Len(ls) + 1
        /\ Len(ls) \in 0..Len(ls)
    BY <1>2
  <2>3. /\ TailOf(ls, k) \in Seq(Seq(Bytes))
        /\ Len(TailOf(ls, k)) = Len(ls) - (Len(ls) - k + 1) + 1
    BY <2>1, <2>2, PartTyped
  <2> QED
    BY <1>2, <2>3
<1> QED
  BY <1>1, <1>2

(* The chunk that is being copied is a byte string.                        *)
LEMMA ChunkTyped ==
  ASSUME TypeOK, ChunkInside, at \in {"tee", "ring"}
  PROVE  Chunk \in Seq(Bytes)
BY PartTyped DEF TypeOK, ChunkInside, Chunk

(* Cutting a byte string in two and joining the parts.                     *)
LEMMA CutAndJoin ==
  ASSUME NEW B, NEW s \in Seq(B), NEW k \in 1..Len(s)
  PROVE  /\ SubSeq(s, 1, k) \in Seq(B) /\ Len(SubSeq(s, 1, k)) = k
         /\ SubSeq(s, k + 1, Len(s)) \in Seq(B)
         /\ s = SubSeq(s, 1, k) \o SubSeq(s, k + 1, Len(s))
<1>1. /\ Len(s) \in Nat /\ k \in Nat /\ k \in 0..Len(s)
      /\ k + 1 \in Nat \ {0} /\ Len(s) \in 0..Len(s) /\ 1 \in Nat \ {0}
  OBVIOUS
<1>2. SubSeq(s, 1, k) \in Seq(B) /\ Len(SubSeq(s, 1, k)) = k - 1 + 1
  BY <1>1, PartTyped
<1>3. SubSeq(s, k + 1, Len(s)) \in Seq(B)
  BY <1>1, PartTyped
<1>4. SubSeq(s, 1, k) \o SubSeq(s, k + 1, Len(s)) = SubSeq(s, 1, Len(s))
  <2>1. 1 \in 1..Len(s) + 1 /\ k \in 1 - 1..Len(s) /\ Len(s) \in k..Len(s)
    BY <1>1
  <2> QED
    BY <2>1, ConcatAdjacentSubSeq
<1>5. SubSeq(s, 1, Len(s)) = s
  BY SubSeqFull
<1>6. k - 1 + 1 = k
  BY <1>1
<1>7. s = SubSeq(s, 1, k) \o SubSeq(s, k + 1, Len(s))
  BY ONLY <1>4, <1>5
<1> QED
  BY <1>2, <1>3, <1>6, <1>7

(* What is read into the buffer is what is taken out again.                *)
LEMMA HeadOfJoin ==
  ASSUME NEW B, NEW h \in Seq(B), NEW t \in Seq(B), h # <<>>
  PROVE  /\ h \o t \in Seq(B)
         /\ Len(h) \in 1..Len(h \o t)
         /\ SubSeq(h \o t, 1, Len(h)) = h
<1>1. Len(h) \in Nat \ {0} /\ Len(t) \in Nat
  OBVIOUS
<1>2. h \o t \in Seq(B) /\ Len(h \o t) = Len(h) + Len(t)
  BY ConcatProperties
<1>3. SubSeq(h \o t, 1, Len(h)) = SubSeq(h, 1, Len(h))
  <2>1. 1 \in 1..Len(h) /\ Len(h) \in 1..Len(h)
    BY <1>1
  <2> QED
    BY <2>1, SubSeqOfConcat1
<1>4. SubSeq(h, 1, Len(h)) = h
  BY SubSeqFull
<1> QED
  BY <1>1, <1>2, <1>3, <1>4

(* A read splits the pipe into the chunk and what stays.                   *)
LEMMA ReadSplits ==
  ASSUME TypeOK, ReadPipe
  PROVE  /\ n' \in 1..BufSize
         /\ buf' \in Seq(Bytes) /\ n' \in 1..Len(buf')
         /\ pipe' \in Seq(Bytes)
         /\ pipe = Chunk' \o pipe'
<1>1. pipe \in Seq(Bytes) /\ buf \in Seq(Bytes)
  BY DEF TypeOK
<1>2. PICK k \in 1..Len(pipe) :
        /\ k <= BufSize /\ n' = k
        /\ buf' = SubSeq(pipe, 1, k) \o SubSeq(buf, k + 1, Len(buf))
        /\ pipe' = SubSeq(pipe, k + 1, Len(pipe))
  <2> DEFINE m == IF Len(pipe) < BufSize THEN Len(pipe) ELSE BufSize
  <2>1. /\ m > 0 /\ n' = m
        /\ buf' = SubSeq(pipe, 1, m) \o SubSeq(buf, m + 1, Len(buf))
        /\ pipe' = SubSeq(pipe, m + 1, Len(pipe))
    BY DEF ReadPipe
  <2>2. Len(pipe) \in Nat /\ BufSize \in Nat \ {0}
    BY <1>1, SizesAssumption
  <2>3. m \in 1..Len(pipe) /\ m <= BufSize
    BY <2>1, <2>2
  <2> HIDE DEF m
  <2> QED
    BY <2>1, <2>3
<1> DEFINE head == SubSeq(pipe, 1, k)
           rest == SubSeq(buf, k + 1, Len(buf))
<1>3. k + 1 \in Nat \ {0} /\ Len(buf) \in 0..Len(buf)
  BY <1>1
<1>4. rest \in Seq(Bytes)
  BY <1>1, <1>3, PartTyped
<1>5. /\ head \in Seq(Bytes) /\ Len(head) = k
      /\ pipe' \in Seq(Bytes)
      /\ pipe = head \o pipe'
  BY <1>1, <1>2, CutAndJoin
<1>6. head # <<>>
  BY <1>5
<1>7. buf' = head \o rest
  BY <1>2
<1> HIDE DEF head, rest
<1>8. buf' \in Seq(Bytes) /\ k \in 1..Len(buf') /\ SubSeq(buf', 1, k) = head
  BY <1>4, <1>5, <1>6, <1>7, HeadOfJoin
<1>9. n' \in 1..BufSize
  BY <1>1, <1>2, SizesAssumption
<1>10. Chunk' = head
  BY <1>2, <1>8 DEF Chunk
<1> QED
  BY <1>2, <1>5, <1>8, <1>9, <1>10

----------------------------------------------------------------------------
(* Types, and the ring never exceeds its size.                             *)
LEMMA LogInvHolds == Spec => []LogInv
<1>1. Init => LogInv
  BY SizesAssumption DEF Init, LogInv, TypeOK, ChunkInside, RingBounded
<1>2. ASSUME LogInv, [Next]_vars PROVE LogInv'
  <2> USE <1>2 DEF LogInv, history
  <2>1. ASSUME NEW m \in Messages, PrintMessage(m) PROVE LogInv'
    <3>1. m \in Seq(Bytes)
      BY SizesAssumption
    <3>2. pipe \o m \in Seq(Bytes) /\ printed \o m \in Seq(Bytes)
      BY <3>1, ConcatProperties DEF TypeOK
    <3> QED
      BY <2>1, <3>2 DEF PrintMessage, TypeOK, ChunkInside, RingBounded
  <2>2. CASE ReadPipe
    <3>1. /\ n' \in 0..BufSize /\ n' \in 1..Len(buf')
          /\ buf' \in Seq(Bytes) /\ pipe' \in Seq(Bytes)
      BY <2>2, ReadSplits
    <3> QED
      BY <2>2, <3>1 DEF ReadPipe, TypeOK, ChunkInside, RingBounded
  <2>3. CASE TeeToOperator
    <3>1. shown \o Chunk \in Seq(Bytes)
      BY <2>3, ChunkTyped, ConcatProperties DEF TeeToOperator, TypeOK
    <3> QED
      BY <2>3, <3>1 DEF TeeToOperator, TypeOK, ChunkInside, RingBounded
  <2>4. CASE BeginWrite
    <3>1. pendng \o Chunk \in Seq(Bytes) /\ given \o Chunk \in Seq(Bytes)
      BY <2>4, ChunkTyped, ConcatProperties DEF BeginWrite, TypeOK
    <3> QED
      BY <2>4, <3>1 DEF BeginWrite, TypeOK, ChunkInside, RingBounded
  <2>5. CASE TakeLine
    <3>1. PICK i \in LFs(pendng) :
            LET line == Trimmed(SubSeq(pendng, 1, i - 1)) IN
            /\ lines' = IF line = <<>> THEN lines ELSE Appended(lines, line)
            /\ pendng' = SubSeq(pendng, i + 1, Len(pendng))
      BY <2>5 DEF TakeLine
    <3>2. pendng \in Seq(Bytes) /\ i \in 1..Len(pendng)
      BY DEF TypeOK, LFs
    <3>3. /\ 1 \in Nat \ {0} /\ i + 1 \in Nat \ {0}
          /\ i - 1 \in 0..Len(pendng) /\ Len(pendng) \in 0..Len(pendng)
      BY <3>2
    <3>4. SubSeq(pendng, 1, i - 1) \in Seq(Bytes) /\ pendng' \in Seq(Bytes)
      BY <3>1, <3>2, <3>3, PartTyped
    <3>5. lines' \in Seq(Seq(Bytes)) /\ Len(lines') <= KeepLines
      BY <3>1, <3>4, TrimmedTyped, AppendedTyped DEF TypeOK, RingBounded
    <3> QED
      BY <2>5, <3>4, <3>5 DEF TakeLine, TypeOK, ChunkInside, RingBounded
  <2>6. CASE EndWrite
    BY <2>6 DEF EndWrite, TypeOK, ChunkInside, RingBounded
  <2>7. ASSUME NEW k \in TailSizes, ShowLogs(k) PROVE LogInv'
    <3>1. k \in Nat
      BY SizesAssumption
    <3>2. TailOf(lines, k) \in Seq(Seq(Bytes)) /\ Len(TailOf(lines, k)) <= Len(lines)
      BY <2>7, <3>1, TailTyped DEF TypeOK
    <3>3. Len(TailOf(lines, k)) <= KeepLines
      BY <3>2, SizesAssumption DEF TypeOK, RingBounded
    <3> QED
      BY <2>7, <3>2, <3>3 DEF ShowLogs, TypeOK, ChunkInside, RingBounded
  <2>8. CASE UNCHANGED vars
    BY <2>8 DEF vars, TypeOK, ChunkInside, RingBounded
  <2> QED
    BY <2>1, <2>2, <2>3, <2>4, <2>5, <2>6, <2>7, <2>8 DEF Next, Copying
<1> QED
  BY <1>1, <1>2, PTL DEF Spec

(* However long the helper runs, the ring and what /api/logs answers stay  *)
(* within Buffer.max lines.                                                *)
THEOREM LogTypeCorrect == Spec => [](TypeOK /\ RingBounded)
<1>1. LogInv => TypeOK /\ RingBounded
  BY DEF LogInv
<1> QED
  BY <1>1, LogInvHolds, PTL

(* Three pieces of text may be joined in either order.                     *)
LEMMA Regrouped ==
  ASSUME NEW a \in Seq(Bytes), NEW b \in Seq(Bytes), NEW c \in Seq(Bytes)
  PROVE  (a \o b) \o c = a \o (b \o c)
BY ConcatAssociative

(* Whatever is printed, and however the pipe cuts it, every byte gets to   *)
(* the operator and then to the ring once and in order.                    *)
THEOREM LogNothingLost == Spec => []NothingLost
<1>1. Init => NothingLost
  BY DEF Init, NothingLost
<1>2. ASSUME LogInv, NothingLost, [Next]_vars PROVE NothingLost'
  <2> USE <1>2 DEF LogInv, history
  <2>0. /\ pipe \in Seq(Bytes) /\ given \in Seq(Bytes) /\ shown \in Seq(Bytes)
        /\ <<>> \in Seq(Bytes)
    BY DEF TypeOK
  <2>1. ASSUME NEW m \in Messages, PrintMessage(m) PROVE NothingLost'
    <3> DEFINE u == IF at \in {"tee", "ring"} THEN Chunk ELSE <<>>
               g == given \o u
    <3>1. m \in Seq(Bytes) /\ u \in Seq(Bytes)
      BY <2>0, SizesAssumption, ChunkTyped
    <3>2. printed = g \o pipe
      BY DEF NothingLost
    <3>3. g \in Seq(Bytes)
      BY <2>0, <3>1, ConcatProperties
    <3>4. u' = u /\ given' = given
      BY <2>1 DEF PrintMessage, Chunk
    <3> HIDE DEF u, g
    <3>5. (g \o pipe) \o m = g \o (pipe \o m)
      BY ONLY SMTT(30), <2>0, <3>1, <3>3, Regrouped
    <3>6. printed' = g \o pipe'
      BY <2>1, <3>2, <3>5 DEF PrintMessage
    <3> QED
      BY <2>1, <3>4, <3>6 DEF PrintMessage, NothingLost, Chunk, u, g
  <2>2. CASE ReadPipe
    <3>1. pipe = Chunk' \o pipe' /\ pipe' \in Seq(Bytes)
      BY <2>2, ReadSplits
    <3>2. Chunk' \in Seq(Bytes)
      BY <2>2, ReadSplits, PartTyped DEF Chunk
    <3>3. printed = (given \o <<>>) \o pipe /\ shown = given \o <<>>
      BY <2>2 DEF ReadPipe, NothingLost
    <3>4. given \o <<>> = given
      BY <2>0, ConcatEmptySeq
    <3>5. (given \o Chunk') \o pipe' = given \o (Chunk' \o pipe')
      BY ONLY SMTT(30), <2>0, <3>1, <3>2, Regrouped
    <3> QED
      BY <2>2, <3>1, <3>3, <3>4, <3>5 DEF ReadPipe, NothingLost
  <2>3. CASE TeeToOperator
    <3>1. Chunk' = Chunk
      BY <2>3 DEF TeeToOperator, Chunk
    <3>2. given \o <<>> = given
      BY <2>0, ConcatEmptySeq
    <3> QED
      BY <2>3, <3>1, <3>2 DEF TeeToOperator, NothingLost
  <2>4. CASE BeginWrite
    <3>1. printed = (given \o Chunk) \o pipe /\ shown = given \o Chunk
      BY <2>4 DEF BeginWrite, NothingLost
    <3>2. given \o Chunk \in Seq(Bytes)
      BY <2>0, <2>4, ChunkTyped, ConcatProperties DEF BeginWrite
    <3>3. (given \o Chunk) \o <<>> = given \o Chunk
      BY <3>2, ConcatEmptySeq
    <3> QED
      BY <2>4, <3>1, <3>3 DEF BeginWrite, NothingLost
  <2>5. CASE TakeLine \/ EndWrite \/ \E k \in TailSizes : ShowLogs(k)
    BY <2>5 DEF TakeLine, EndWrite, ShowLogs, NothingLost, Chunk
  <2>6. CASE UNCHANGED vars
    BY <2>6 DEF vars, NothingLost, Chunk
  <2> QED
    BY <2>1, <2>2, <2>3, <2>4, <2>5, <2>6 DEF Next, Copying
<1> QED
  BY <1>1, <1>2, LogInvHolds, PTL DEF Spec

----------------------------------------------------------------------------
(* A set of natural numbers has a least, and if it is bounded a greatest.  *)
LEMMA Least ==
  ASSUME NEW S \in SUBSET Nat, S # {}
  PROVE  \E x \in S : \A y \in S : x <= y
<1>1. PICK x \in S : \A y \in S : <<y, x>> \notin OpToRel(<, Nat)
  BY WFMin, NatLessThanWellFounded
<1>2. ASSUME NEW y \in S PROVE x <= y
  <2>1. ~(y < x)
    BY <1>1 DEF OpToRel
  <2> QED
    BY <2>1
<1> QED
  BY <1>2

LEMMA Greatest ==
  ASSUME NEW N \in Nat, NEW S \in SUBSET (0..N), S # {}
  PROVE  \E x \in S : \A y \in S : y <= x
<1> DEFINE T == {y \in 0..N : N - y \in S}
<1>1. PICK x \in S : TRUE
  OBVIOUS
<1>2. N - x \in T /\ T \in SUBSET Nat
  BY <1>1
<1>3. PICK z \in T : \A y \in T : z <= y
  BY <1>2, Least
<1>4. ASSUME NEW y \in S PROVE y <= N - z
  <2>1. N - y \in 0..N /\ N - (N - y) = y
    OBVIOUS
  <2>2. N - y \in T
    BY <2>1
  <2>3. z <= N - y /\ z \in 0..N
    BY <1>3, <2>2
  <2> QED
    BY <2>3
<1> QED
  BY <1>3, <1>4

(* How many members of a finite set of numbers are up to a number.         *)
LEMMA RankTyped ==
  ASSUME NEW S, IsFiniteSet(S), NEW e
  PROVE  Rank(S, e) \in Nat /\ Rank(S, e) <= Cardinality(S)
<1>1. /\ IsFiniteSet({f \in S : f <= e})
      /\ Cardinality({f \in S : f <= e}) <= Cardinality(S)
  BY FS_Subset
<1> QED
  BY <1>1, FS_CardinalityType DEF Rank

(* A set has a k-th element for every k up to its size.                    *)
LEMMA NthIsMember ==
  ASSUME NEW N \in Nat, NEW S \in SUBSET (0..N), NEW k \in 1..Cardinality(S)
  PROVE  Nth(S, k) \in S /\ Rank(S, Nth(S, k)) = k
<1>1. IsFiniteSet(S) /\ Cardinality(S) \in Nat
  <2>1. IsFiniteSet(0..N)
    BY FS_Interval
  <2> QED
    BY <2>1, FS_Subset, FS_CardinalityType
<1> DEFINE T == {e \in S : Rank(S, e) >= k}
<1>2. T # {}
  <2>1. S # {}
    BY FS_EmptySet
  <2>2. PICK g \in S : \A y \in S : y <= g
    BY <2>1, Greatest
  <2>3. {f \in S : f <= g} = S
    BY <2>2
  <2>4. Rank(S, g) >= k
    BY <1>1, <2>3 DEF Rank
  <2> QED
    BY <2>4
<1>3. PICK e \in T : \A y \in T : e <= y
  <2>0. S \subseteq Nat
    OBVIOUS
  <2>1. T \in SUBSET Nat
    BY ONLY <2>0
  <2> HIDE DEF T
  <2> QED
    BY <1>2, <2>1, Least
<1>4. Rank(S, e) \in Nat /\ Rank(S, e) >= k /\ e \in 0..N
  BY <1>1, <1>3, RankTyped
<1> DEFINE U == {f \in S : f <= e}
           V == U \ {e}
<1>5. IsFiniteSet(U) /\ e \in U
  BY <1>1, <1>4, FS_Subset
<1>6. Cardinality(V) = Rank(S, e) - 1
  BY <1>5, FS_RemoveElement DEF Rank
<1>7. CASE V = {}
  <2>0. Cardinality(V) = 0
    BY ONLY <1>7, FS_EmptySet
  <2>1. Rank(S, e) = 1
    BY <1>4, <1>6, <2>0
  <2>2. Rank(S, e) = k
    BY <1>1, <1>4, <2>1
  <2> QED
    BY <1>3, <2>2 DEF Nth
<1>8. CASE V # {}
  <2>1. V \in SUBSET (0..N)
    OBVIOUS
  <2>2. PICK g \in V : \A y \in V : y <= g
    BY <1>8, <2>1, Greatest
  <2>3. g \in S /\ g \in 0..N /\ g < e
    BY <1>4, <2>2
  <2>4. {f \in S : f <= g} = V
    <3>1. ASSUME NEW f \in S PROVE f <= g <=> f \in V
      BY <1>4, <2>2, <2>3
    <3> QED
      BY <3>1
  <2>5. Rank(S, g) = Rank(S, e) - 1
    BY <1>6, <2>4 DEF Rank
  <2>6. ~(Rank(S, g) >= k)
    BY <1>3, <1>4, <2>3
  <2>7. Rank(S, e) = k
    BY <1>1, <1>4, <2>5, <2>6
  <2> QED
    BY <1>3, <2>7 DEF Nth
<1> QED
  BY <1>7, <1>8

(* A greater number added to a set comes last.                             *)
LEMMA NthExtended ==
  ASSUME NEW N \in Nat, NEW S \in SUBSET (0..N), NEW m \in Nat, m > N
  PROVE  LET T == S \cup {m} IN
         /\ IsFiniteSet(S) /\ Cardinality(S) \in Nat
         /\ Cardinality(T) = Cardinality(S) + 1
         /\ \A k \in 1..Cardinality(S) : Nth(T, k) = Nth(S, k)
         /\ Nth(T, Cardinality(S) + 1) = m
<1> DEFINE T == S \cup {m}
           c == Cardinality(S)
<1>1. IsFiniteSet(S) /\ c \in Nat
  <2>1. IsFiniteSet(0..N)
    BY FS_Interval
  <2> QED
    BY <2>1, FS_Subset, FS_CardinalityType
<1>2. Cardinality(T) = c + 1
  BY <1>1, FS_AddElement
<1>3. ASSUME NEW e \in S PROVE Rank(T, e) = Rank(S, e)
  <2>1. ~(m <= e)
    OBVIOUS
  <2>2. {f \in T : f <= e} = {f \in S : f <= e}
    BY <2>1
  <2> QED
    BY <2>2 DEF Rank
<1>4. Rank(T, m) = c + 1
  <2>0. ASSUME NEW f \in T PROVE f <= m
    OBVIOUS
  <2>1. {f \in T : f <= m} = T
    BY ONLY <2>0, Zenon
  <2>2. Rank(T, m) = Cardinality({f \in T : f <= m})
    BY Zenon DEF Rank
  <2>3. Rank(T, m) = Cardinality(T)
    BY ONLY <2>1, <2>2, Zenon
  <2> QED
    BY ONLY <1>1, <1>2, <2>3
<1>5. \A e \in S : Rank(S, e) \in Nat /\ Rank(S, e) <= c
  BY <1>1, RankTyped
<1>6. m \notin S
  OBVIOUS
<1> HIDE DEF T, c
<1>7. ASSUME NEW k \in 1..c PROVE Nth(T, k) = Nth(S, k)
  <2>1. ASSUME NEW e
        PROVE  e \in S /\ Rank(S, e) = k <=> e \in T /\ Rank(T, e) = k
    <3>1. CASE e \in S
      BY <1>3, <3>1 DEF T
    <3>2. CASE e = m
      <4>1. c + 1 # k
        BY <1>1
      <4> QED
        BY <1>4, <1>6, <3>2, <4>1
    <3> QED
      BY <3>1, <3>2 DEF T
  <2> QED
    BY <2>1 DEF Nth
<1>8. Nth(T, c + 1) = m
  <2>1. ASSUME NEW e \in T PROVE Rank(T, e) = c + 1 <=> e = m
    <3>1. CASE e \in S
      <4>1. Rank(T, e) # c + 1
        BY <1>1, <1>3, <1>5, <3>1
      <4> QED
        BY <1>6, <3>1, <4>1
    <3> QED
      BY <1>4, <3>1 DEF T
  <2>2. m \in T /\ Rank(T, m) = c + 1
    BY <1>4 DEF T
  <2>3. Nth(T, c + 1) \in T /\ Rank(T, Nth(T, c + 1)) = c + 1
    BY <2>2, Zenon DEF Nth
  <2> QED
    BY <2>1, <2>3
<1> QED
  BY <1>1, <1>2, <1>7, <1>8 DEF T, c

----------------------------------------------------------------------------
(* Parts of two strings that agree there are equal.                        *)
LEMMA SamePart ==
  ASSUME NEW B, NEW s \in Seq(B), NEW u \in Seq(B), NEW i \in Nat \ {0},
         NEW j \in 0..Len(s), j <= Len(u), \A q \in i..j : s[q] = u[q]
  PROVE  SubSeq(s, i, j) = SubSeq(u, i, j)
<1>1. /\ i \in Int /\ j \in Int
      /\ \A q \in i..j : s[q] \in B
      /\ \A q \in i..j : u[q] \in B
  OBVIOUS
<1>2. /\ SubSeq(s, i, j) \in Seq(B)
      /\ Len(SubSeq(s, i, j)) = IF i <= j THEN j - i + 1 ELSE 0
      /\ \A q \in 1..j - i + 1 : SubSeq(s, i, j)[q] = s[i + q - 1]
  BY ONLY <1>1, SubSeqProperties
<1>3. /\ SubSeq(u, i, j) \in Seq(B)
      /\ Len(SubSeq(u, i, j)) = IF i <= j THEN j - i + 1 ELSE 0
      /\ \A q \in 1..j - i + 1 : SubSeq(u, i, j)[q] = u[i + q - 1]
  BY ONLY <1>1, SubSeqProperties
<1>4. ASSUME NEW q \in 1..Len(SubSeq(s, i, j))
      PROVE  SubSeq(s, i, j)[q] = SubSeq(u, i, j)[q]
  <2>1. q \in 1..j - i + 1
    BY <1>2
  <2>2. i + q - 1 \in i..j
    BY <1>1, <2>1
  <2> QED
    BY <1>2, <1>3, <2>1, <2>2
<1> QED
  BY <1>2, <1>3, <1>4, SeqEqual

(* What a string appended to another does and does not change.             *)
LEMMA Joined ==
  ASSUME NEW d \in Seq(Bytes), NEW t \in Seq(Bytes)
  PROVE  /\ d \o t \in Seq(Bytes)
         /\ Len(d) \in Nat /\ Len(t) \in Nat
         /\ Len(d \o t) = Len(d) + Len(t)
         /\ \A i \in 1..Len(d) : (d \o t)[i] = d[i]
         /\ \A i \in 1..Len(t) : (d \o t)[Len(d) + i] = t[i]
         /\ LFs(d \o t) = LFs(d) \cup {Len(d) + i : i \in LFs(t)}
<1>1. /\ d \o t \in Seq(Bytes)
      /\ Len(d) \in Nat /\ Len(t) \in Nat
      /\ Len(d \o t) = Len(d) + Len(t)
      /\ \A i \in 1..Len(d) + Len(t) :
           (d \o t)[i] = IF i <= Len(d) THEN d[i] ELSE t[i - Len(d)]
  BY ConcatProperties
<1>2. \A i \in 1..Len(d) : (d \o t)[i] = d[i]
  BY <1>1
<1>3. ASSUME NEW i \in 1..Len(t) PROVE (d \o t)[Len(d) + i] = t[i]
  <2>1. /\ Len(d) + i \in 1..Len(d) + Len(t) /\ ~(Len(d) + i <= Len(d))
        /\ Len(d) + i - Len(d) = i
    BY <1>1
  <2> QED
    BY <1>1, <2>1
<1>4. /\ DOMAIN d = 1..Len(d) /\ DOMAIN t = 1..Len(t)
      /\ DOMAIN (d \o t) = 1..Len(d) + Len(t)
  BY <1>1
<1>5. ASSUME NEW e
      PROVE  e \in LFs(d \o t) <=>
               e \in LFs(d) \/ \E i \in LFs(t) : e = Len(d) + i
  <2>1. ASSUME e \in LFs(d \o t)
        PROVE  e \in LFs(d) \/ \E i \in LFs(t) : e = Len(d) + i
    <3>1. e \in 1..Len(d) + Len(t) /\ (d \o t)[e] = LF
      BY <1>4, <2>1 DEF LFs
    <3>2. CASE e <= Len(d)
      BY <1>1, <1>2, <1>4, <3>1, <3>2 DEF LFs
    <3>3. CASE ~(e <= Len(d))
      <4>1. e - Len(d) \in 1..Len(t) /\ e = Len(d) + (e - Len(d))
        BY <1>1, <3>1, <3>3
      <4>2. t[e - Len(d)] = LF
        BY <1>3, <3>1, <4>1
      <4>3. e - Len(d) \in LFs(t)
        BY <1>4, <4>1, <4>2 DEF LFs
      <4> QED
        BY <4>1, <4>3
    <3> QED
      BY <3>2, <3>3
  <2>2. ASSUME e \in LFs(d) PROVE e \in LFs(d \o t)
    BY <1>1, <1>2, <1>4, <2>2 DEF LFs
  <2>3. ASSUME NEW i \in LFs(t), e = Len(d) + i PROVE e \in LFs(d \o t)
    <3>1. i \in 1..Len(t) /\ t[i] = LF
      BY <1>4, <2>3 DEF LFs
    <3>2. Len(d) + i \in 1..Len(d) + Len(t)
      BY <1>1, <3>1
    <3> QED
      BY <1>3, <1>4, <2>3, <3>1, <3>2 DEF LFs
  <2> QED
    BY <2>1, <2>2, <2>3
<1>6. LFs(d \o t) = LFs(d) \cup {Len(d) + i : i \in LFs(t)}
  BY <1>5
<1> QED
  BY <1>1, <1>2, <1>3, <1>6

(* A line begins after the line end before it.                             *)
LEMMA LineStartIs ==
  ASSUME NEW s \in Seq(Bytes), NEW e \in 1..Len(s), NEW b \in 1..e,
         b = 1 \/ s[b - 1] = LF, \A i \in b..e - 1 : s[i] # LF
  PROVE  LineStart(s, e) = b
<1> DEFINE Starts(c) == /\ c = 1 \/ s[c - 1] = LF
                        /\ \A i \in c..e - 1 : s[i] # LF
<1>1. ASSUME NEW c \in 1..e, Starts(c) PROVE c = b
  <2>1. CASE c < b
    <3>1. b - 1 \in c..e - 1 /\ b # 1
      BY <2>1
    <3> QED
      BY <1>1, <3>1
  <2>2. CASE b < c
    <3>1. c - 1 \in b..e - 1 /\ c # 1
      BY <2>2
    <3> QED
      BY <1>1, <3>1
  <2> QED
    BY <2>1, <2>2
<1>2. LineStart(s, e) = CHOOSE c \in 1..e : Starts(c)
  BY DEF LineStart
<1>3. Starts(b)
  OBVIOUS
<1> HIDE DEF Starts
<1>4. /\ (CHOOSE c \in 1..e : Starts(c)) \in 1..e
      /\ Starts(CHOOSE c \in 1..e : Starts(c))
  BY <1>3
<1> QED
  BY <1>1, <1>2, <1>4

(* Every line has a beginning.                                             *)
LEMMA LineHasStart ==
  ASSUME NEW d \in Seq(Bytes), NEW e \in 1..Len(d)
  PROVE  \E b \in 1..e : /\ b = 1 \/ d[b - 1] = LF
                         /\ \A i \in b..e - 1 : d[i] # LF
<1>1. Len(d) \in Nat /\ e \in Nat
  OBVIOUS
<1> DEFINE T == {b \in 1..e : \A i \in b..e - 1 : d[i] # LF}
<1>2. T \in SUBSET Nat /\ e \in T
  BY <1>1
<1>3. PICK b \in T : \A c \in T : b <= c
  <2> HIDE DEF T
  <2> QED
    BY <1>2, Least
<1>4. b \in 1..e /\ \A i \in b..e - 1 : d[i] # LF
  OBVIOUS
<1>5. b = 1 \/ d[b - 1] = LF
  <2>1. SUFFICES ASSUME b # 1, d[b - 1] # LF PROVE FALSE
    OBVIOUS
  <2>2. b - 1 \in 1..e /\ b \in Nat
    BY <1>1, <1>4, <2>1
  <2>3. ASSUME NEW i \in b - 1..e - 1 PROVE d[i] # LF
    <3>1. i = b - 1 \/ i \in b..e - 1
      BY <1>1, <2>2, <2>3
    <3> QED
      BY <1>4, <2>1, <3>1
  <2>4. b - 1 \in T
    BY <2>2, <2>3
  <2> QED
    BY <1>3, <2>2, <2>4
<1> QED
  BY <1>4, <1>5

(* The lines of a text do not change when more text comes after it.        *)
LEMMA LineStays ==
  ASSUME NEW d \in Seq(Bytes), NEW t \in Seq(Bytes), NEW e \in 1..Len(d)
  PROVE  LineAt(d \o t, e) = LineAt(d, e)
<1>1. /\ d \o t \in Seq(Bytes) /\ Len(d) \in Nat /\ Len(t) \in Nat
      /\ Len(d \o t) = Len(d) + Len(t)
      /\ \A i \in 1..Len(d) : (d \o t)[i] = d[i]
  BY Joined
<1> DEFINE s == d \o t
<1> HIDE DEF s
<1>2. PICK b \in 1..e : /\ b = 1 \/ d[b - 1] = LF
                        /\ \A i \in b..e - 1 : d[i] # LF
  BY LineHasStart
<1>3. LineStart(d, e) = b
  BY <1>2, LineStartIs
<1>4. s \in Seq(Bytes) /\ Len(s) = Len(d) + Len(t) /\ \A i \in 1..Len(d) : s[i] = d[i]
  BY <1>1 DEF s
<1>5. LineStart(s, e) = b
  <2>1. e \in 1..Len(s)
    BY <1>1, <1>4
  <2>2. b = 1 \/ s[b - 1] = LF
    BY SMTT(30), <1>1, <1>2, <1>4
  <2>3. ASSUME NEW i \in b..e - 1 PROVE s[i] # LF
    <3>1. i \in 1..Len(d)
      BY <1>1, <2>3
    <3> QED
      BY <1>2, <1>4, <2>3, <3>1
  <2> QED
    BY <1>4, <2>1, <2>2, <2>3, LineStartIs
<1>6. SubSeq(d, b, e - 1) = SubSeq(s, b, e - 1)
  <2>1. /\ b \in Nat \ {0} /\ e - 1 \in 0..Len(d) /\ e - 1 <= Len(s)
        /\ \A i \in b..e - 1 : i \in 1..Len(d)
    BY <1>1, <1>4
  <2>2. \A i \in b..e - 1 : d[i] = s[i]
    BY <1>4, <2>1
  <2> QED
    BY <1>4, <2>1, <2>2, SamePart
<1> QED
  BY <1>3, <1>5, <1>6 DEF LineAt, s

(* The lines of a text are byte strings, one for each of its line ends     *)
(* that has a line.                                                        *)
LEMMA LinesTyped ==
  ASSUME NEW d \in Seq(Bytes)
  PROVE  LET E == LineEnds(d) IN
         /\ E \in SUBSET (0..Len(d)) /\ E \subseteq 1..Len(d)
         /\ Cardinality(E) \in Nat
         /\ \A k \in 1..Cardinality(E) : Nth(E, k) \in E
         /\ LinesOf(d) = [k \in 1..Cardinality(E) |-> LineAt(d, Nth(E, k))]
         /\ LinesOf(d) \in Seq(Seq(Bytes))
         /\ Len(LinesOf(d)) = Cardinality(E)
<1> DEFINE E == LineEnds(d)
<1>1. Len(d) \in Nat /\ DOMAIN d = 1..Len(d)
  OBVIOUS
<1>2. E \in SUBSET (0..Len(d)) /\ E \subseteq 1..Len(d)
  BY <1>1 DEF LineEnds, LFs
<1>3. ASSUME NEW e \in E PROVE LineAt(d, e) \in Seq(Bytes)
  <2>0. e \in 1..Len(d)
    BY <1>2
  <2>1. PICK b \in 1..e : /\ b = 1 \/ d[b - 1] = LF
                          /\ \A i \in b..e - 1 : d[i] # LF
    BY <2>0, LineHasStart
  <2>2. LineStart(d, e) = b
    BY <2>0, <2>1, LineStartIs
  <2>3. b \in Nat \ {0} /\ e - 1 \in 0..Len(d)
    BY <1>1, <2>0
  <2>4. SubSeq(d, b, e - 1) \in Seq(Bytes)
    BY <2>3, PartTyped
  <2> QED
    BY <2>2, <2>4, TrimmedTyped DEF LineAt
<1> HIDE DEF E
<1>4. Cardinality(E) \in Nat
  <2>1. IsFiniteSet(0..Len(d))
    BY <1>1, FS_Interval
  <2> QED
    BY <1>2, <2>1, FS_Subset, FS_CardinalityType
<1>5. \A k \in 1..Cardinality(E) : Nth(E, k) \in E
  BY <1>1, <1>2, NthIsMember
<1>6. LinesOf(d) = [k \in 1..Cardinality(E) |-> LineAt(d, Nth(E, k))]
  BY DEF LinesOf, E
<1>7. \A k \in 1..Cardinality(E) : LineAt(d, Nth(E, k)) \in Seq(Bytes)
  BY <1>3, <1>5
<1>8. LinesOf(d) \in Seq(Seq(Bytes)) /\ Len(LinesOf(d)) = Cardinality(E)
  BY <1>4, <1>6, <1>7
<1> QED
  BY <1>2, <1>4, <1>5, <1>6, <1>8 DEF E

(* Text without a line end adds no line.                                   *)
LEMMA NoMoreLines ==
  ASSUME NEW d \in Seq(Bytes), NEW t \in Seq(Bytes), LFs(t) = {}
  PROVE  LinesOf(d \o t) = LinesOf(d)
<1>1. LFs(d \o t) = LFs(d) /\ d \o t \in Seq(Bytes)
  <2>1. /\ d \o t \in Seq(Bytes)
        /\ LFs(d \o t) = LFs(d) \cup {Len(d) + i : i \in LFs(t)}
    BY Joined
  <2>2. {Len(d) + i : i \in LFs(t)} = {}
    OBVIOUS
  <2> QED
    BY ONLY <2>1, <2>2
<1>2. \A e \in LFs(d) : e \in 1..Len(d)
  BY DEF LFs
<1>3. LineEnds(d \o t) = LineEnds(d)
  BY <1>1, <1>2, LineStays DEF LineEnds
<1> DEFINE E == LineEnds(d)
<1>4. /\ E \subseteq 1..Len(d)
      /\ \A k \in 1..Cardinality(E) : Nth(E, k) \in E
      /\ LinesOf(d) = [k \in 1..Cardinality(E) |-> LineAt(d, Nth(E, k))]
  BY LinesTyped
<1>5. LinesOf(d \o t) = [k \in 1..Cardinality(E) |-> LineAt(d \o t, Nth(E, k))]
  BY <1>1, <1>3, LinesTyped
<1> HIDE DEF E
<1>6. \A k \in 1..Cardinality(E) : LineAt(d \o t, Nth(E, k)) = LineAt(d, Nth(E, k))
  BY <1>4, LineStays
<1> QED
  BY <1>4, <1>5, <1>6

(* A line after text that is complete is one more line, unless nothing is  *)
(* left of it.                                                             *)
LEMMA OneMoreLine ==
  ASSUME NEW d \in Seq(Bytes), d = <<>> \/ d[Len(d)] = LF,
         NEW h \in Seq(Bytes), h # <<>>, LFs(h) = {Len(h)}
  PROVE  LET line == Trimmed(SubSeq(h, 1, Len(h) - 1)) IN
         LinesOf(d \o h) = IF line = <<>> THEN LinesOf(d)
                                          ELSE Append(LinesOf(d), line)
<1> DEFINE line == Trimmed(SubSeq(h, 1, Len(h) - 1))
           s == d \o h
           m == Len(d) + Len(h)
<1> HIDE DEF line, s, m
<1>1. /\ s \in Seq(Bytes) /\ Len(d) \in Nat /\ Len(h) \in Nat \ {0}
      /\ Len(s) = m
      /\ \A i \in 1..Len(d) : s[i] = d[i]
      /\ \A i \in 1..Len(h) : s[Len(d) + i] = h[i]
      /\ LFs(s) = LFs(d) \cup {m}
  <2>1. Len(h) \in Nat \ {0}
    OBVIOUS
  <2> QED
    BY <2>1, Joined DEF s, m
<1>2. m \in Nat /\ m \in 1..Len(s) /\ Len(d) + 1 \in 1..m
  BY <1>1 DEF m
<1>3. LineStart(s, m) = Len(d) + 1
  <2>1. Len(d) + 1 = 1 \/ s[Len(d) + 1 - 1] = LF
    <3>1. CASE Len(d) = 0
      BY <3>1
    <3>2. CASE Len(d) # 0
      <4>1. d # <<>> /\ Len(d) \in 1..Len(d) /\ Len(d) + 1 - 1 = Len(d)
        BY <1>1, <3>2
      <4> QED
        BY <1>1, <4>1
    <3> QED
      BY <3>1, <3>2
  <2>2. ASSUME NEW i \in Len(d) + 1..m - 1 PROVE s[i] # LF
    <3>1. /\ i - Len(d) \in 1..Len(h) /\ i = Len(d) + (i - Len(d))
          /\ i - Len(d) # Len(h)
      BY <1>1, <2>2 DEF m
    <3>2. s[i] = h[i - Len(d)]
      BY <1>1, <3>1
    <3>3. h[i - Len(d)] # LF
      BY SMTT(30), <3>1 DEF LFs
    <3> QED
      BY <3>2, <3>3
  <2>3. s \in Seq(Bytes) /\ m \in 1..Len(s) /\ Len(d) + 1 \in 1..m
    BY <1>1, <1>2
  <2> QED
    BY ONLY <2>1, <2>2, <2>3, LineStartIs
<1>4. SubSeq(s, Len(d) + 1, m - 1) = SubSeq(h, 1, Len(h) - 1)
  <2>1. /\ Len(d) + 1 \in Int /\ m - 1 \in Int /\ 1 \in Int /\ Len(h) - 1 \in Int
        /\ m - 1 - (Len(d) + 1) + 1 = Len(h) - 1
        /\ Len(h) - 1 - 1 + 1 = Len(h) - 1
        /\ Len(d) + 1 <= m - 1 <=> 1 <= Len(h) - 1
    BY <1>1 DEF m
  <2>2. /\ \A i \in Len(d) + 1..m - 1 : s[i] \in Bytes
        /\ \A i \in 1..Len(h) - 1 : h[i] \in Bytes
    BY <1>1, <1>2
  <2>3. /\ SubSeq(s, Len(d) + 1, m - 1) \in Seq(Bytes)
        /\ Len(SubSeq(s, Len(d) + 1, m - 1)) = IF 1 <= Len(h) - 1 THEN Len(h) - 1 ELSE 0
        /\ \A q \in 1..Len(h) - 1 : SubSeq(s, Len(d) + 1, m - 1)[q] = s[Len(d) + 1 + q - 1]
    BY ONLY SMTT(30), <2>1, <2>2, SubSeqProperties
  <2>4. /\ SubSeq(h, 1, Len(h) - 1) \in Seq(Bytes)
        /\ Len(SubSeq(h, 1, Len(h) - 1)) = IF 1 <= Len(h) - 1 THEN Len(h) - 1 ELSE 0
        /\ \A q \in 1..Len(h) - 1 : SubSeq(h, 1, Len(h) - 1)[q] = h[1 + q - 1]
    BY ONLY <2>1, <2>2, SubSeqProperties
  <2>5. ASSUME NEW q \in 1..Len(SubSeq(h, 1, Len(h) - 1))
        PROVE  SubSeq(s, Len(d) + 1, m - 1)[q] = SubSeq(h, 1, Len(h) - 1)[q]
    <3>1. /\ q \in 1..Len(h) - 1 /\ q \in 1..Len(h)
          /\ Len(d) + 1 + q - 1 = Len(d) + q /\ 1 + q - 1 = q
      BY <1>1, <2>4
    <3> QED
      BY <1>1, <2>3, <2>4, <3>1
  <2> QED
    BY <2>3, <2>4, <2>5, SeqEqual
<1>5. LineAt(s, m) = line
  BY <1>3, <1>4 DEF LineAt, line
<1> DEFINE E == LineEnds(d)
<1>6. /\ E \in SUBSET (0..Len(d)) /\ E \subseteq 1..Len(d)
      /\ \A k \in 1..Cardinality(E) : Nth(E, k) \in E
      /\ LinesOf(d) = [k \in 1..Cardinality(E) |-> LineAt(d, Nth(E, k))]
      /\ LinesOf(d) \in Seq(Seq(Bytes))
      /\ Len(LinesOf(d)) = Cardinality(E)
  BY LinesTyped
<1>7. LineEnds(s) = IF line = <<>> THEN E ELSE E \cup {m}
  <2>1. \A e \in LFs(d) : e \in 1..Len(d)
    BY DEF LFs
  <2>2. \A e \in LFs(d) : LineAt(s, e) = LineAt(d, e)
    BY <2>1, LineStays DEF s
  <2> QED
    BY <1>1, <1>5, <2>2 DEF LineEnds
<1>8. LinesOf(s) = [k \in 1..Cardinality(LineEnds(s)) |-> LineAt(s, Nth(LineEnds(s), k))]
  BY <1>1, LinesTyped
<1> HIDE DEF E
<1>9. \A k \in 1..Cardinality(E) : LineAt(s, Nth(E, k)) = LineAt(d, Nth(E, k))
  BY <1>6, LineStays DEF s
<1>10. CASE line = <<>>
  BY <1>6, <1>7, <1>8, <1>9, <1>10 DEF s, line
<1>11. CASE line # <<>>
  <2> DEFINE c == Cardinality(E)
             T == E \cup {m}
  <2>1. LineEnds(s) = T
    BY <1>7, <1>11
  <2>2. m > Len(d)
    BY <1>1 DEF m
  <2>3. /\ c \in Nat
        /\ Cardinality(T) = c + 1
        /\ \A k \in 1..c : Nth(T, k) = Nth(E, k)
        /\ Nth(T, c + 1) = m
    <3>1. Len(d) \in Nat /\ E \in SUBSET (0..Len(d)) /\ m \in Nat
      BY <1>1, <1>2, <1>6
    <3> QED
      BY ONLY ZenonT(30), <2>2, <3>1, NthExtended
  <2> HIDE DEF c, T
  <2>4. LinesOf(s) = [k \in 1..c + 1 |-> LineAt(s, Nth(T, k))]
    BY <1>8, <2>1, <2>3
  <2>5. Append(LinesOf(d), line) = [k \in 1..c + 1 |-> IF k <= c THEN LinesOf(d)[k] ELSE line]
    BY <1>6, <2>3 DEF c
  <2>6. ASSUME NEW k \in 1..c + 1
        PROVE  LineAt(s, Nth(T, k)) = IF k <= c THEN LinesOf(d)[k] ELSE line
    <3>1. CASE k \in 1..c
      <4>1. Nth(T, k) = Nth(E, k) /\ LinesOf(d)[k] = LineAt(d, Nth(E, k)) /\ k <= c
        BY <1>6, <2>3, <3>1 DEF c
      <4> QED
        BY <1>9, <3>1, <4>1 DEF c
    <3>2. CASE k = c + 1
      BY <1>5, <2>3, <3>2
    <3> QED
      BY <2>3, <3>1, <3>2
  <2>7. LinesOf(s) = Append(LinesOf(d), line)
    BY <2>4, <2>5, <2>6
  <2> QED
    BY <1>11, <2>7 DEF s, line
<1> QED
  BY <1>10, <1>11

----------------------------------------------------------------------------
(* The last lines of a list.                                               *)
LEMMA LastOfIs ==
  ASSUME NEW B, NEW ls \in Seq(B), NEW k \in Nat
  PROVE  LET z == IF Len(ls) > k THEN Len(ls) - k ELSE 0 IN
         /\ z \in Nat /\ Len(ls) \in Nat
         /\ LastOf(ls, k) \in Seq(B)
         /\ Len(LastOf(ls, k)) = Len(ls) - z
         /\ \A i \in 1..Len(ls) - z : LastOf(ls, k)[i] = ls[z + i]
<1> DEFINE z == IF Len(ls) > k THEN Len(ls) - k ELSE 0
<1>1. z \in Nat /\ Len(ls) \in Nat /\ z <= Len(ls)
  OBVIOUS
<1>2. LastOf(ls, k) = SubSeq(ls, z + 1, Len(ls))
  BY DEF LastOf
<1> HIDE DEF z
<1>3. /\ z + 1 \in Int /\ Len(ls) \in Int
      /\ \A i \in z + 1..Len(ls) : ls[i] \in B
  BY <1>1
<1>4. /\ LastOf(ls, k) \in Seq(B)
      /\ Len(LastOf(ls, k)) = IF z + 1 <= Len(ls) THEN Len(ls) - (z + 1) + 1 ELSE 0
      /\ \A i \in 1..Len(ls) - (z + 1) + 1 : LastOf(ls, k)[i] = ls[z + 1 + i - 1]
  BY ONLY <1>2, <1>3, SubSeqProperties
<1>5. /\ Len(LastOf(ls, k)) = Len(ls) - z
      /\ Len(ls) - (z + 1) + 1 = Len(ls) - z
  BY <1>1, <1>4
<1>6. ASSUME NEW i \in 1..Len(ls) - z PROVE LastOf(ls, k)[i] = ls[z + i]
  <2>1. z + 1 + i - 1 = z + i
    BY <1>1
  <2> QED
    BY <1>4, <1>5, <2>1
<1> QED
  BY <1>1, <1>4, <1>5, <1>6 DEF z

(* The ring after one more line holds the last lines of one more.          *)
LEMMA LastAppended ==
  ASSUME NEW B, NEW ls \in Seq(B), NEW l \in B
  PROVE  Appended(LastOf(ls, KeepLines), l) = LastOf(Append(ls, l), KeepLines)
<1> DEFINE K == KeepLines
           r == LastOf(ls, K)
           more == Append(ls, l)
           u == LastOf(more, K)
           z == IF Len(ls) > K THEN Len(ls) - K ELSE 0
           y == IF Len(more) > K THEN Len(more) - K ELSE 0
<1>1. K \in Nat \ {0} /\ K \in Nat
  BY SizesAssumption
<1>2. /\ more \in Seq(B) /\ Len(more) = Len(ls) + 1 /\ Len(ls) \in Nat
      /\ \A i \in 1..Len(ls) : more[i] = ls[i]
      /\ more[Len(ls) + 1] = l
  OBVIOUS
<1>3. /\ z \in Nat /\ r \in Seq(B) /\ Len(r) = Len(ls) - z
      /\ \A i \in 1..Len(ls) - z : r[i] = ls[z + i]
  BY <1>1, LastOfIs
<1> HIDE DEF more, K
<1>4. /\ y \in Nat /\ u \in Seq(B) /\ Len(u) = Len(more) - y
      /\ \A i \in 1..Len(more) - y : u[i] = more[y + i]
  BY <1>1, <1>2, LastOfIs
<1>5. CASE Len(r) < K
  <2>1. z = 0 /\ y = 0
    BY <1>1, <1>2, <1>3, <1>5
  <2> HIDE DEF r, u, z, y
  <2>2. Appended(r, l) = Append(r, l)
    BY <1>5 DEF Appended, K
  <2>3. Append(r, l) \in Seq(B) /\ Len(Append(r, l)) = Len(u)
    BY <1>2, <1>3, <1>4, <2>1
  <2>4. ASSUME NEW i \in 1..Len(Append(r, l)) PROVE Append(r, l)[i] = u[i]
    <3>0. /\ Len(r) = Len(ls) /\ Len(u) = Len(ls) + 1 /\ i \in 1..Len(ls) + 1
          /\ y + i = i /\ u[i] = more[y + i]
      BY <1>2, <1>3, <1>4, <2>1, <2>3
    <3>1. CASE i <= Len(ls)
      <4>1. Append(r, l)[i] = r[i] /\ r[i] = ls[z + i] /\ z + i = i
        BY <1>2, <1>3, <2>1, <3>0, <3>1
      <4> QED
        BY <1>2, <3>0, <3>1, <4>1
    <3>2. CASE i = Len(ls) + 1
      BY <1>2, <1>3, <3>0, <3>2
    <3> QED
      BY <1>2, <3>0, <3>1, <3>2
  <2>5. Append(r, l) = u
    BY <1>4, <2>3, <2>4, SeqEqual
  <2> QED
    BY <2>2, <2>5 DEF r, u, K, more
<1>6. CASE ~(Len(r) < K)
  <2>1. y = z + 1 /\ Len(r) = K /\ Len(u) = K
    BY SMTT(30), <1>1, <1>2, <1>3, <1>4, <1>6
  <2> HIDE DEF r, u, z, y
  <2>2. Appended(r, l) = [i \in 1..K |-> IF i < K THEN r[i + 1] ELSE l]
    BY <1>3, <1>6, <2>1 DEF Appended, K
  <2>3. ASSUME NEW i \in 1..K PROVE u[i] = IF i < K THEN r[i + 1] ELSE l
    <3>0. /\ Len(ls) = z + K /\ i \in 1..Len(more) - y /\ y + i = z + 1 + i
      <4>1. /\ K \in Nat /\ z \in Nat /\ Len(ls) \in Nat
            /\ Len(more) = Len(ls) + 1 /\ K = Len(ls) - z
            /\ y = z + 1 /\ i \in 1..K
        BY <1>1, <1>2, <1>3, <2>1
      <4> QED
        BY ONLY <4>1
    <3>1. u[i] = more[z + 1 + i] /\ Len(ls) = z + K
      BY <1>4, <3>0
    <3>2. CASE i < K
      <4>1. /\ i + 1 \in 1..Len(ls) - z /\ z + 1 + i \in 1..Len(ls)
            /\ z + (i + 1) = z + 1 + i
        BY <1>1, <1>2, <1>3, <3>1, <3>2
      <4> QED
        BY <1>2, <1>3, <3>1, <3>2, <4>1
    <3>3. CASE i = K
      <4>1. z + 1 + i = Len(ls) + 1
        BY <1>1, <1>3, <3>1, <3>3
      <4> QED
        BY <1>1, <1>2, <3>1, <3>3, <4>1
    <3> QED
      BY <1>1, <3>2, <3>3
  <2>4. u = [i \in 1..K |-> u[i]]
    BY <1>1, <1>4, <2>1
  <2> QED
    BY <2>2, <2>3, <2>4 DEF r, u, K, more
<1> QED
  BY <1>5, <1>6

(* The last of the last lines are the last.                                *)
LEMMA LastOfLast ==
  ASSUME NEW B, NEW ls \in Seq(B), NEW j \in Nat, NEW k \in 0..j
  PROVE  LastOf(LastOf(ls, j), k) = LastOf(ls, k)
<1> DEFINE r == LastOf(ls, j)
           z == IF Len(ls) > j THEN Len(ls) - j ELSE 0
           y == IF Len(r) > k THEN Len(r) - k ELSE 0
           x == IF Len(ls) > k THEN Len(ls) - k ELSE 0
<1>0. k \in Nat /\ j \in Nat /\ k <= j
  OBVIOUS
<1>1. /\ z \in Nat /\ Len(ls) \in Nat /\ r \in Seq(B) /\ Len(r) = Len(ls) - z
      /\ \A i \in 1..Len(ls) - z : r[i] = ls[z + i]
  BY LastOfIs
<1>2. /\ x \in Nat /\ LastOf(ls, k) \in Seq(B) /\ Len(LastOf(ls, k)) = Len(ls) - x
      /\ \A i \in 1..Len(ls) - x : LastOf(ls, k)[i] = ls[x + i]
  BY <1>0, LastOfIs
<1> HIDE DEF r
<1>3. /\ y \in Nat /\ LastOf(r, k) \in Seq(B) /\ Len(LastOf(r, k)) = Len(r) - y
      /\ \A i \in 1..Len(r) - y : LastOf(r, k)[i] = r[y + i]
  BY <1>0, <1>1, LastOfIs
<1>4. x = z + y
  <2>0. Len(ls) \in Nat
    BY <1>1
  <2>1. Len(r) = Len(ls) - z /\ z = IF Len(ls) > j THEN Len(ls) - j ELSE 0
    BY <1>1
  <2>2. /\ y = IF Len(r) > k THEN Len(r) - k ELSE 0
        /\ x = IF Len(ls) > k THEN Len(ls) - k ELSE 0
    OBVIOUS
  <2> HIDE DEF x, y, z
  <2>3. CASE Len(ls) > j
    <3>1. z = Len(ls) - j /\ Len(r) = j /\ x = Len(ls) - k
      BY <1>0, <2>0, <2>1, <2>2, <2>3
    <3>2. y = j - k
      BY <1>0, <2>2, <3>1
    <3> QED
      BY <1>0, <2>0, <3>1, <3>2
  <2>4. CASE ~(Len(ls) > j)
    <3>1. z = 0 /\ Len(r) = Len(ls)
      BY <1>0, <2>0, <2>1, <2>4
    <3> QED
      BY <1>0, <2>0, <2>2, <3>1
  <2> QED
    BY <2>3, <2>4
<1> HIDE DEF x, y, z
<1>5. Len(LastOf(r, k)) = Len(LastOf(ls, k))
  BY <1>1, <1>2, <1>3, <1>4
<1>6. ASSUME NEW i \in 1..Len(LastOf(r, k))
      PROVE  LastOf(r, k)[i] = LastOf(ls, k)[i]
  <2>1. /\ i \in 1..Len(r) - y /\ i \in 1..Len(ls) - x
        /\ y + i \in 1..Len(ls) - z /\ z + (y + i) = x + i
    BY <1>1, <1>2, <1>3, <1>4
  <2> QED
    BY <1>1, <1>2, <1>3, <2>1
<1> QED
  BY <1>2, <1>3, <1>5, <1>6, SeqEqual DEF r

----------------------------------------------------------------------------
(* What has been given to Buffer.Write is complete lines, of which the     *)
(* ring holds the last, and what waits for its line end: while the loop    *)
(* runs complete lines may wait too, and none does when the mutex is free. *)
RingInv ==
  /\ \E d \in Seq(Bytes) :
       /\ given = d \o pendng
       /\ d = <<>> \/ d[Len(d)] = LF
       /\ lines = LastOf(LinesOf(d), KeepLines)
  /\ at # "split" => LFs(pendng) = {}

(* One turn of the loop moves the first line that waits to the ring.       *)
LEMMA TakeLineKeeps ==
  ASSUME TypeOK, RingInv, TakeLine
  PROVE  RingInv'
<1>1. PICK d \in Seq(Bytes) :
        /\ given = d \o pendng
        /\ d = <<>> \/ d[Len(d)] = LF
        /\ lines = LastOf(LinesOf(d), KeepLines)
  BY DEF RingInv
<1>2. PICK i \in LFs(pendng) :
        /\ \A j \in LFs(pendng) : i <= j
        /\ LET line == Trimmed(SubSeq(pendng, 1, i - 1)) IN
           lines' = IF line = <<>> THEN lines ELSE Appended(lines, line)
        /\ pendng' = SubSeq(pendng, i + 1, Len(pendng))
  BY DEF TakeLine
<1>3. pendng \in Seq(Bytes) /\ i \in 1..Len(pendng) /\ pendng[i] = LF
  BY DEF TypeOK, LFs
<1> DEFINE h == SubSeq(pendng, 1, i)
           line == Trimmed(SubSeq(pendng, 1, i - 1))
<1>4. /\ h \in Seq(Bytes) /\ Len(h) = i
      /\ pendng' \in Seq(Bytes) /\ pendng = h \o pendng'
  BY <1>2, <1>3, CutAndJoin
<1> HIDE DEF h
<1>5. \A q \in 1..i : h[q] = pendng[q]
  BY <1>4, Joined
<1>6. LFs(h) = {Len(h)} /\ h # <<>>
  <2>1. DOMAIN h = 1..i /\ DOMAIN pendng = 1..Len(pendng)
    BY <1>3, <1>4
  <2>2. ASSUME NEW q \in LFs(h) PROVE q = i
    <3>1. q \in 1..i /\ q \in LFs(pendng)
      BY <1>3, <1>5, <2>1, <2>2 DEF LFs
    <3> QED
      BY <1>2, <1>3, <3>1
  <2>3. i \in LFs(h)
    BY <1>3, <1>5, <2>1 DEF LFs
  <2>4. LFs(h) = {i}
    BY ONLY <2>2, <2>3
  <2>5. h # <<>>
    BY <1>3, <1>4
  <2> QED
    BY <1>4, <2>4, <2>5
<1>7. SubSeq(h, 1, Len(h) - 1) = SubSeq(pendng, 1, i - 1)
  <2>1. /\ 1 \in Nat \ {0} /\ i - 1 \in 0..Len(h) /\ i - 1 <= Len(pendng)
        /\ \A q \in 1..i - 1 : q \in 1..i
    BY <1>3, <1>4
  <2> QED
    BY <1>3, <1>4, <1>5, <2>1, SamePart
<1>8. line \in Seq(Bytes)
  <2>1. 1 \in Nat \ {0} /\ i - 1 \in 0..Len(pendng)
    BY <1>3
  <2> QED
    BY <1>3, <2>1, PartTyped, TrimmedTyped
<1>9. LinesOf(d \o h) = IF line = <<>> THEN LinesOf(d) ELSE Append(LinesOf(d), line)
  BY <1>1, <1>4, <1>6, <1>7, OneMoreLine
<1>10. LinesOf(d) \in Seq(Seq(Bytes))
  BY LinesTyped
<1>11. lines' = IF line = <<>> THEN lines ELSE Appended(lines, line)
  BY <1>2
<1> HIDE DEF line
<1>12. lines' = LastOf(LinesOf(d \o h), KeepLines)
  <2>1. CASE line = <<>>
    BY <1>1, <1>9, <1>11, <2>1
  <2>2. CASE line # <<>>
    BY <1>1, <1>8, <1>9, <1>10, <1>11, <2>2, LastAppended
  <2> QED
    BY <2>1, <2>2
<1>13. given' = (d \o h) \o pendng'
  <2>1. given' = given
    BY DEF TakeLine, history
  <2>2. d \o (h \o pendng') = (d \o h) \o pendng'
    BY ONLY <1>1, <1>4, Regrouped
  <2> QED
    BY <1>1, <1>4, <2>1, <2>2
<1>14. /\ d \o h \in Seq(Bytes)
       /\ (d \o h)[Len(d \o h)] = LF
  <2>1. /\ d \o h \in Seq(Bytes) /\ Len(d \o h) = Len(d) + Len(h)
        /\ \A q \in 1..Len(h) : (d \o h)[Len(d) + q] = h[q]
    BY <1>4, Joined
  <2> QED
    BY <1>3, <1>4, <1>5, <2>1
<1>15. at' = "split"
  BY DEF TakeLine
<1> QED
  BY <1>12, <1>13, <1>14, <1>15 DEF RingInv

LEMMA RingInvHolds == Spec => [](LogInv /\ RingInv)
<1>1. Init => RingInv
  <2> SUFFICES ASSUME Init PROVE RingInv
    OBVIOUS
  <2>1. /\ given = <<>> /\ pendng = <<>> /\ lines = <<>>
        /\ <<>> \in Seq(Bytes) /\ <<>> \o <<>> = <<>> /\ LFs(<<>>) = {}
    BY DEF Init, LFs
  <2>2. LastOf(LinesOf(<<>>), KeepLines) = <<>>
    <3>1. LineEnds(<<>>) = {}
      BY <2>1 DEF LineEnds
    <3>2. Cardinality(LineEnds(<<>>)) = 0
      BY <3>1, FS_EmptySet
    <3>3. /\ LinesOf(<<>>) \in Seq(Seq(Bytes)) /\ Len(LinesOf(<<>>)) = 0
      BY <2>1, <3>2, LinesTyped
    <3>4. KeepLines \in Nat
      BY SizesAssumption
    <3>5. /\ LastOf(LinesOf(<<>>), KeepLines) \in Seq(Seq(Bytes))
          /\ Len(LastOf(LinesOf(<<>>), KeepLines)) = 0
      BY <3>3, <3>4, LastOfIs
    <3> QED
      BY <3>5
  <2> QED
    BY <2>1, <2>2 DEF RingInv
<1>2. ASSUME LogInv, RingInv, [Next]_vars PROVE RingInv'
  <2> USE <1>2 DEF LogInv, history
  <2>1. CASE BeginWrite
    <3>1. PICK d \in Seq(Bytes) :
            /\ given = d \o pendng
            /\ d = <<>> \/ d[Len(d)] = LF
            /\ lines = LastOf(LinesOf(d), KeepLines)
      BY DEF RingInv
    <3>2. Chunk \in Seq(Bytes) /\ pendng \in Seq(Bytes)
      BY <2>1, ChunkTyped DEF BeginWrite, TypeOK
    <3>3. (d \o pendng) \o Chunk = d \o (pendng \o Chunk)
      BY ONLY <3>1, <3>2, Regrouped
    <3>4. /\ given' = d \o pendng' /\ lines' = lines /\ at' = "split"
      BY <2>1, <3>1, <3>3 DEF BeginWrite
    <3> QED
      BY <3>1, <3>4 DEF RingInv
  <2>2. CASE TakeLine
    BY <2>2, TakeLineKeeps
  <2>3. ASSUME UNCHANGED <<given, pendng, lines>>,
               at' # "split" => at # "split" \/ LFs(pendng) = {}
        PROVE  RingInv'
    BY <2>3 DEF RingInv
  <2>4. CASE EndWrite
    BY <2>3, <2>4 DEF EndWrite
  <2>5. CASE UNCHANGED vars
    BY <2>3, <2>5 DEF vars
  <2>6. CASE ReadPipe \/ TeeToOperator
    BY <2>3, <2>6 DEF ReadPipe, TeeToOperator
  <2>7. ASSUME NEW m \in Messages, PrintMessage(m) PROVE RingInv'
    BY <2>3, <2>7 DEF PrintMessage
  <2>8. ASSUME NEW k \in TailSizes, ShowLogs(k) PROVE RingInv'
    BY <2>3, <2>8 DEF ShowLogs
  <2> QED
    BY <2>1, <2>2, <2>4, <2>5, <2>6, <2>7, <2>8 DEF Next, Copying
<1> QED
  BY <1>1, <1>2, LogInvHolds, PTL DEF Spec

(* When nothing but an unfinished line waits, the ring is up to date.      *)
LEMMA RingIsLast ==
  ASSUME TypeOK, RingInv
  PROVE  RingHoldsLast
<1> SUFFICES ASSUME at # "split" PROVE lines = LastOf(LinesOf(given), KeepLines)
  BY DEF RingHoldsLast
<1>1. PICK d \in Seq(Bytes) :
        given = d \o pendng /\ lines = LastOf(LinesOf(d), KeepLines)
  BY DEF RingInv
<1>2. LinesOf(given) = LinesOf(d)
  BY <1>1, NoMoreLines DEF RingInv, TypeOK
<1> QED
  BY <1>1, <1>2

(* However the pipe cuts what is printed into chunks, and wherever a line  *)
(* or its "\r\n" is cut, the ring holds the last lines of all that was     *)
(* given to it, as if that had been split at once.                         *)
THEOREM LogHoldsLast == Spec => []RingHoldsLast
<1>1. LogInv /\ RingInv => RingHoldsLast
  BY RingIsLast DEF LogInv
<1> QED
  BY <1>1, RingInvHolds, PTL

(* What /api/logs answers are the latest lines of what had been given to   *)
(* the ring when it was asked: as many as were asked for, or all that the  *)
(* ring keeps, and never a ring in the middle of an update.                *)
THEOREM LogAnswersLatest == Spec => AnswersAreLatest
<1> DEFINE Latest == answer' # answer =>
             answer'.lines =
               LastOf(LinesOf(given),
                      IF answer'.asked \in 1..KeepLines THEN answer'.asked
                                                        ELSE KeepLines)
<1>1. ASSUME LogInv, RingInv, [Next]_vars PROVE [Latest]_vars
  <2>1. ASSUME answer' # answer PROVE Latest
    <3>1. PICK k \in TailSizes : ShowLogs(k)
      BY <1>1, <2>1 DEF Next, Copying, PrintMessage, ReadPipe, TeeToOperator,
                        BeginWrite, TakeLine, EndWrite, vars
    <3>2. /\ answer'.lines = TailOf(lines, k) /\ answer'.asked = k
          /\ at # "split"
      BY <3>1 DEF ShowLogs
    <3>3. lines = LastOf(LinesOf(given), KeepLines)
      BY <1>1, <3>2, RingIsLast DEF LogInv, RingHoldsLast
    <3>4. /\ LinesOf(given) \in Seq(Seq(Bytes)) /\ k \in Nat
          /\ KeepLines \in Nat /\ lines \in Seq(Seq(Bytes))
          /\ Len(lines) <= KeepLines
      BY <1>1, LinesTyped, SizesAssumption DEF LogInv, TypeOK, RingBounded
    <3>5. CASE k = 0 \/ k > KeepLines
      <4>1. k \notin 1..KeepLines /\ (k = 0 \/ k >= Len(lines))
        BY <3>4, <3>5
      <4> QED
        BY <3>2, <3>3, <4>1 DEF TailOf
    <3>6. CASE ~(k = 0 \/ k > KeepLines)
      <4>1. k \in 1..KeepLines /\ k \in 0..KeepLines
        BY <3>4, <3>6
      <4>2. LastOf(lines, k) = LastOf(LinesOf(given), k)
        BY <3>3, <3>4, <4>1, LastOfLast
      <4>3. TailOf(lines, k) = LastOf(lines, k)
        <5>1. CASE k >= Len(lines)
          <6>1. SubSeq(lines, 0 + 1, Len(lines)) = lines
            BY <3>4, SubSeqFull
          <6>2. ~(Len(lines) > k)
            BY <3>4, <5>1
          <6> QED
            BY <5>1, <6>1, <6>2 DEF TailOf, LastOf
        <5>2. CASE ~(k >= Len(lines))
          BY <4>1, <5>2 DEF TailOf
        <5> QED
          BY <5>1, <5>2
      <4> QED
        BY <3>2, <4>1, <4>2, <4>3
    <3> QED
      BY <3>5, <3>6
  <2> QED
    BY <2>1
<1>2. Spec => [][Latest]_vars
  BY <1>1, RingInvHolds, PTL DEF Spec
<1> QED
  BY <1>2 DEF AnswersAreLatest

============================================================================
