------------------------- MODULE LocalMPRingProofs --------------------------
(***************************************************************************)
(* Theorems about LocalMPRing, for every ring size, header size and set of *)
(* records that fit the ring: a connected reader always finds whole        *)
(* records, and the ring implements the broadcast backlog.                 *)
(*                                                                         *)
(* What a reader has yet to receive is a function defined by recursion on  *)
(* the number of bytes behind the write cursor.  A fact about it for every *)
(* number of bytes is proved by contradiction: the numbers it fails for    *)
(* would have a least one (MinExists), and it is never the least.          *)
(***************************************************************************)
EXTENDS LocalMPRing, SequenceTheorems, WellFoundedInduction, TLAPS

\* What a byte of the ring can be, and the rings.
Byte == [rec : Frame, at : Nat] \cup {Blank}
Rings == [Offset -> Byte]

\* The distance of two cursors, without the remainder.
LEMMA DistanceIs ==
  ASSUME NEW a \in Offset, NEW b \in Offset
  PROVE  /\ Distance(a, b) = IF b >= a THEN b - a ELSE b + QueueSize - a
         /\ Distance(a, b) \in Offset
<1>1. QueueSize \in Nat /\ QueueSize > 0
  BY QueueAssumption
<1>2. CASE b >= a
  BY <1>1, <1>2, SMT DEF Distance, Offset
<1>3. CASE b < a
  BY <1>1, <1>3, SMT DEF Distance, Offset
<1> QED  BY <1>2, <1>3 DEF Offset

\* A cursor after n bytes, at most once around the ring.
LEMMA AdvanceIs ==
  ASSUME NEW a \in Offset, NEW n \in Nat, n <= QueueSize
  PROVE  /\ Advance(a, n) = IF a + n >= QueueSize THEN a + n - QueueSize ELSE a + n
         /\ Advance(a, n) \in Offset
BY QueueAssumption DEF Advance, Offset

\* The bytes that are left after the first record of n bytes.
LEMMA Remaining ==
  ASSUME NEW n \in Offset, NEW len \in Nat \ {0}, len <= n
  PROVE  n - len \in Offset /\ n - len < n /\ len \in 1..n
BY QueueAssumption DEF Offset

\* One step of the definition of Records.
Step(f, bytes, to, n) ==
  LET off == Distance(n, to)
      rec == bytes[off].rec
  IN  IF n = 0 THEN <<>>
      ELSE IF /\ bytes[off].at = 0
              /\ RecordLen(rec) <= n
              /\ Holds(bytes, off, rec, RecordLen(rec))
           THEN <<rec>> \o f[n - RecordLen(rec)]
           ELSE <<Torn>>

\* A set of numbers that is not empty has a least one.
LEMMA MinExists ==
  ASSUME NEW T, T \subseteq Nat, T # {}
  PROVE  \E t \in T : \A u \in T : t <= u
<1>1. PICK t \in T : \A u \in T : <<u, t>> \notin OpToRel(<, Nat)
  BY WFMin, NatLessThanWellFounded, Zenon
<1>2. \A u \in T : u \in Nat /\ t \in Nat /\ ~(u < t)
  BY <1>1, Zenon DEF OpToRel
<1>3. \A u \in T : t <= u
  BY <1>2
<1> QED  BY <1>3

\* A record named by a byte of the ring is at least a header long.
LEMMA LenOfByte ==
  ASSUME NEW bytes \in Rings, NEW off \in Offset
  PROVE  /\ RecordLen(bytes[off].rec) \in Nat \ {0}
         /\ bytes[off].at \in Nat => bytes[off].rec \in Frame
<1>1. HeaderLen \in Nat \ {0}
  BY QueueAssumption
<1>2. CASE bytes[off] = Blank
  BY <1>1, <1>2 DEF Blank, RecordLen
<1>3. CASE bytes[off] \in [rec : Frame, at : Nat]
  BY <1>1, <1>3, RingAssumption DEF RecordLen
<1> QED  BY <1>2, <1>3 DEF Rings, Byte

\* The list for n bytes depends on the lists for fewer bytes alone.
LEMMA StepLocal ==
  ASSUME NEW bytes \in Rings, NEW to \in Offset, NEW n \in Offset,
         NEW f, NEW g, \A m \in 0..(n - 1) : f[m] = g[m]
  PROVE  Step(f, bytes, to, n) = Step(g, bytes, to, n)
<1> DEFINE off == Distance(n, to)
           len == RecordLen(bytes[off].rec)
<1>1. off \in Offset
  BY DistanceIs
<1>2. len \in Nat \ {0}
  BY <1>1, LenOfByte
<1>3. len <= n => n - len \in 0..(n - 1)
  BY <1>2 DEF Offset
<1>4. len <= n => f[n - len] = g[n - len]
  BY <1>3
<1> QED  BY <1>4, Zenon DEF Step

\* So there is a function that satisfies the recursion: one for the first N
\* numbers extends to one more.
LEMMA StepSolvable ==
  ASSUME NEW bytes \in Rings, NEW to \in Offset
  PROVE  \E g : g = [n \in Offset |-> Step(g, bytes, to, n)]
<1> DEFINE S(f, n) == Step(f, bytes, to, n)
           Solves(N, g) == g = [n \in 0..(N - 1) |-> S(g, n)]
           T == {N \in 0..QueueSize : ~ \E g : Solves(N, g)}
<1>q. QueueSize \in Nat /\ Offset = 0..(QueueSize - 1)
  BY QueueAssumption DEF Offset
<1>0. \E g : Solves(0, g)
  <2> DEFINE g == [n \in 0..(0 - 1) |-> <<>>]
  <2>1. 0..(0 - 1) = {}
    OBVIOUS
  <2>2. g = [n \in 0..(0 - 1) |-> S(g, n)]
    <3> HIDE DEF S
    <3> QED  BY <2>1
  <2> QED  BY <2>2, Zenon
<1>1. ASSUME NEW N \in 1..QueueSize, \E g : Solves(N - 1, g)
      PROVE  \E g : Solves(N, g)
  <2>1. PICK g : Solves(N - 1, g)
    BY <1>1
  <2> DEFINE h == [n \in 0..(N - 1) |-> IF n < N - 1 THEN g[n] ELSE S(g, N - 1)]
  <2>2. \A n \in 0..(N - 2) : h[n] = g[n] /\ g[n] = S(g, n)
    <3> HIDE DEF S
    <3> QED  BY <1>q, <2>1
  <2>3. \A n \in 0..(N - 1) : S(h, n) = S(g, n)
    <3> SUFFICES ASSUME NEW n \in 0..(N - 1) PROVE S(h, n) = S(g, n)
      OBVIOUS
    <3> HIDE DEF h
    <3>1. n \in Offset /\ \A m \in 0..(n - 1) : h[m] = g[m]
      BY <1>q, <2>2
    <3> QED  BY <3>1, StepLocal
  <2>4. \A n \in 0..(N - 1) : h[n] = S(h, n)
    <3> SUFFICES ASSUME NEW n \in 0..(N - 1) PROVE h[n] = S(h, n)
      OBVIOUS
    <3>1. CASE n < N - 1
      <4> HIDE DEF h, S
      <4> QED  BY <3>1, <2>2, <2>3, <1>q
    <3>2. CASE n = N - 1
      <4>1. h[n] = S(g, n)
        <5> HIDE DEF S
        <5> QED  BY <3>2
      <4> HIDE DEF h, S
      <4> QED  BY <4>1, <2>3
    <3> QED  BY <3>1, <3>2, <1>q
  <2>5. h = [n \in 0..(N - 1) |-> h[n]]
    OBVIOUS
  <2>6. h = [n \in 0..(N - 1) |-> S(h, n)]
    <3> HIDE DEF h, S
    <3> QED  BY <2>4, <2>5
  <2> HIDE DEF h
  <2> QED  BY <2>6
<1>2. T = {}
  <2> SUFFICES ASSUME T # {} PROVE FALSE
    OBVIOUS
  <2>0. T \subseteq Nat
    BY <1>q
  <2>1. PICK N \in T : \A M \in T : N <= M
    <3> HIDE DEF T
    <3> QED  BY MinExists, <2>0
  <2> HIDE DEF Solves
  <2>2. N \in 1..QueueSize
    BY <1>0, <2>1, <1>q
  <2>3. N - 1 \in 0..QueueSize /\ N - 1 \notin T
    BY <2>1, <2>2, <1>q
  <2> QED  BY <1>1, <2>1, <2>2, <2>3
<1>3. QueueSize \in 0..QueueSize
  BY <1>q
<1>4. \E g : Solves(QueueSize, g)
  <2> HIDE DEF Solves
  <2> QED BY <1>2, <1>3
<1> QED  BY <1>4, <1>q

\* Records is such a function.
LEMMA RecordsIs ==
  ASSUME NEW bytes \in Rings, NEW to \in Offset
  PROVE  Records(bytes, to) = [n \in Offset |-> Step(Records(bytes, to), bytes, to, n)]
<1> DEFINE solves(g) == g = [n \in Offset |-> Step(g, bytes, to, n)]
<1>1. Records(bytes, to) = CHOOSE g : solves(g)
  BY Zenon DEF Records, Step
<1>2. \E g : solves(g)
  BY StepSolvable
<1> HIDE DEF solves
<1>3. solves(Records(bytes, to))
  BY <1>1, <1>2
<1> QED  BY <1>3 DEF solves

-----------------------------------------------------------------------------
\* The bytes of a backlog: the partial sums that Bytes is defined by.
Sum(f, queue, n) == IF n = 0 THEN 0 ELSE f[n - 1] + RecordLen(queue[n])
Sums(queue) == CHOOSE f : f = [n \in 0..Len(queue) |-> Sum(f, queue, n)]

\* There are such sums, by the same argument.
LEMMA SumSolvable ==
  ASSUME NEW queue \in Seq(Frame)
  PROVE  \E f : f = [n \in 0..Len(queue) |-> Sum(f, queue, n)]
<1> DEFINE S(f, n) == Sum(f, queue, n)
           Solves(N, f) == f = [n \in 0..N |-> S(f, n)]
           T == {N \in 0..Len(queue) : ~ \E f : Solves(N, f)}
<1>q. Len(queue) \in Nat
  OBVIOUS
<1>0. \E f : Solves(0, f)
  <2> DEFINE f == [n \in 0..0 |-> 0]
  <2>1. f = [n \in 0..0 |-> S(f, n)]
    BY DEF Sum
  <2> QED  BY <2>1, Zenon
<1>1. ASSUME NEW N \in 1..Len(queue), \E f : Solves(N - 1, f)
      PROVE  \E f : Solves(N, f)
  <2>1. PICK f : Solves(N - 1, f)
    BY <1>1
  <2> DEFINE h == [n \in 0..N |-> IF n < N THEN f[n] ELSE S(f, N)]
  <2>2. \A n \in 0..(N - 1) : h[n] = f[n] /\ f[n] = S(f, n)
    <3> HIDE DEF S
    <3>1. \A n \in 0..(N - 1) : f[n] = S(f, n)
      BY <2>1, Zenon
    <3>2. \A n \in 0..(N - 1) : h[n] = f[n]
      <4>1. \A n \in 0..(N - 1) : n \in 0..N /\ n < N
        BY <1>q
      <4> QED  BY <4>1, Zenon
    <3> QED  BY <3>1, <3>2
  <2>3. \A n \in 0..N : S(h, n) = S(f, n)
    <3> HIDE DEF h
    <3> QED  BY <2>2 DEF Sum
  <2>4. \A n \in 0..N : h[n] = S(h, n)
    <3> SUFFICES ASSUME NEW n \in 0..N PROVE h[n] = S(h, n)
      OBVIOUS
    <3>1. CASE n < N
      <4> HIDE DEF h, S
      <4> QED  BY <3>1, <2>2, <2>3, <1>q
    <3>2. CASE n = N
      <4>1. h[n] = S(f, n)
        <5> HIDE DEF S
        <5> QED  BY <3>2
      <4> HIDE DEF h, S
      <4> QED  BY <4>1, <2>3
    <3> QED  BY <3>1, <3>2, <1>q
  <2>5. h = [n \in 0..N |-> h[n]]
    OBVIOUS
  <2>6. h = [n \in 0..N |-> S(h, n)]
    <3> HIDE DEF h, S
    <3> QED  BY <2>4, <2>5
  <2> HIDE DEF h
  <2> QED  BY <2>6
<1>2. T = {}
  <2> SUFFICES ASSUME T # {} PROVE FALSE
    OBVIOUS
  <2>0. T \subseteq Nat
    BY <1>q
  <2>1. PICK N \in T : \A M \in T : N <= M
    <3> HIDE DEF T
    <3> QED  BY MinExists, <2>0
  <2> HIDE DEF Solves
  <2>2. N \in 1..Len(queue)
    BY <1>0, <2>1, <1>q
  <2>3. N - 1 \in 0..Len(queue) /\ N - 1 \notin T
    BY <2>1, <2>2, <1>q
  <2> QED  BY <1>1, <2>1, <2>2, <2>3
<1>4. \E f : Solves(Len(queue), f)
  <2>1. Len(queue) \in 0..Len(queue)
    BY <1>q
  <2> HIDE DEF Solves
  <2> QED BY <1>2, <2>1
<1> QED  BY <1>4

\* The recursion of the sums.
LEMMA BytesIs ==
  ASSUME NEW queue \in Seq(Frame)
  PROVE  /\ Bytes(queue) = Sums(queue)[Len(queue)]
         /\ Sums(queue)[0] = 0
         /\ \A n \in 1..Len(queue) :
              Sums(queue)[n] = Sums(queue)[n - 1] + RecordLen(queue[n])
<1> DEFINE solves(f) == f = [n \in 0..Len(queue) |-> Sum(f, queue, n)]
<1>1. Bytes(queue) = Sums(queue)[Len(queue)]
  BY Zenon DEF Bytes, Sums, Sum
<1>2. \E f : solves(f)
  BY SumSolvable
<1>3. Sums(queue) = CHOOSE f : solves(f)
  BY Zenon DEF Sums
<1>4. solves(Sums(queue))
  <2> HIDE DEF solves
  <2> QED  BY <1>2, <1>3
<1>5. Sums(queue) = [n \in 0..Len(queue) |-> Sum(Sums(queue), queue, n)]
  BY <1>4
<1>6. \A n \in 0..Len(queue) : Sums(queue)[n] = Sum(Sums(queue), queue, n)
  BY <1>5, Zenon
<1>7. \A n \in 0..Len(queue) : Sums(queue)[n] =
          IF n = 0 THEN 0 ELSE Sums(queue)[n - 1] + RecordLen(queue[n])
  BY <1>6, Zenon DEF Sum
<1>8. Len(queue) \in Nat
  OBVIOUS
<1> QED  BY <1>1, <1>7, <1>8

\* The sums are numbers.
LEMMA SumsType ==
  ASSUME NEW queue \in Seq(Frame)
  PROVE  \A n \in 0..Len(queue) : Sums(queue)[n] \in Nat
<1> DEFINE T == {n \in 0..Len(queue) : Sums(queue)[n] \notin Nat}
<1> SUFFICES ASSUME T # {} PROVE FALSE
  OBVIOUS
<1>1. T \subseteq Nat
  OBVIOUS
<1>2. PICK n \in T : \A m \in T : n <= m
  <2> HIDE DEF T
  <2> QED  BY <1>1, MinExists
<1>3. n \in 1..Len(queue) /\ Sums(queue)[n - 1] \in Nat
  BY <1>2, BytesIs
<1>4. RecordLen(queue[n]) \in Nat
  BY <1>3, ElementOfSeq, RingAssumption, QueueAssumption DEF RecordLen
<1> QED  BY <1>2, <1>3, <1>4, BytesIs

\* A record at the front of a backlog adds its length.
LEMMA BytesCons ==
  ASSUME NEW queue \in Seq(Frame), NEW rec \in Frame
  PROVE  /\ Bytes(<<>>) = 0
         /\ Bytes(queue) \in Nat
         /\ Bytes(<<rec>> \o queue) = RecordLen(rec) + Bytes(queue)
<1> DEFINE longer == <<rec>> \o queue
           T == {n \in 0..Len(queue) :
                   Sums(longer)[n + 1] # RecordLen(rec) + Sums(queue)[n]}
<1>1. /\ longer \in Seq(Frame) /\ Len(longer) = Len(queue) + 1 /\ Len(queue) \in Nat
      /\ longer[1] = rec /\ \A n \in 1..Len(queue) : longer[n + 1] = queue[n]
  OBVIOUS
<1>2. RecordLen(rec) \in Nat
  BY RingAssumption, QueueAssumption DEF RecordLen
<1> HIDE DEF longer
<1>3. /\ Sums(longer)[0] = 0
      /\ \A n \in 1..Len(longer) : Sums(longer)[n] = Sums(longer)[n - 1] + RecordLen(longer[n])
      /\ Bytes(longer) = Sums(longer)[Len(longer)]
  BY <1>1, BytesIs
<1>4. Sums(longer)[1] = RecordLen(rec)
  BY <1>1, <1>2, <1>3
<1>5. T = {}
  <2> SUFFICES ASSUME T # {} PROVE FALSE
    OBVIOUS
  <2>1. T \subseteq Nat
    OBVIOUS
  <2>2. PICK n \in T : \A m \in T : n <= m
    <3> HIDE DEF T
    <3> QED  BY <2>1, MinExists
  <2>3. n \in 1..Len(queue)
    BY <1>2, <1>4, <2>2, BytesIs
  <2>4. Sums(longer)[n] = RecordLen(rec) + Sums(queue)[n - 1]
    <3>1. n - 1 \in 0..Len(queue) /\ ~(n <= n - 1)
      BY <2>3
    <3>2. n - 1 \notin T
      BY <2>2, <3>1
    <3>3. (n - 1) + 1 = n
      BY <2>3
    <3> QED  BY <3>1, <3>2, <3>3
  <2>5. Sums(longer)[n + 1] = Sums(longer)[n] + RecordLen(queue[n])
    <3>1. n + 1 \in 1..Len(longer) /\ (n + 1) - 1 = n
      BY <1>1, <2>3
    <3> QED  BY <1>1, <1>3, <2>3, <3>1
  <2>6. Sums(queue)[n] = Sums(queue)[n - 1] + RecordLen(queue[n])
    BY <2>3, BytesIs
  <2>7. RecordLen(queue[n]) \in Nat /\ Sums(queue)[n - 1] \in Nat
    <3>1. queue[n] \in Frame
      BY <2>3, ElementOfSeq
    <3>2. RecordLen(queue[n]) \in Nat
      BY <3>1, RingAssumption, QueueAssumption DEF RecordLen
    <3>3. n - 1 \in 0..Len(queue)
      BY <2>3
    <3> QED  BY <3>2, <3>3, SumsType
  <2> QED  BY <1>2, <2>2, <2>4, <2>5, <2>6, <2>7
<1>6. Bytes(<<>>) = 0
  <2>1. <<>> \in Seq(Frame) /\ Len(<<>>) = 0
    OBVIOUS
  <2> QED  BY <2>1, BytesIs
<1>7. Bytes(queue) \in Nat
  BY BytesIs, SumsType, <1>1
<1>8. Sums(longer)[Len(queue) + 1] = RecordLen(rec) + Sums(queue)[Len(queue)]
  BY <1>5, <1>1
<1> QED  BY <1>1, <1>3, <1>6, <1>7, <1>8, BytesIs DEF longer

-----------------------------------------------------------------------------
\* Reading the ring back: the recursion of Records, at one number of bytes.
LEMMA RecordsStep ==
  ASSUME NEW bytes \in Rings, NEW to \in Offset, NEW n \in Offset
  PROVE  Records(bytes, to)[n] = Step(Records(bytes, to), bytes, to, n)
<1>1. Records(bytes, to) = [m \in Offset |-> Step(Records(bytes, to), bytes, to, m)]
  BY RecordsIs
<1> QED  BY <1>1, Zenon

\* No bytes hold no records.
LEMMA NothingBehind ==
  ASSUME NEW bytes \in Rings, NEW to \in Offset
  PROVE  0 \in Offset /\ Records(bytes, to)[0] = <<>>
<1>1. 0 \in Offset
  BY QueueAssumption DEF Offset
<1> QED  BY <1>1, RecordsStep DEF Step

\* What is read back are records, or Torn.
LEMMA RecordsType ==
  ASSUME NEW bytes \in Rings, NEW to \in Offset
  PROVE  \A n \in Offset : Records(bytes, to)[n] \in Seq(Frame \cup {Torn})
<1> DEFINE records == Records(bytes, to)
           T == {n \in Offset : records[n] \notin Seq(Frame \cup {Torn})}
<1> SUFFICES ASSUME T # {} PROVE FALSE
  OBVIOUS
<1>0. T \subseteq Nat
  BY DEF Offset
<1>1. PICK n \in T : \A m \in T : n <= m
  <2> HIDE DEF T
  <2> QED  BY <1>0, MinExists
<1> DEFINE off == Distance(n, to)
           rec == bytes[off].rec
<1>2. n \in Offset /\ off \in Offset
  BY DistanceIs
<1>3. RecordLen(rec) \in Nat \ {0} /\ (bytes[off].at = 0 => rec \in Frame)
  BY <1>2, LenOfByte
<1>4. RecordLen(rec) <= n => n - RecordLen(rec) \in Offset /\ n - RecordLen(rec) < n
  <2> HIDE DEF rec
  <2> QED  BY <1>2, <1>3, Remaining
<1>5. RecordLen(rec) <= n => records[n - RecordLen(rec)] \in Seq(Frame \cup {Torn})
  <2> SUFFICES ASSUME RecordLen(rec) <= n
               PROVE  n - RecordLen(rec) \notin T
    BY <1>4
  <2>1. ~(n <= n - RecordLen(rec))
    BY <1>2, <1>3 DEF Offset
  <2> QED  BY <1>1, <2>1
<1>6. records[n] = Step(records, bytes, to, n)
  BY <1>2, RecordsStep
<1>7. /\ <<>> \in Seq(Frame \cup {Torn})
      /\ <<Torn>> \in Seq(Frame \cup {Torn})
      /\ bytes[off].at = 0 /\ RecordLen(rec) <= n =>
           <<rec>> \o records[n - RecordLen(rec)] \in Seq(Frame \cup {Torn})
  BY <1>3, <1>5
<1> HIDE DEF records
<1>8. records[n] \in Seq(Frame \cup {Torn})
  BY <1>6, <1>7 DEF Step
<1> QED  BY <1>1, <1>8

\* Torn is not a record that may be sent.
LEMMA TornIsNoFrame == Torn \notin Frame
BY RingAssumption DEF Torn

\* Where a list of whole records starts, a whole record starts.
LEMMA FrontRecord ==
  ASSUME NEW bytes \in Rings, NEW to \in Offset, NEW n \in Offset, n # 0,
         Records(bytes, to)[n] \in Seq(Frame)
  PROVE  LET off == Distance(n, to)
             rec == bytes[off].rec
             rest == Records(bytes, to)[n - RecordLen(rec)]
         IN  /\ rec \in Frame
             /\ bytes[off].at = 0
             /\ RecordLen(rec) \in 1..n
             /\ Holds(bytes, off, rec, RecordLen(rec))
             /\ n - RecordLen(rec) \in Offset
             /\ rest \in Seq(Frame)
             /\ Records(bytes, to)[n] = <<rec>> \o rest
<1> DEFINE records == Records(bytes, to)
           off == Distance(n, to)
           rec == bytes[off].rec
           rest == records[n - RecordLen(rec)]
<1>1. off \in Offset
  BY DistanceIs
<1>2. RecordLen(rec) \in Nat \ {0} /\ (bytes[off].at = 0 => rec \in Frame)
  BY <1>1, LenOfByte
<1>3. records[n] # <<Torn>>
  <2>1. <<Torn>> \notin Seq(Frame)
    BY TornIsNoFrame
  <2> QED  BY <2>1
<1>4. records[n] = Step(records, bytes, to, n)
  BY RecordsStep
<1>5. /\ bytes[off].at = 0
      /\ RecordLen(rec) <= n
      /\ Holds(bytes, off, rec, RecordLen(rec))
      /\ records[n] = <<rec>> \o rest
  BY <1>3, <1>4, Zenon DEF Step
<1>6. n - RecordLen(rec) \in Offset /\ RecordLen(rec) \in 1..n
  <2> HIDE DEF rec
  <2> QED  BY <1>2, <1>5, Remaining
<1>7. rest \in Seq(Frame \cup {Torn})
  BY <1>6, RecordsType
<1>8. rest \in Seq(Frame)
  <2> HIDE DEF rest, rec
  <2>1. records[n] \in Seq(Frame)
    OBVIOUS
  <2> HIDE DEF records
  <2>2. /\ Len(rest) \in Nat /\ Len(records[n]) = Len(rest) + 1
        /\ \A k \in 1..Len(rest) : records[n][k + 1] = rest[k]
    BY <1>5, <1>7, <1>2
  <2>3. \A k \in 1..Len(rest) : rest[k] \in Frame
    <3> SUFFICES ASSUME NEW k \in 1..Len(rest) PROVE rest[k] \in Frame
      OBVIOUS
    <3>1. k + 1 \in 1..Len(records[n])
      BY <2>2
    <3> QED  BY <2>1, <2>2, <3>1, ElementOfSeq
  <2> QED  BY <1>7, <2>2, <2>3
<1> QED  BY <1>2, <1>5, <1>6, <1>8

\* Whole records fill the bytes they were read from.
LEMMA RecordsBytes ==
  ASSUME NEW bytes \in Rings, NEW to \in Offset
  PROVE  \A n \in Offset : Records(bytes, to)[n] \in Seq(Frame)
            => Bytes(Records(bytes, to)[n]) = n
<1> DEFINE records == Records(bytes, to)
           T == {n \in Offset : records[n] \in Seq(Frame) /\ Bytes(records[n]) # n}
<1> SUFFICES ASSUME T # {} PROVE FALSE
  OBVIOUS
<1>0. T \subseteq Nat
  BY DEF Offset
<1>1. PICK n \in T : \A m \in T : n <= m
  <2> HIDE DEF T
  <2> QED  BY <1>0, MinExists
<1>2. n \in Offset /\ records[n] \in Seq(Frame)
  BY <1>1
<1>3. CASE n = 0
  <2>1. Bytes(<<>>) = 0
    <3>1. <<>> \in Seq(Frame) /\ Len(<<>>) = 0
      OBVIOUS
    <3> QED  BY <3>1, BytesIs
  <2> QED  BY <1>1, <1>3, <2>1, NothingBehind
<1>4. CASE n # 0
  <2> DEFINE rec == bytes[Distance(n, to)].rec
             m == n - RecordLen(rec)
  <2>1. /\ rec \in Frame
        /\ RecordLen(rec) \in 1..n
        /\ m \in Offset
        /\ records[m] \in Seq(Frame)
        /\ records[n] = <<rec>> \o records[m]
    BY <1>2, <1>4, FrontRecord
  <2> HIDE DEF rec
  <2>2. ~(n <= m)
    BY <1>2, <2>1 DEF Offset
  <2>3. m \notin T
    BY <1>1, <2>2
  <2>4. Bytes(records[m]) = m
    BY <2>1, <2>3
  <2>5. Bytes(records[n]) = RecordLen(rec) + m
    BY <2>1, <2>4, BytesCons
  <2>6. RecordLen(rec) + m = n
    BY <1>2, <2>1 DEF Offset
  <2> QED  BY <1>1, <2>5, <2>6
<1> QED  BY <1>3, <1>4

-----------------------------------------------------------------------------
\* Distance also goes back: n bytes behind a cursor.
LEMMA CursorsBack ==
  ASSUME NEW a \in Offset, NEW b \in Offset
  PROVE  /\ Distance(Distance(a, b), b) = a
         /\ Distance(a, b) = 0 <=> a = b
<1>1. QueueSize \in Nat /\ QueueSize > 0
  BY QueueAssumption
<1> DEFINE c == Distance(a, b)
<1>2. c \in Offset /\ c = IF b >= a THEN b - a ELSE b + QueueSize - a
  BY DistanceIs
<1> HIDE DEF c
<1>3. Distance(c, b) = IF b >= c THEN b - c ELSE b + QueueSize - c
  BY <1>2, DistanceIs
<1>4. Distance(c, b) = a /\ (c = 0 <=> a = b)
  BY <1>1, <1>2, <1>3 DEF Offset
<1> QED  BY <1>4 DEF c

\* A reader that moves n bytes on is n bytes nearer.
LEMMA Nearer ==
  ASSUME NEW a \in Offset, NEW b \in Offset, NEW n \in 0..Distance(a, b)
  PROVE  /\ Advance(a, n) \in Offset
         /\ Distance(Advance(a, n), b) = Distance(a, b) - n
<1>1. QueueSize \in Nat /\ QueueSize > 0
  BY QueueAssumption
<1>2. Distance(a, b) \in Offset /\ Distance(a, b) = IF b >= a THEN b - a ELSE b + QueueSize - a
  BY DistanceIs
<1>3. n \in Nat /\ n <= QueueSize
  BY <1>1, <1>2 DEF Offset
<1>4. /\ Advance(a, n) = IF a + n >= QueueSize THEN a + n - QueueSize ELSE a + n
      /\ Advance(a, n) \in Offset
  BY <1>3, AdvanceIs
<1> DEFINE c == Advance(a, n)
<1> HIDE DEF c
<1>5. Distance(c, b) = IF b >= c THEN b - c ELSE b + QueueSize - c
  BY <1>4, DistanceIs DEF c
<1>6. Distance(c, b) = Distance(a, b) - n
  BY <1>1, <1>2, <1>3, <1>4, <1>5 DEF Offset, c
<1> QED  BY <1>4, <1>6 DEF c

\* Two moves are one.
LEMMA AdvanceTwice ==
  ASSUME NEW a \in Offset, NEW m \in Nat, NEW n \in Nat, m + n <= QueueSize
  PROVE  Advance(Advance(a, m), n) = Advance(a, m + n)
BY QueueAssumption DEF Advance, Offset

\* The ring after a record has been written, header and payload at once.
Written(bytes, to, rec) ==
  [p \in Offset |-> IF Distance(to, p) < RecordLen(rec)
                    THEN [rec |-> rec, at |-> Distance(to, p)]
                    ELSE bytes[p]]

\* Send writes it in two pieces, each of which may wrap.
LEMMA WrittenIs ==
  ASSUME NEW bytes \in Rings, NEW to \in Offset, NEW rec \in Frame
  PROVE  /\ FIFOWrite(FIFOWrite(bytes, to, rec, 0, HeaderLen),
                      Advance(to, HeaderLen), rec, HeaderLen, rec.len)
              = Written(bytes, to, rec)
         /\ Written(bytes, to, rec) \in Rings
         /\ RecordLen(rec) \in Nat \ {0} /\ RecordLen(rec) < QueueSize
         /\ Advance(Advance(to, HeaderLen), rec.len) = Advance(to, RecordLen(rec))
         /\ Advance(to, RecordLen(rec)) \in Offset
<1>1. /\ HeaderLen \in Nat \ {0} /\ rec.len \in Nat /\ HeaderLen + rec.len < QueueSize
      /\ QueueSize \in Nat \ {0} /\ RecordLen(rec) = HeaderLen + rec.len
  BY QueueAssumption, RingAssumption DEF RecordLen
<1> DEFINE mid == Advance(to, HeaderLen)
           head == FIFOWrite(bytes, to, rec, 0, HeaderLen)
           all == FIFOWrite(head, mid, rec, HeaderLen, rec.len)
<1>2. /\ mid \in Offset
      /\ mid = IF to + HeaderLen >= QueueSize THEN to + HeaderLen - QueueSize ELSE to + HeaderLen
  BY <1>1, AdvanceIs
<1> HIDE DEF mid
<1>3. ASSUME NEW p \in Offset
      PROVE  /\ Distance(to, p) < HeaderLen =>
                  /\ ~(Distance(mid, p) < rec.len)
                  /\ 0 + Distance(to, p) = Distance(to, p)
                  /\ Distance(to, p) < HeaderLen + rec.len
             /\ ~(Distance(to, p) < HeaderLen) =>
                  /\ HeaderLen + Distance(mid, p) = Distance(to, p)
                  /\ Distance(mid, p) < rec.len <=> Distance(to, p) < HeaderLen + rec.len
  <2>1. Distance(to, p) = IF p >= to THEN p - to ELSE p + QueueSize - to
    BY DistanceIs
  <2>2. Distance(mid, p) = IF p >= mid THEN p - mid ELSE p + QueueSize - mid
    BY <1>2, DistanceIs
  <2> QED  BY <1>1, <1>2, <2>1, <2>2 DEF Offset
<1>4. ASSUME NEW p \in Offset
      PROVE  all[p] = Written(bytes, to, rec)[p]
  <2>1. head[p] = IF Distance(to, p) < HeaderLen
                  THEN [rec |-> rec, at |-> 0 + Distance(to, p)] ELSE bytes[p]
    BY Zenon DEF FIFOWrite
  <2>2. all[p] = IF Distance(mid, p) < rec.len
                 THEN [rec |-> rec, at |-> HeaderLen + Distance(mid, p)] ELSE head[p]
    <3> HIDE DEF head
    <3> QED  BY Zenon DEF FIFOWrite
  <2>3. Written(bytes, to, rec)[p] = IF Distance(to, p) < HeaderLen + rec.len
                                     THEN [rec |-> rec, at |-> Distance(to, p)] ELSE bytes[p]
    BY <1>1, Zenon DEF Written
  <2> HIDE DEF head, all
  <2>4. CASE Distance(to, p) < HeaderLen
    <3>1. all[p] = head[p]
      BY <1>3, <2>2, <2>4
    <3>2. head[p] = [rec |-> rec, at |-> Distance(to, p)]
      BY <1>3, <2>1, <2>4
    <3> QED  BY <1>3, <2>3, <2>4, <3>1, <3>2
  <2>5. CASE ~(Distance(to, p) < HeaderLen)
    <3>1. head[p] = bytes[p]
      BY <2>1, <2>5
    <3> QED  BY <1>3, <2>2, <2>3, <2>5, <3>1
  <2> QED  BY <2>4, <2>5
<1>5. all = Written(bytes, to, rec)
  <2>1. all = [p \in Offset |-> all[p]]
    BY Zenon DEF FIFOWrite
  <2>2. Written(bytes, to, rec) = [p \in Offset |-> Written(bytes, to, rec)[p]]
    BY Zenon DEF Written
  <2> HIDE DEF all
  <2> QED  BY <1>4, <2>1, <2>2, Zenon
<1>6. Written(bytes, to, rec) \in Rings
  <2>1. \A p \in Offset : Distance(to, p) \in Nat
    BY DistanceIs DEF Offset
  <2>2. \A p \in Offset : bytes[p] \in Byte
    BY DEF Rings
  <2>3. \A p \in Offset : [rec |-> rec, at |-> Distance(to, p)] \in Byte
    BY <2>1 DEF Byte
  <2> QED  BY <2>2, <2>3 DEF Written, Rings
<1>7. Advance(Advance(to, HeaderLen), rec.len) = Advance(to, RecordLen(rec))
  BY <1>1, AdvanceTwice
<1>8. Advance(to, RecordLen(rec)) \in Offset
  BY <1>1, AdvanceIs
<1> QED  BY <1>1, <1>5, <1>6, <1>7, <1>8 DEF mid

\* A record that leaves a byte free overwrites nothing of the last n bytes.
LEMMA Untouched ==
  ASSUME NEW bytes \in Rings, NEW to \in Offset, NEW rec \in Frame,
         NEW n \in Offset, n + RecordLen(rec) < QueueSize, NEW k \in 0..(n - 1)
  PROVE  Written(bytes, to, rec)[Advance(Distance(n, to), k)]
            = bytes[Advance(Distance(n, to), k)]
<1> DEFINE off == Distance(n, to)
           p == Advance(off, k)
<1>1. off \in Offset /\ Distance(off, to) = n
  BY CursorsBack, DistanceIs
<1>2. n \in Nat /\ k \in 0..n
  BY DEF Offset
<1> HIDE DEF off
<1>3. p \in Offset /\ Distance(p, to) = n - k
  BY <1>1, <1>2, Nearer
<1> HIDE DEF p
<1>4. Distance(p, to) = IF to >= p THEN to - p ELSE to + QueueSize - p
  BY <1>3, DistanceIs
<1>5. Distance(to, p) = IF p >= to THEN p - to ELSE p + QueueSize - to
  BY <1>3, DistanceIs
<1>6. QueueSize \in Nat /\ RecordLen(rec) \in Nat
  BY WrittenIs, QueueAssumption
<1>7. ~(Distance(to, p) < RecordLen(rec))
  BY <1>2, <1>3, <1>4, <1>5, <1>6 DEF Offset
<1>8. Written(bytes, to, rec)[p] = bytes[p]
  BY <1>3, <1>7 DEF Written
<1> QED  BY <1>8 DEF p, off

\* What was written is there.
LEMMA HoldsWritten ==
  ASSUME NEW bytes \in Rings, NEW to \in Offset, NEW rec \in Frame
  PROVE  /\ Written(bytes, to, rec)[to] = [rec |-> rec, at |-> 0]
         /\ Holds(Written(bytes, to, rec), to, rec, RecordLen(rec))
<1>1. /\ RecordLen(rec) \in Nat \ {0} /\ RecordLen(rec) < QueueSize
      /\ QueueSize \in Nat \ {0}
  BY WrittenIs, QueueAssumption
<1>2. ASSUME NEW k \in 0..(RecordLen(rec) - 1)
      PROVE  /\ Advance(to, k) \in Offset
             /\ Written(bytes, to, rec)[Advance(to, k)] = [rec |-> rec, at |-> k]
  <2> DEFINE p == Advance(to, k)
  <2>1. /\ p \in Offset
        /\ p = IF to + k >= QueueSize THEN to + k - QueueSize ELSE to + k
    BY <1>1, AdvanceIs
  <2> HIDE DEF p
  <2>2. Distance(to, p) = IF p >= to THEN p - to ELSE p + QueueSize - to
    BY <2>1, DistanceIs
  <2>3. Distance(to, p) = k
    BY <1>1, <2>1, <2>2 DEF Offset
  <2>4. Written(bytes, to, rec)[p] = [rec |-> rec, at |-> k]
    BY <1>1, <2>1, <2>3 DEF Written
  <2> QED  BY <2>1, <2>4 DEF p
<1>3. 0 \in 0..(RecordLen(rec) - 1) /\ Advance(to, 0) = to
  BY <1>1 DEF Advance, Offset
<1> QED  BY <1>2, <1>3 DEF Holds

\* The cursors after a write, seen from behind.
LEMMA BehindWritten ==
  ASSUME NEW to \in Offset, NEW len \in Nat \ {0},
         NEW n \in Offset, n + len < QueueSize
  PROVE  /\ Advance(to, len) \in Offset
         /\ n + len \in Offset
         /\ Distance(n + len, Advance(to, len)) = Distance(n, to)
<1>1. QueueSize \in Nat \ {0}
  BY QueueAssumption
<1> DEFINE to2 == Advance(to, len)
<1>2. n + len \in Offset /\ len <= QueueSize
  BY <1>1 DEF Offset
<1>3. /\ to2 \in Offset
      /\ to2 = IF to + len >= QueueSize THEN to + len - QueueSize ELSE to + len
  BY <1>2, AdvanceIs
<1> HIDE DEF to2
<1>4. Distance(n + len, to2) = IF to2 >= n + len THEN to2 - (n + len)
                                                ELSE to2 + QueueSize - (n + len)
  BY <1>2, <1>3, DistanceIs
<1>5. Distance(n, to) = IF to >= n THEN to - n ELSE to + QueueSize - n
  BY DistanceIs
<1>6. Distance(n + len, to2) = Distance(n, to)
  BY <1>1, <1>3, <1>4, <1>5 DEF Offset
<1> QED  BY <1>2, <1>3, <1>6 DEF to2

\* Adding at the front and at the end.
LEMMA ConsAppend ==
  ASSUME NEW S, NEW queue \in Seq(S), NEW first \in S, NEW last \in S
  PROVE  <<first>> \o Append(queue, last) = Append(<<first>> \o queue, last)
OBVIOUS

\* A record written where it fits is the last one of every backlog.
LEMMA Appended ==
  ASSUME NEW bytes \in Rings, NEW to \in Offset, NEW rec \in Frame
  PROVE  \A n \in Offset :
           n + RecordLen(rec) < QueueSize /\ Records(bytes, to)[n] \in Seq(Frame) =>
             Records(Written(bytes, to, rec), Advance(to, RecordLen(rec)))[n + RecordLen(rec)]
               = Append(Records(bytes, to)[n], rec)
<1> DEFINE len == RecordLen(rec)
           to2 == Advance(to, len)
           bytes2 == Written(bytes, to, rec)
           old == Records(bytes, to)
           new == Records(bytes2, to2)
           T == {n \in Offset : /\ n + len < QueueSize
                                /\ old[n] \in Seq(Frame)
                                /\ new[n + len] # Append(old[n], rec)}
<1> SUFFICES ASSUME T # {} PROVE FALSE
  OBVIOUS
<1>0. T \subseteq Nat
  BY DEF Offset
<1>1. PICK n \in T : \A m \in T : n <= m
  <2> HIDE DEF T
  <2> QED  BY <1>0, MinExists
<1>2. /\ n \in Offset /\ n + len < QueueSize /\ old[n] \in Seq(Frame)
      /\ new[n + len] # Append(old[n], rec)
  BY <1>1
<1>3. bytes2 \in Rings /\ len \in Nat \ {0} /\ to2 \in Offset /\ len < QueueSize
  BY WrittenIs
<1>4. n + len \in Offset /\ n + len # 0 /\ Distance(n + len, to2) = Distance(n, to)
  <2>1. n + len # 0
    BY <1>2, <1>3 DEF Offset
  <2> QED  BY <1>2, <1>3, <2>1, BehindWritten
<1>5. new[n + len] = Step(new, bytes2, to2, n + len)
  BY <1>3, <1>4, RecordsStep
<1>6. CASE n = 0
  <2>1. Distance(n + len, to2) = to
    <3>1. Distance(0, to) = to
      BY QueueAssumption, DistanceIs DEF Offset
    <3> QED  BY <1>4, <1>6, <3>1
  <2>2. bytes2[to] = [rec |-> rec, at |-> 0] /\ Holds(bytes2, to, rec, len)
    BY HoldsWritten
  <2>3. n + len = len /\ len <= len /\ len - len = 0
    BY <1>3, <1>6
  <2>4. new[len] = <<rec>> \o new[0]
    <3> HIDE DEF new, bytes2, to2
    <3>1. bytes2[to].rec = rec /\ bytes2[to].at = 0
      BY <2>2
    <3> QED  BY <1>4, <1>5, <2>1, <2>2, <2>3, <3>1 DEF Step
  <2>5. new[0] = <<>> /\ old[0] = <<>>
    BY <1>3, NothingBehind
  <2> HIDE DEF new, old
  <2> QED  BY <1>2, <1>6, <2>3, <2>4, <2>5
<1>7. CASE n # 0
  <2> DEFINE off == Distance(n, to)
             first == bytes[off].rec
             m == n - RecordLen(first)
  <2>1. /\ first \in Frame
        /\ bytes[off].at = 0
        /\ RecordLen(first) \in 1..n
        /\ Holds(bytes, off, first, RecordLen(first))
        /\ m \in Offset
        /\ old[m] \in Seq(Frame)
        /\ old[n] = <<first>> \o old[m]
    BY <1>2, <1>7, FrontRecord
  <2>2. \A k \in 0..(n - 1) : bytes2[Advance(off, k)] = bytes[Advance(off, k)]
    BY <1>2, Untouched
  <2>3. bytes2[off] = bytes[off]
    <3>1. 0 \in 0..(n - 1) /\ off \in Offset
      BY <1>2, <1>7, DistanceIs DEF Offset
    <3>2. Advance(off, 0) = off
      <4> HIDE DEF off
      <4> QED  BY <3>1, QueueAssumption DEF Advance, Offset
    <3> HIDE DEF off, bytes2
    <3> QED  BY <2>2, <3>1, <3>2
  <2> HIDE DEF first
  <2>4. Holds(bytes2, off, first, RecordLen(first))
    <3>1. \A k \in 0..(RecordLen(first) - 1) : k \in 0..(n - 1)
      BY <1>2, <2>1 DEF Offset
    <3> HIDE DEF off, bytes2
    <3> QED  BY <2>1, <2>2, <3>1 DEF Holds
  <2>5. /\ RecordLen(first) <= n + len
        /\ (n + len) - RecordLen(first) = m + len
        /\ m + len < QueueSize
        /\ ~(n <= m)
    <3> DEFINE gone == RecordLen(first)
    <3>1. /\ n \in Nat /\ gone \in Nat \ {0} /\ gone <= n
          /\ n + len < QueueSize /\ QueueSize \in Nat
      BY <1>2, <2>1, QueueAssumption DEF Offset
    <3> HIDE DEF gone, len
    <3>2. /\ gone <= n + len
          /\ (n + len) - gone = (n - gone) + len
          /\ (n - gone) + len < QueueSize
          /\ ~(n <= n - gone)
      BY <1>3, <3>1
    <3> QED  BY <3>2 DEF gone
  <2>6. new[m + len] = Append(old[m], rec)
    <3>1. m \notin T
      BY <1>1, <2>5
    <3> QED  BY <2>1, <2>5, <3>1
  <2>7. new[n + len] = <<first>> \o new[m + len]
    <3>1. bytes2[off].rec = first /\ bytes2[off].at = 0
      BY <2>1, <2>3 DEF first
    <3> HIDE DEF new, bytes2, to2, off
    <3> QED  BY <1>4, <1>5, <2>4, <2>5, <3>1 DEF Step, off
  <2>8. <<first>> \o Append(old[m], rec) = Append(<<first>> \o old[m], rec)
    <3> HIDE DEF old, m
    <3>1. first \in Frame /\ old[m] \in Seq(Frame)
      BY <2>1
    <3> QED  BY <3>1, ConsAppend
  <2> HIDE DEF new, old, m
  <2> QED  BY <1>2, <2>1, <2>6, <2>7, <2>8
<1> QED  BY <1>6, <1>7

\* Writing past a reader leaves it that much further behind.
LEMMA Farther ==
  ASSUME NEW a \in Offset, NEW b \in Offset, NEW len \in Nat \ {0},
         Distance(a, b) + len < QueueSize
  PROVE  Distance(a, Advance(b, len)) = Distance(a, b) + len
<1>1. QueueSize \in Nat \ {0} /\ Distance(a, b) \in Nat
  BY QueueAssumption, DistanceIs DEF Offset
<1> DEFINE c == Advance(b, len)
<1>2. /\ c \in Offset
      /\ c = IF b + len >= QueueSize THEN b + len - QueueSize ELSE b + len
  BY <1>1, AdvanceIs
<1> HIDE DEF c
<1>3. Distance(a, b) = IF b >= a THEN b - a ELSE b + QueueSize - a
  BY DistanceIs
<1>4. Distance(a, c) = IF c >= a THEN c - a ELSE c + QueueSize - a
  BY <1>2, DistanceIs
<1>5. Distance(a, c) = Distance(a, b) + len
  BY <1>1, <1>2, <1>3, <1>4 DEF Offset
<1> QED  BY <1>5 DEF c

\* MakeRoom and FIFOWrite are Enqueue, for a reader at the cursor from.
LEMMA Enqueued ==
  ASSUME NEW bytes \in Rings, NEW to \in Offset, NEW from \in Offset, NEW rec \in Frame,
         Records(bytes, to)[Distance(from, to)] \in Seq(Frame)
  PROVE  LET queue == Records(bytes, to)[Distance(from, to)]
             to2 == Advance(to, RecordLen(rec))
             from2 == IF RecordLen(rec) < QueueSize - Distance(from, to) THEN from ELSE to
             queue2 == Records(Written(bytes, to, rec), to2)[Distance(from2, to2)]
         IN  queue2 = Enqueue(queue, rec) /\ queue2 \in Seq(Frame)
<1> DEFINE len == RecordLen(rec)
           n == Distance(from, to)
           queue == Records(bytes, to)[n]
           to2 == Advance(to, len)
           new == Records(Written(bytes, to, rec), to2)
<1>1. /\ n \in Offset /\ QueueSize \in Nat /\ len \in Nat \ {0} /\ len < QueueSize
      /\ n \in Nat
  BY DistanceIs, WrittenIs, QueueAssumption DEF Offset
<1>2. Overflows(queue, rec) <=> ~(len < QueueSize - n)
  <2>1. Bytes(queue) = n
    BY <1>1, RecordsBytes
  <2> HIDE DEF queue, n
  <2> QED  BY <1>1, <2>1 DEF Overflows
<1>3. CASE len < QueueSize - n
  <2>1. n + len < QueueSize
    <3> HIDE DEF n, len
    <3> QED  BY <1>1, <1>3
  <2>2. Distance(from, to2) = n + len
    BY <1>1, <2>1, Farther
  <2>3. new[n + len] = Append(queue, rec)
    BY <1>1, <2>1, Appended
  <2>4. Append(queue, rec) \in Seq(Frame)
    OBVIOUS
  <2>5. Enqueue(queue, rec) = Append(queue, rec)
    BY <1>2, <1>3 DEF Enqueue
  <2> QED  BY <1>3, <2>2, <2>3, <2>4, <2>5
<1>4. CASE ~(len < QueueSize - n)
  <2>1. 0 \in Offset /\ Distance(to, to) = 0
    BY QueueAssumption, DistanceIs DEF Offset
  <2>2. 0 + len < QueueSize /\ 0 + len = len
    BY <1>1
  <2>3. Distance(to, to2) = len
    BY <1>1, <2>1, <2>2, Farther
  <2>4. Records(bytes, to)[0] = <<>> /\ <<>> \in Seq(Frame)
    BY NothingBehind
  <2>5. new[0 + len] = Append(<<>>, rec)
    <3>1. Records(bytes, to)[0] \in Seq(Frame)
      BY <2>4, Zenon
    <3>2. new[0 + len] = Append(Records(bytes, to)[0], rec)
      BY <2>1, <2>2, <3>1, Appended, Zenon
    <3> QED  BY <2>4, <3>2, Zenon
  <2>6. new[len] = <<rec>> /\ <<rec>> \in Seq(Frame)
    <3> HIDE DEF new, len
    <3> QED  BY <2>2, <2>5
  <2>7. Enqueue(queue, rec) = <<rec>>
    BY <1>2, <1>4 DEF Enqueue
  <2> QED  BY <1>4, <2>3, <2>6, <2>7
<1> QED  BY <1>3, <1>4

-----------------------------------------------------------------------------
\* The inductive invariant: the types, and whole records behind the write
\* cursor for every connected reader.
TypeOK ==
  /\ connected \subseteq Inst
  /\ ring \in Rings
  /\ write \in Offset
  /\ read \in [Inst -> Offset]

WholeRecords == \A i \in connected : Unread(i) \in Seq(Frame)

\* What a reader that has something to read finds at its cursor.
LEMMA Found ==
  ASSUME TypeOK, WholeRecords, NEW i \in connected, read[i] # write
  PROVE  LET n == Distance(read[i], write)
             rec == HeaderAt(i)
             rest == Records(ring, write)[n - RecordLen(rec)]
         IN  /\ ValidHeader(i)
             /\ read[i] \in Offset /\ write \in Offset
             /\ rec \in Frame /\ rec.len \in Nat
             /\ RecordLen(rec) = HeaderLen + rec.len
             /\ RecordLen(rec) \in 0..n /\ RecordLen(rec) <= QueueSize
             /\ rest \in Seq(Frame)
             /\ Unread(i) = <<rec>> \o rest
<1> DEFINE from == read[i]
           n == Distance(from, write)
           rec == HeaderAt(i)
           rest == Records(ring, write)[n - RecordLen(rec)]
<1>1. /\ ring \in Rings /\ write \in Offset /\ from \in Offset
      /\ Unread(i) = Records(ring, write)[n] /\ Unread(i) \in Seq(Frame)
  BY DEF TypeOK, WholeRecords, Unread
<1>2. n \in Offset /\ n # 0 /\ Distance(n, write) = from
  BY <1>1, DistanceIs, CursorsBack
<1>3. /\ rec \in Frame
      /\ RecordLen(rec) \in 1..n
      /\ Holds(ring, from, rec, RecordLen(rec))
      /\ rest \in Seq(Frame)
      /\ Unread(i) = <<rec>> \o rest
  <2>1. Records(ring, write)[n] \in Seq(Frame)
    BY <1>1, Zenon
  <2> HIDE DEF n, from
  <2> QED  BY <1>1, <1>2, <2>1, FrontRecord DEF HeaderAt, from
<1>4. /\ HeaderLen \in Nat \ {0} /\ rec.len \in Nat /\ RecordLen(rec) = HeaderLen + rec.len
      /\ n \in Nat /\ n < QueueSize /\ QueueSize \in Nat
  BY <1>2, <1>3, QueueAssumption, RingAssumption DEF RecordLen, Offset
<1>5. ValidHeader(i)
  <2>1. HeaderLen + rec.len <= n
    <3> HIDE DEF n, rec
    <3> QED  BY <1>3, <1>4
  <2>2. n >= HeaderLen /\ n >= HeaderLen + rec.len
    <3> HIDE DEF n, rec
    <3> QED  BY <1>4, <2>1
  <2>3. Holds(ring, from, rec, HeaderLen)
    <3>1. \A k \in 0..(HeaderLen - 1) : k \in 0..(RecordLen(rec) - 1)
      <4> HIDE DEF rec
      <4> QED  BY <1>4
    <3> HIDE DEF rec, from
    <3> QED  BY <1>3, <3>1 DEF Holds
  <2> QED  BY <2>2, <2>3 DEF ValidHeader
<1>6. RecordLen(rec) \in 0..n /\ RecordLen(rec) <= QueueSize
  <2> HIDE DEF n, rec
  <2> QED  BY <1>3, <1>4
<1> QED  BY <1>1, <1>3, <1>4, <1>5, <1>6

\* What Receive does to it.
LEMMA Received ==
  ASSUME TypeOK, WholeRecords, NEW i \in connected, read[i] # write,
         NEW capacity \in Capacity
  PROVE  /\ ValidHeader(i)
         /\ AfterRecord(i, capacity) \in Offset
         /\ Unread(i) # <<>>
         /\ Records(ring, write)[Distance(AfterRecord(i, capacity), write)] = Tail(Unread(i))
         /\ Tail(Unread(i)) \in Seq(Frame)
<1> DEFINE from == read[i]
           n == Distance(from, write)
           rec == HeaderAt(i)
           rest == Records(ring, write)[n - RecordLen(rec)]
<1>1. /\ ValidHeader(i)
      /\ from \in Offset /\ write \in Offset
      /\ rec \in Frame /\ rec.len \in Nat
      /\ RecordLen(rec) = HeaderLen + rec.len
      /\ RecordLen(rec) \in 0..n /\ RecordLen(rec) <= QueueSize
      /\ rest \in Seq(Frame)
      /\ Unread(i) = <<rec>> \o rest
  BY Found
<1>2. capacity \in Nat /\ HeaderLen \in Nat /\ QueueSize \in Nat
  BY RingAssumption, QueueAssumption
<1>3. AfterRecord(i, capacity) = Advance(from, RecordLen(rec))
  <2> DEFINE copied == IF rec.len < capacity THEN rec.len ELSE capacity
  <2>1. /\ copied \in Nat /\ rec.len - copied \in Nat
        /\ copied + (rec.len - copied) = rec.len
    <3> HIDE DEF rec
    <3> QED  BY <1>1, <1>2
  <2>2. AfterRecord(i, capacity)
          = Advance(Advance(Advance(from, HeaderLen), copied), rec.len - copied)
    BY DEF AfterRecord
  <2>3. HeaderLen + rec.len <= QueueSize
    BY <1>1
  <2> HIDE DEF from, rec, copied
  <2>4. Advance(from, HeaderLen) \in Offset
    <3>1. HeaderLen <= QueueSize
      BY <1>1, <1>2, <2>3
    <3> QED  BY <1>1, <1>2, <3>1, AdvanceIs
  <2>5. Advance(Advance(Advance(from, HeaderLen), copied), rec.len - copied)
          = Advance(Advance(from, HeaderLen), rec.len)
    <3>1. copied + (rec.len - copied) <= QueueSize
      BY <1>1, <1>2, <2>1, <2>3
    <3> QED  BY <2>1, <2>4, <3>1, AdvanceTwice
  <2>6. Advance(Advance(from, HeaderLen), rec.len) = Advance(from, RecordLen(rec))
    BY <1>1, <1>2, <2>3, AdvanceTwice
  <2> QED  BY <2>2, <2>5, <2>6
<1>4. /\ AfterRecord(i, capacity) \in Offset
      /\ Distance(AfterRecord(i, capacity), write) = n - RecordLen(rec)
  <2> HIDE DEF rec
  <2> QED  BY <1>1, <1>3, Nearer
<1>5. Unread(i) # <<>> /\ Tail(Unread(i)) = rest
  <2> HIDE DEF rest, rec
  <2> QED  BY <1>1
<1> QED  BY <1>1, <1>4, <1>5

\* What Send does to every reader.
LEMMA Sent ==
  ASSUME TypeOK, WholeRecords, NEW rec \in Frame, Send(rec)
  PROVE  /\ TypeOK'
         /\ \A i \in connected : /\ Unread(i)' = Enqueue(Unread(i), rec)
                                 /\ Unread(i)' \in Seq(Frame)
<1>1. /\ ring' = Written(ring, write, rec)
      /\ write' = Advance(write, RecordLen(rec))
      /\ ring' \in Rings /\ write' \in Offset
      /\ connected' = connected
  BY WrittenIs DEF Send, TypeOK
<1>2. read' = [i \in Inst |-> IF i \in connected /\ ~Fits(i, rec) THEN write ELSE read[i]]
  BY DEF Send
<1>3. TypeOK'
  BY <1>1, <1>2 DEF TypeOK
<1>4. ASSUME NEW i \in connected
      PROVE  Unread(i)' = Enqueue(Unread(i), rec) /\ Unread(i)' \in Seq(Frame)
  <2>1. /\ i \in Inst /\ read[i] \in Offset /\ ring \in Rings /\ write \in Offset
        /\ Unread(i) = Records(ring, write)[Distance(read[i], write)]
        /\ Unread(i) \in Seq(Frame)
    BY DEF TypeOK, WholeRecords, Unread
  <2>2. read'[i] = IF RecordLen(rec) < QueueSize - Distance(read[i], write)
                   THEN read[i] ELSE write
    BY <1>2, <2>1 DEF Fits
  <2>3. Unread(i)' = Records(ring', write')[Distance(read'[i], write')]
    BY <1>1 DEF Unread
  <2>4. Records(ring, write)[Distance(read[i], write)] \in Seq(Frame)
    BY <2>1, Zenon
  <2> QED  BY <1>1, <2>1, <2>2, <2>3, <2>4, Enqueued
<1> QED  BY <1>3, <1>4

\* A reader at the write cursor has nothing to read.
LEMMA NothingUnread ==
  ASSUME NEW bytes \in Rings, NEW to \in Offset
  PROVE  Records(bytes, to)[Distance(to, to)] = <<>>
<1>1. Distance(to, to) = 0
  BY CursorsBack
<1> QED  BY <1>1, NothingBehind

\* Every step keeps the invariant, and is a step of the backlog: Send is its
\* Broadcast, Receive its Take, Join and Leave themselves.
LEMMA StepIsBacklog ==
  ASSUME TypeOK, WholeRecords, [Next]_vars
  PROVE  /\ TypeOK' /\ WholeRecords'
         /\ [Backlog!Next]_(Backlog!vars)
<1> DEFINE queues == [i \in Inst |-> Unread(i)]
<1>t. connected \subseteq Inst /\ ring \in Rings /\ write \in Offset /\ read \in [Inst -> Offset]
  BY DEF TypeOK
<1>1. CASE UNCHANGED vars
  BY <1>1 DEF vars, TypeOK, WholeRecords, Unread, Backlog!vars
<1>2. ASSUME NEW i \in Inst, Join(i) \/ Leave(i)
      PROVE  /\ TypeOK' /\ WholeRecords'
             /\ Backlog!Join(i) \/ Backlog!Leave(i)
  <2>1. /\ ring' = ring /\ write' = write
        /\ read' = [read EXCEPT ![i] = write]
        /\ connected' \in {connected \cup {i}, connected \ {i}}
    BY <1>2 DEF Join, Leave
  <2>2. TypeOK'
    BY <2>1, <1>t DEF TypeOK
  <2>3. Unread(i)' = <<>>
    <3>1. Records(ring', write')[Distance(read'[i], write')] = <<>>
      BY <2>1, <1>t, NothingUnread
    <3> QED  BY <3>1 DEF Unread
  <2>4. ASSUME NEW j \in Inst, j # i PROVE Unread(j)' = Unread(j)
    <3>1. read'[j] = read[j] /\ (j \in connected' <=> j \in connected)
      BY <2>1, <2>4, <1>t
    <3> QED  BY <2>1, <3>1 DEF Unread
  <2>5. WholeRecords'
    <3>1. ASSUME NEW j \in connected' PROVE Unread(j)' \in Seq(Frame)
      <4>1. CASE j = i
        <5>1. <<>> \in Seq(Frame)
          OBVIOUS
        <5> QED  BY <4>1, <2>3, <5>1
      <4>2. CASE j # i
        <5>1. j \in connected /\ j \in Inst
          BY <2>1, <4>2, <1>t
        <5> QED  BY <4>2, <5>1, <2>4 DEF WholeRecords
      <4> QED  BY <4>1, <4>2
    <3> QED  BY <3>1 DEF WholeRecords
  <2>6. queues' = [queues EXCEPT ![i] = <<>>]
    <3>1. \A j \in Inst : Unread(j)' = IF j = i THEN <<>> ELSE Unread(j)
      BY <2>3, <2>4
    <3> QED  BY <3>1
  <2>7. Backlog!Join(i) \/ Backlog!Leave(i)
    BY <1>2, <2>6 DEF Join, Leave, Backlog!Join, Backlog!Leave
  <2> QED  BY <2>2, <2>5, <2>7
<1>3. ASSUME NEW rec \in Frame, Send(rec)
      PROVE  TypeOK' /\ WholeRecords' /\ Backlog!Broadcast(rec)
  <2>1. /\ TypeOK'
        /\ \A i \in connected : /\ Unread(i)' = Enqueue(Unread(i), rec)
                                /\ Unread(i)' \in Seq(Frame)
    BY <1>3, Sent
  <2>2. connected' = connected /\ connected # {}
    BY <1>3 DEF Send
  <2>3. WholeRecords'
    BY <2>1, <2>2 DEF WholeRecords
  <2>4. \A i \in Inst : i \notin connected => Unread(i) = <<>> /\ Unread(i)' = <<>>
    BY <2>2 DEF Unread
  <2>5. queues' = [i \in Inst |-> IF i \in connected THEN Enqueue(queues[i], rec) ELSE queues[i]]
    <3>1. \A i \in Inst : Unread(i)' = IF i \in connected THEN Enqueue(Unread(i), rec)
                                                          ELSE Unread(i)
      BY <2>1, <2>4
    <3> QED  BY <3>1
  <2>6. Backlog!Broadcast(rec)
    BY <2>2, <2>5 DEF Backlog!Broadcast, Enqueue, Backlog!Enqueue, Overflows,
         Backlog!Overflows, Bytes, Backlog!Bytes, RecordLen, Backlog!RecordLen
  <2> QED  BY <2>1, <2>3, <2>6
<1>4. ASSUME NEW i \in Inst, NEW capacity \in Capacity, Receive(i, capacity)
      PROVE  TypeOK' /\ WholeRecords' /\ Backlog!Take(i)
  <2>1. /\ i \in connected /\ read[i] # write
        /\ ring' = ring /\ write' = write /\ connected' = connected
    BY <1>4 DEF Receive
  <2>2. /\ ValidHeader(i)
        /\ AfterRecord(i, capacity) \in Offset
        /\ Unread(i) # <<>>
        /\ Records(ring, write)[Distance(AfterRecord(i, capacity), write)] = Tail(Unread(i))
        /\ Tail(Unread(i)) \in Seq(Frame)
    BY <2>1, Received
  <2>3. read' = [read EXCEPT ![i] = AfterRecord(i, capacity)]
    BY <1>4, <2>2 DEF Receive
  <2>4. TypeOK'
    BY <2>1, <2>2, <2>3, <1>t DEF TypeOK
  <2>5. Unread(i)' = Tail(Unread(i))
    <3>1. read'[i] = AfterRecord(i, capacity)
      BY <2>3, <1>t
    <3>2. Unread(i)' = Records(ring', write')[Distance(read'[i], write')]
      BY <2>1 DEF Unread
    <3> QED  BY <2>1, <2>2, <3>1, <3>2
  <2>6. ASSUME NEW j \in Inst, j # i PROVE Unread(j)' = Unread(j)
    <3>1. read'[j] = read[j]
      BY <2>3, <2>6, <1>t
    <3> QED  BY <2>1, <3>1 DEF Unread
  <2>7. WholeRecords'
    BY <2>1, <2>2, <2>5, <2>6, <1>t DEF WholeRecords
  <2>8. queues' = [queues EXCEPT ![i] = Tail(@)]
    <3>1. \A j \in Inst : Unread(j)' = IF j = i THEN Tail(Unread(i)) ELSE Unread(j)
      BY <2>5, <2>6
    <3> QED  BY <3>1
  <2>9. Backlog!Take(i)
    BY <2>1, <2>2, <2>8 DEF Backlog!Take
  <2> QED  BY <2>4, <2>7, <2>9
<1>5. CASE Next
  BY <1>5, <1>2, <1>3, <1>4 DEF Next, Backlog!Next
<1> QED  BY <1>1, <1>5

\* The initial state is one of the backlog, too.
LEMMA Initially == Init => TypeOK /\ WholeRecords /\ Backlog!Init
<1> SUFFICES ASSUME Init PROVE TypeOK /\ WholeRecords /\ Backlog!Init
  OBVIOUS
<1>1. TypeOK
  BY QueueAssumption DEF Init, TypeOK, Rings, Byte, Offset
<1>2. connected = {} /\ \A i \in Inst : Unread(i) = <<>>
  BY DEF Init, Unread
<1> QED  BY <1>1, <1>2 DEF WholeRecords, Backlog!Init

\* The ring holds bytes of records, the cursors stay in it, and a connected
\* reader has whole records to read, in whatever order the calls come.
THEOREM RingInvariant == Spec => [](TypeOK /\ WholeRecords)
<1>1. Init => TypeOK /\ WholeRecords
  BY Initially
<1>2. TypeOK /\ WholeRecords /\ [Next]_vars => TypeOK' /\ WholeRecords'
  BY StepIsBacklog
<1> QED  BY <1>1, <1>2, PTL DEF Spec

\* No record is torn: MakeRoom and FIFOWrite never overwrite what a reader has
\* not read, and FIFORead leaves its cursor where the next record starts.
THEOREM NoneTorn == Spec => []NeverTorn
<1>1. TypeOK /\ WholeRecords => NeverTorn
  <2> SUFFICES ASSUME WholeRecords, NEW i \in connected, NEW n \in 1..Len(Unread(i))
               PROVE  Unread(i)[n] # Torn
    BY DEF NeverTorn
  <2>1. Unread(i)[n] \in Frame
    BY ElementOfSeq DEF WholeRecords
  <2> QED  BY <2>1, TornIsNoFrame
<1> QED  BY <1>1, RingInvariant, PTL

\* The check of RecvPacketGeneric for an invalid record never fails, and the
\* bytes MakeRoom counts as used are those of the records not yet read.
AlwaysValid ==
  \A i \in connected :
    /\ read[i] # write => ValidHeader(i)
    /\ Bytes(Unread(i)) = Distance(read[i], write)

\* The branch of RecvPacketGeneric that drops a reader's backlog because of an
\* invalid record is dead code, and MakeRoom's count is exact.
THEOREM NeverInvalid == Spec => []AlwaysValid
<1>1. TypeOK /\ WholeRecords => AlwaysValid
  <2> SUFFICES ASSUME TypeOK, WholeRecords, NEW i \in connected
               PROVE  /\ read[i] # write => ValidHeader(i)
                      /\ Bytes(Unread(i)) = Distance(read[i], write)
    BY DEF AlwaysValid
  <2>1. /\ read[i] \in Offset /\ ring \in Rings /\ write \in Offset
        /\ Unread(i) = Records(ring, write)[Distance(read[i], write)]
        /\ Unread(i) \in Seq(Frame)
    BY DEF TypeOK, WholeRecords, Unread
  <2>2. Bytes(Unread(i)) = Distance(read[i], write)
    <3>1. Records(ring, write)[Distance(read[i], write)] \in Seq(Frame)
      BY <2>1, Zenon
    <3> QED  BY <2>1, <3>1, DistanceIs, RecordsBytes
  <2>3. read[i] # write => ValidHeader(i)
    BY Found
  <2> QED  BY <2>2, <2>3
<1> QED  BY <1>1, RingInvariant, PTL

\* The bytes, cursors and wraps of LocalMP's packet queue implement the
\* broadcast backlog: only an overflow loses records, and only its reader's.
THEOREM RingRefinesBacklog == Spec => ImplementsBacklog
<1>1. Init => Backlog!Init
  BY Initially
<1>2. TypeOK /\ WholeRecords /\ [Next]_vars => [Backlog!Next]_(Backlog!vars)
  BY StepIsBacklog
<1> QED  BY <1>1, <1>2, RingInvariant, PTL DEF Spec, ImplementsBacklog, Backlog!Spec
=============================================================================
