--------------------------- MODULE BitStream_proofs ---------------------------
(***************************************************************************)
(* Proofs about BitStream, for every buffer size, every set of fields and  *)
(* any number of them: no write leaves the buffer, the padding is zero,    *)
(* the stream is a queue of bits, what is read is what was written, and a  *)
(* field that was not written is not read.                                 *)
(***************************************************************************)
EXTENDS BitStream, SequenceTheorems, TLAPS

-----------------------------------------------------------------------------
(* Sequences of bits *)

\* Zeros are bits.
LEMMA ZerosType ==
  ASSUME NEW n \in Nat
  PROVE  Zeros(n) \in Bits /\ Len(Zeros(n)) = n
  BY DEF Zeros, Bits, BIT

\* What is read from the memory are bits, as many as asked for.
LEMMA AtType ==
  ASSUME NEW from \in Nat, NEW n \in Nat, data \in [Memory -> BIT], from + n <= MaxBits
  PROVE  /\ At(from, n) \in Bits /\ Len(At(from, n)) = n
         /\ \A i \in 1..n : At(from, n)[i] = data[from + i - 1]
<1>1. \A i \in 1..n : from + i - 1 \in Memory
  BY BitStreamAssumption DEF Memory
<1>2. \A i \in 1..n : data[from + i - 1] \in BIT
  BY <1>1
<1> QED BY <1>2 DEF At, Bits

\* A flag is the eight bits of a bool.
LEMMA FlagType ==
  ASSUME NEW b \in BIT
  PROVE  Flag(b) \in Bits
<1>1. Zeros(7) \in Bits /\ <<b>> \in Bits
  BY ZerosType DEF Bits
<1> QED BY <1>1, ConcatProperties DEF Flag, Bits

\* The last calls of WriteCompressed are calls of WriteBits.
LEMMA LastCallsType ==
  ASSUME NEW v \in Bits, NEW c \in Nat, 8 * c + 8 <= Len(v)
  PROVE  LastCalls(v, c) \in Seq(Bits)
<1>1. Flag(0) \in Bits /\ Flag(1) \in Bits
  BY FlagType DEF BIT
<1>2. Len(v) \in Nat
  BY DEF Bits
<1>3. /\ SubSeq(v, 1, 8 * c + 8) \in Bits
      /\ SubSeq(v, 5, 8) \in Bits /\ SubSeq(v, 1, 8) \in Bits
  BY <1>2, SubSeqProperties DEF Bits
<1> QED BY <1>1, <1>3 DEF LastCalls

-----------------------------------------------------------------------------
(* The buffer *)

\* After AddBitsAndReallocate the buffer has room for the bits, is not smaller
\* than it was, and is on the heap if and only if it does not fit the stack.
LEMMA RoomForBits ==
  ASSUME NEW n \in Nat \ {0}, TypeOK, WritesInBounds, copy
  PROVE  /\ Larger(NewSize(n), size) \in Nat
         /\ Larger(NewSize(n), size) >= woff + n
         /\ Larger(NewSize(n), size) >= size
         /\ (heap \/ Moved(n)) <=> Larger(NewSize(n), size) > 8 * StackBytes
<1>. DEFINE used == n + woff  new == NewSize(n)
<1>1. /\ woff \in Nat /\ used \in Nat /\ size \in Nat /\ size >= 8 * StackBytes /\ used >= 1
      /\ StackBytes \in Nat /\ StackBytes >= 1 /\ MaxGrowth \in Nat
      /\ heap <=> size > 8 * StackBytes
  BY BitStreamAssumption DEF TypeOK, WritesInBounds
<1>2. CASE MoreBytes(n)
  <2>1. used > size
    BY <1>1, <1>2 DEF MoreBytes
  <2>2. new = Doubled(used) /\ Doubled(used) \in Nat /\ Doubled(used) >= used
    BY <1>1, <1>2 DEF NewSize, Doubled
  <2>3. BitsToBytes(new) > StackBytes
    BY <1>1, <2>1, <2>2 DEF BitsToBytes
  <2>4. Moved(n)
    BY <1>2, <2>3 DEF Moved
  <2> QED BY <1>1, <2>1, <2>2, <2>4 DEF Larger
<1>3. CASE ~MoreBytes(n)
  <2>1. new = used
    BY <1>3 DEF NewSize
  <2>2. (used - 1) \div 8 <= (size - 1) \div 8
    BY <1>1, <1>3 DEF MoreBytes
  <2>3. ~Moved(n)
    BY <1>3 DEF Moved
  <2>4. size = 8 * StackBytes => used <= 8 * StackBytes
    BY <1>1, <2>2
  <2> QED BY <1>1, <2>1, <2>3, <2>4 DEF Larger
<1> QED BY <1>2, <1>3

\* The memory keeps every bit of the bytes that have one in front of the write
\* offset, wherever it is after AddBitsAndReallocate.
LEMMA AddedKeeps ==
  ASSUME NEW n \in Nat, NEW junk \in BIT, TypeOK, woff <= size
  PROVE  /\ Added(n, junk) \in [Memory -> BIT]
         /\ \A i \in Memory : i < woff => Added(n, junk)[i] = data[i]
         /\ \A i \in Memory : woff % 8 # 0 /\ i \div 8 = woff \div 8
                                => Added(n, junk)[i] = data[i]
<1>1. data \in [Memory -> BIT] /\ size \in Nat /\ woff \in Nat
  BY BitStreamAssumption DEF TypeOK
<1>2. Added(n, junk) \in [Memory -> BIT]
  BY <1>1 DEF Added
<1>3. \A i \in Memory : i \in Nat
  BY BitStreamAssumption DEF Memory
<1>4. \A i \in Memory : i < 8 * BitsToBytes(size) => Added(n, junk)[i] = data[i]
  <2>1. BitsToBytes(size) \in Nat
    BY <1>1 DEF BitsToBytes
  <2> QED BY <1>3, <2>1 DEF Added
<1>5. \A i \in Memory : i < woff => i < 8 * BitsToBytes(size)
  BY <1>1, <1>3 DEF BitsToBytes
<1>6. \A i \in Memory : woff % 8 # 0 /\ i \div 8 = woff \div 8 => i < 8 * BitsToBytes(size)
  BY <1>1, <1>3 DEF BitsToBytes
<1> QED BY <1>2, <1>4, <1>5, <1>6

-----------------------------------------------------------------------------
(* Bits and their bytes *)

\* A bit in front of w is in the byte of w or in front of it.
LEMMA BitBefore ==
  ASSUME NEW i \in Nat, NEW w \in Nat, i < w
  PROVE  i \div 8 <= w \div 8 /\ (i \div 8 = w \div 8 => w % 8 # 0)
  OBVIOUS

\* Of the n bits from w on, those that are not in the byte of w are in the next.
LEMMA BitBehind ==
  ASSUME NEW i \in Nat, NEW w \in Nat, NEW n \in 1..8,
         i >= w, i < w + n, i \div 8 # w \div 8
  PROVE  i \div 8 = w \div 8 + 1 /\ w % 8 > 0 /\ 8 - (w % 8) < n
  OBVIOUS

\* And so is the padding behind them.
LEMMA PaddingBehind ==
  ASSUME NEW i \in Nat, NEW w \in Nat, NEW n \in 1..8,
         i >= w + n, (w + n) % 8 # 0, i \div 8 = (w + n) \div 8, i \div 8 # w \div 8
  PROVE  i \div 8 = w \div 8 + 1 /\ w % 8 > 0 /\ 8 - (w % 8) < n
  OBVIOUS

\* The last byte of a value of whole bytes is its own.
LEMMA LastByte ==
  ASSUME NEW n \in Nat, n > 0, n % 8 = 0
  PROVE  /\ n \div 8 - 1 \in Nat /\ 8 * (n \div 8 - 1) + 8 = n
         /\ n \div 8 \in Nat /\ n \div 8 - 1 < n \div 8
  OBVIOUS

\* The bytes used end at the next byte boundary, and the bits up to it are in
\* the byte of the offset.
LEMMA RoundedUp ==
  ASSUME NEW n \in Nat, NEW m \in Nat, n <= m, m % 8 = 0
  PROVE  LET b == 8 * ((n + 7) \div 8)
         IN /\ b \in Nat /\ n <= b /\ b < n + 8 /\ b <= m /\ b % 8 = 0
            /\ \A i \in Nat : n <= i /\ i < b => n % 8 # 0 /\ i \div 8 = n \div 8
  OBVIOUS

\* What is between two offsets.
LEMMA Between ==
  ASSUME NEW a \in Nat, NEW b \in Nat, NEW c \in Nat, a <= b, b <= c
  PROVE  b - a \in Nat /\ a + (b - a) <= c /\ \A i \in 1..b - a : a + i \in 1..c
  OBVIOUS

\* No round of a loop writes more than a byte.
LEMMA AtMostAByte ==
  ASSUME NEW n \in Nat, n >= 1
  PROVE  (IF n >= 8 THEN 8 ELSE n) \in 1..8 /\ (IF n >= 8 THEN 8 ELSE n) <= n
  OBVIOUS

\* Whole bytes make up whole bytes.
LEMMA WholeBytes ==
  ASSUME NEW a \in Nat, NEW b \in Nat, a % 8 = 0, b % 8 = 0
  PROVE  (a + b) % 8 = 0
  OBVIOUS

-----------------------------------------------------------------------------
(* Writing into the memory *)

\* A round of the loop of WriteBits puts its bits behind the ones that are there,
\* which stay, and zeros behind them up to the end of the byte.
LEMMA ByteWrittenIs ==
  ASSUME NEW d \in [Memory -> BIT], NEW s \in Bits, Len(s) \in 1..8,
         woff \in Nat, woff + Len(s) <= MaxBits,
         \A i \in Memory : i >= woff /\ woff % 8 # 0 /\ i \div 8 = woff \div 8 => d[i] = 0
  PROVE  /\ ByteWritten(d, s) \in [Memory -> BIT]
         /\ \A i \in Memory : i < woff => ByteWritten(d, s)[i] = d[i]
         /\ \A j \in 1..Len(s) : ByteWritten(d, s)[woff + j - 1] = s[j]
         /\ \A i \in Memory : /\ i >= woff + Len(s) /\ (woff + Len(s)) % 8 # 0
                              /\ i \div 8 = (woff + Len(s)) \div 8
                              => ByteWritten(d, s)[i] = 0
<1>. DEFINE m == ByteWritten(d, s)  e == woff + Len(s)
<1>1. /\ \A i \in Memory : i \in Nat
      /\ \A j \in 1..Len(s) : s[j] \in BIT /\ woff + j - 1 \in Memory
  BY BitStreamAssumption DEF Memory, Bits
<1>2. \A i \in Memory : /\ DataByte(s, i) \in BIT
                        /\ i < woff \/ i >= e => DataByte(s, i) = 0
  <2>1. SUFFICES ASSUME NEW i \in Memory
                 PROVE  DataByte(s, i) \in BIT /\ (i < woff \/ i >= e => DataByte(s, i) = 0)
    OBVIOUS
  <2>2. CASE woff <= i /\ i < e
    <3>1. i - woff + 1 \in 1..Len(s)
      BY <1>1, <2>2
    <3> QED BY <1>1, <2>2, <3>1 DEF DataByte
  <2> QED BY <1>1, <2>2 DEF DataByte, BIT
<1>3. \A j \in 1..Len(s) : DataByte(s, woff + j - 1) = s[j]
  BY DEF DataByte
<1>4. \A i \in Memory : i \div 8 = woff \div 8 => m[i] = FirstHalf(d[i], s, i)
  BY DEF ByteWritten
<1>5. \A i \in Memory : i \div 8 = woff \div 8 + 1 /\ SecondHalf(s) => m[i] = DataByte(s, i)
  BY <1>1 DEF ByteWritten
<1>6. \A i \in Memory : i \div 8 # woff \div 8 /\ ~(i \div 8 = woff \div 8 + 1 /\ SecondHalf(s))
                          => m[i] = d[i]
  BY DEF ByteWritten
<1>7. \A i \in Memory : FirstHalf(d[i], s, i) \in BIT
  BY <1>2 DEF FirstHalf, BitOr, BIT
<1>8. m \in [Memory -> BIT]
  <2>1. \A i \in Memory : m[i] \in BIT
    BY <1>2, <1>4, <1>5, <1>6, <1>7
  <2> QED BY <2>1 DEF ByteWritten
<1>. HIDE DEF m
<1>9. \A i \in Memory : i < woff => m[i] = d[i]
  <2>1. SUFFICES ASSUME NEW i \in Memory, i < woff PROVE m[i] = d[i]
    OBVIOUS
  <2>2. i \in Nat /\ DataByte(s, i) = 0 /\ d[i] \in {0, 1}
    BY <1>1, <1>2, <2>1 DEF BIT
  <2>3. i \div 8 <= woff \div 8 /\ (i \div 8 = woff \div 8 => woff % 8 # 0)
    BY <2>1, <2>2, BitBefore
  <2>4. CASE i \div 8 = woff \div 8
    BY <1>4, <2>2, <2>3, <2>4 DEF FirstHalf, BitOr
  <2>5. CASE i \div 8 # woff \div 8
    <3>1. i \div 8 # woff \div 8 + 1
      BY <2>2, <2>3, <2>5
    <3> QED BY <1>6, <2>5, <3>1
  <2> QED BY <2>4, <2>5
<1>10. \A j \in 1..Len(s) : m[woff + j - 1] = s[j]
  <2>1. SUFFICES ASSUME NEW j \in 1..Len(s) PROVE m[woff + j - 1] = s[j]
    OBVIOUS
  <2>2. PICK i \in Memory : i = woff + j - 1
    BY <1>1
  <2>3. i \in Nat /\ i >= woff /\ i < woff + Len(s) /\ s[j] \in {0, 1} /\ DataByte(s, i) = s[j]
    BY <1>1, <1>3, <2>2 DEF BIT
  <2>4. CASE i \div 8 = woff \div 8
    <3>1. woff % 8 # 0 => d[i] = 0
      BY <2>3, <2>4
    <3>2. m[i] = s[j]
      BY <1>4, <2>3, <2>4, <3>1 DEF FirstHalf, BitOr
    <3> QED BY <2>2, <3>2
  <2>5. CASE i \div 8 # woff \div 8
    <3>1. i \div 8 = woff \div 8 + 1 /\ SecondHalf(s)
      BY <2>3, <2>5, BitBehind DEF SecondHalf
    <3>2. m[i] = s[j]
      BY <1>5, <2>3, <3>1
    <3> QED BY <2>2, <3>2
  <2> QED BY <2>4, <2>5
<1>11. \A i \in Memory : /\ i >= woff + Len(s) /\ (woff + Len(s)) % 8 # 0
                         /\ i \div 8 = (woff + Len(s)) \div 8
                         => m[i] = 0
  <2>1. SUFFICES ASSUME NEW i \in Memory, i >= woff + Len(s), (woff + Len(s)) % 8 # 0,
                        i \div 8 = (woff + Len(s)) \div 8
                 PROVE  m[i] = 0
    OBVIOUS
  <2>2. i \in Nat /\ i >= woff
    <3>1. i \in Nat
      BY <1>1
    <3> HIDE <1>1
    <3> QED BY <2>1, <3>1
  <2>3. DataByte(s, i) = 0
    BY <1>2, <2>1
  <2>4. CASE i \div 8 = woff \div 8
    <3>1. woff % 8 # 0 => d[i] = 0
      BY <2>2, <2>4
    <3> QED BY <1>4, <2>3, <2>4, <3>1 DEF FirstHalf, BitOr
  <2>5. CASE i \div 8 # woff \div 8
    <3>1. i \div 8 = woff \div 8 + 1 /\ SecondHalf(s)
      BY <2>1, <2>2, <2>5, PaddingBehind DEF SecondHalf
    <3> QED BY <1>5, <2>3, <3>1
  <2> QED BY <2>4, <2>5
<1> QED BY <1>8, <1>9, <1>10, <1>11 DEF m

\* So do Write0 and Write1 with their bit.
LEMMA BitWrittenIs ==
  ASSUME NEW d \in [Memory -> BIT], NEW m \in {ZeroWritten(d), OneWritten(d)},
         woff \in Nat, woff < MaxBits,
         \A i \in Memory : i >= woff /\ woff % 8 # 0 /\ i \div 8 = woff \div 8 => d[i] = 0
  PROVE  /\ m \in [Memory -> BIT]
         /\ \A i \in Memory : i < woff => m[i] = d[i]
         /\ \A i \in Memory : i >= woff + 1 /\ (woff + 1) % 8 # 0 /\ i \div 8 = (woff + 1) \div 8
                                => m[i] = 0
<1>1. \A i \in Memory : i \in Nat
  BY BitStreamAssumption DEF Memory
<1>2. m \in [Memory -> BIT]
  BY DEF ZeroWritten, OneWritten, BIT
<1>3. \A i \in Memory : i < woff => m[i] = d[i]
  <2>1. \A i \in Memory : i < woff /\ i \div 8 = woff \div 8 => woff % 8 # 0
    BY <1>1
  <2> QED BY <1>1, <2>1 DEF ZeroWritten, OneWritten
<1>4. \A i \in Memory : i >= woff + 1 /\ (woff + 1) % 8 # 0 /\ i \div 8 = (woff + 1) \div 8
                          => m[i] = 0
  <2>1. SUFFICES ASSUME NEW i \in Memory, i >= woff + 1, (woff + 1) % 8 # 0,
                        i \div 8 = (woff + 1) \div 8
                 PROVE  m[i] = 0
    OBVIOUS
  <2>2. i \div 8 = woff \div 8 /\ i # woff /\ i >= woff
    BY <1>1, <2>1
  <2>3. woff % 8 # 0 => d[i] = 0
    BY <2>2
  <2> QED BY <2>2, <2>3 DEF ZeroWritten, OneWritten
<1> QED BY <1>2, <1>3, <1>4

\* memcpy puts its bits behind the ones that are there.
LEMMA CopiedIs ==
  ASSUME NEW d \in [Memory -> BIT], NEW s \in Bits, woff \in Nat
  PROVE  /\ Copied(d, s) \in [Memory -> BIT]
         /\ \A i \in Memory : i < woff => Copied(d, s)[i] = d[i]
<1>1. \A i \in Memory : i \in Nat
  BY BitStreamAssumption DEF Memory
<1>2. \A i \in Memory : woff <= i /\ i < woff + Len(s) => s[i - woff + 1] \in BIT
  BY <1>1 DEF Bits
<1> QED BY <1>1, <1>2 DEF Copied

-----------------------------------------------------------------------------
(* The steps of the sender keep the stream consistent, and its bits *)

\* The bits in front of the write offset stay where they are.
Kept == woff <= woff' /\ \A i \in Memory : i < woff => data'[i] = data[i]

\* What the memory, the size and the offset have to be after a step of a write.
WrittenWell ==
  /\ data' \in [Memory -> BIT] /\ heap' \in BOOLEAN
  /\ size' \in Nat /\ size' >= 8 * StackBytes /\ (heap' <=> size' > 8 * StackBytes)
  /\ woff' \in 0..MaxBits /\ woff' <= size'
  /\ PaddingIsZero'
  /\ Kept

\* A bit is written.
LEMMA WriteBitStep ==
  ASSUME NEW b \in BIT, StreamConsistent, copy, WriteBit(b)
  PROVE  WrittenWell /\ woff' = woff + 1 /\ woff' <= MaxBits
<1>1. /\ TypeOK /\ WritesInBounds /\ woff \in Nat /\ woff < MaxBits /\ woff <= size
      /\ MaxBits \in Nat /\ size \in Nat /\ StackBytes \in Nat /\ size >= 8 * StackBytes
  <2>1. Len(todo) \in Nat
    BY DEF StreamConsistent, TypeOK, Bits
  <2> QED BY <2>1, BitStreamAssumption
          DEF StreamConsistent, TypeOK, WritesInBounds, WriteBit
<1>2. PICK junk \in BIT :
        data' = IF b = 1 THEN OneWritten(Added(1, junk)) ELSE ZeroWritten(Added(1, junk))
  BY DEF WriteBit
<1>. DEFINE d == Added(1, junk)
<1>3. /\ d \in [Memory -> BIT]
      /\ \A i \in Memory : i < woff => d[i] = data[i]
      /\ \A i \in Memory : woff % 8 # 0 /\ i \div 8 = woff \div 8 => d[i] = data[i]
  BY <1>1, AddedKeeps
<1>4. \A i \in Memory : i >= woff /\ woff % 8 # 0 /\ i \div 8 = woff \div 8 => d[i] = 0
  BY <1>3 DEF StreamConsistent, PaddingIsZero
<1>5. data' \in {ZeroWritten(d), OneWritten(d)}
  BY <1>2
<1>6. woff' = woff + 1
  BY DEF WriteBit
<1>. HIDE DEF d
<1>7. /\ data' \in [Memory -> BIT]
      /\ \A i \in Memory : i < woff => data'[i] = d[i]
      /\ \A i \in Memory : i >= woff + 1 /\ (woff + 1) % 8 # 0 /\ i \div 8 = (woff + 1) \div 8
                             => data'[i] = 0
  BY <1>1, <1>3, <1>4, <1>5, BitWrittenIs
<1>8. PaddingIsZero'
  BY <1>6, <1>7 DEF PaddingIsZero
<1>9. /\ size' \in Nat /\ size' >= woff + 1 /\ size' >= size
      /\ heap' <=> size' > 8 * StackBytes
  <2>1. /\ Larger(NewSize(1), size) \in Nat
        /\ Larger(NewSize(1), size) >= woff + 1
        /\ Larger(NewSize(1), size) >= size
        /\ (heap \/ Moved(1)) <=> Larger(NewSize(1), size) > 8 * StackBytes
    BY <1>1, RoomForBits
  <2> QED BY <2>1 DEF WriteBit, AddBitsAndReallocate
<1>10. heap' \in BOOLEAN
  BY <1>1 DEF WriteBit, AddBitsAndReallocate, Moved, MoreBytes, TypeOK
<1>11. size' >= 8 * StackBytes
  BY <1>1, <1>9
<1>12. Kept
  BY <1>1, <1>3, <1>6, <1>7 DEF Kept
<1> QED BY <1>1, <1>6, <1>7, <1>8, <1>9, <1>10, <1>11, <1>12 DEF WrittenWell

\* A call of WriteBits goes up to its loop, or writes everything at once.
LEMMA BeginWriteBitsStep ==
  ASSUME StreamConsistent, BeginWriteBits
  PROVE  /\ WrittenWell
         /\ todo' \in Bits /\ calls' \in Seq(Bits)
         /\ woff' + Len(todo') <= size' /\ woff' + Len(todo') <= MaxBits
<1>1. /\ TypeOK /\ WritesInBounds /\ PaddingIsZero
      /\ woff \in Nat /\ woff <= size /\ woff <= MaxBits
      /\ MaxBits \in Nat /\ size \in Nat /\ StackBytes \in Nat /\ size >= 8 * StackBytes
      /\ heap \in BOOLEAN
      /\ heap <=> size > 8 * StackBytes
      /\ data \in [Memory -> BIT]
  <2>1. Len(todo) \in Nat
    BY DEF StreamConsistent, TypeOK, Bits
  <2> QED BY <2>1, BitStreamAssumption
          DEF StreamConsistent, TypeOK, WritesInBounds, BeginWriteBits
<1>2. /\ calls[1] \in Bits /\ calls' \in Seq(Bits)
      /\ Len(calls[1]) \in Nat /\ (calls[1] # <<>> => Len(calls[1]) \in Nat \ {0})
  <2>1. calls \in Seq(Bits) /\ calls # <<>>
    BY DEF StreamConsistent, TypeOK, BeginWriteBits
  <2>2. Len(calls) \in Nat \ {0}
    BY <2>1, EmptySeq
  <2>3. calls[1] \in Bits
    BY <2>1, <2>2, ElementOfSeq
  <2>4. Tail(calls) \in Seq(Bits)
    BY <2>1, HeadTailProperties
  <2> QED BY <2>3, <2>4, EmptySeq, LenProperties DEF BeginWriteBits, Bits
<1>. DEFINE n == Len(calls[1])
<1>3. woff + n <= MaxBits /\ todo = <<>> /\ <<>> \in Bits /\ Len(<<>>) = 0
  BY DEF BeginWriteBits, Bits
<1>4. CASE calls[1] = <<>>
  <2>1. woff' = woff /\ todo' = todo /\ data' = data /\ heap' = heap /\ size' = size
    BY <1>4 DEF BeginWriteBits, buffer
  <2>2. PaddingIsZero'
    BY <1>1, <2>1 DEF PaddingIsZero
  <2>3. woff' \in 0..MaxBits /\ woff' <= size' /\ Kept
    BY <1>1, <2>1 DEF Kept
  <2>4. size' \in Nat /\ size' >= 8 * StackBytes
    BY <1>1, <2>1
  <2>5. heap' \in BOOLEAN /\ (heap' <=> size' > 8 * StackBytes)
    BY <1>1, <2>1
  <2>6. woff' + Len(todo') <= size' /\ woff' + Len(todo') <= MaxBits /\ todo' \in Bits
    BY <1>1, <1>3, <2>1
  <2> QED BY <1>1, <1>2, <2>1, <2>2, <2>3, <2>4, <2>5, <2>6 DEF WrittenWell
<1>5. CASE calls[1] # <<>>
  <2>1. n \in Nat \ {0} /\ copy
    BY <1>2, <1>5 DEF BeginWriteBits
  <2>2. /\ heap' = (heap \/ Moved(n)) /\ size' = Larger(NewSize(n), size)
        /\ \E junk \in BIT :
             IF woff % 8 = 0 /\ n % 8 = 0
             THEN /\ data' = Copied(Added(n, junk), calls[1])
                  /\ woff' = woff + n /\ todo' = todo
             ELSE data' = Added(n, junk) /\ todo' = calls[1] /\ woff' = woff
    BY <1>5 DEF BeginWriteBits, AddBitsAndReallocate
  <2>3. PICK junk \in BIT :
             IF woff % 8 = 0 /\ n % 8 = 0
             THEN /\ data' = Copied(Added(n, junk), calls[1])
                  /\ woff' = woff + n /\ todo' = todo
             ELSE data' = Added(n, junk) /\ todo' = calls[1] /\ woff' = woff
    BY <2>2
  <2>. DEFINE d == Added(n, junk)
  <2>4. /\ d \in [Memory -> BIT]
        /\ \A i \in Memory : i < woff => d[i] = data[i]
        /\ \A i \in Memory : woff % 8 # 0 /\ i \div 8 = woff \div 8 => d[i] = data[i]
    BY <1>1, <2>1, AddedKeeps
  <2>5. /\ size' \in Nat /\ size' >= woff + n /\ size' >= size
        /\ heap' <=> size' > 8 * StackBytes
    <3>1. /\ Larger(NewSize(n), size) \in Nat
          /\ Larger(NewSize(n), size) >= woff + n
          /\ Larger(NewSize(n), size) >= size
          /\ (heap \/ Moved(n)) <=> Larger(NewSize(n), size) > 8 * StackBytes
      BY <1>1, <2>1, RoomForBits
    <3> QED BY <2>2, <3>1
  <2>6. heap' \in BOOLEAN
    BY <1>1, <2>2 DEF Moved, MoreBytes
  <2>. HIDE DEF d
  <2>7. CASE woff % 8 = 0 /\ n % 8 = 0
    <3>1. data' = Copied(d, calls[1]) /\ woff' = woff + n /\ todo' = <<>>
      BY <1>3, <2>3, <2>7 DEF d
    <3>2. data' \in [Memory -> BIT] /\ \A i \in Memory : i < woff => data'[i] = d[i]
      BY <1>1, <1>2, <2>4, <3>1, CopiedIs
    <3>3. woff' % 8 = 0
      BY <1>1, <2>1, <2>7, <3>1, WholeBytes
    <3>4. PaddingIsZero'
      BY <3>3 DEF PaddingIsZero
    <3>5. woff' \in 0..MaxBits /\ woff' <= size' /\ woff <= woff' /\ size' >= 8 * StackBytes
      BY <1>1, <1>3, <2>1, <2>5, <3>1
    <3>6. Kept
      BY <2>4, <3>2, <3>5 DEF Kept
    <3>7. woff' + Len(todo') <= size' /\ woff' + Len(todo') <= MaxBits /\ todo' \in Bits
      BY <1>1, <1>3, <2>1, <2>5, <3>1
    <3> QED BY <1>2, <2>5, <2>6, <3>2, <3>4, <3>5, <3>6, <3>7 DEF WrittenWell
  <2>8. CASE ~(woff % 8 = 0 /\ n % 8 = 0)
    <3>1. data' = d /\ woff' = woff /\ todo' = calls[1]
      BY <2>3, <2>8 DEF d
    <3>2. PaddingIsZero'
      BY <1>1, <2>4, <3>1 DEF PaddingIsZero
    <3>3. woff' \in 0..MaxBits /\ woff' <= size' /\ woff <= woff' /\ size' >= 8 * StackBytes
      BY <1>1, <2>1, <2>5, <3>1
    <3>4. Kept
      BY <2>4, <3>1, <3>3 DEF Kept
    <3>5. woff' + Len(todo') <= size' /\ woff' + Len(todo') <= MaxBits /\ todo' \in Bits
      BY <1>2, <1>3, <2>5, <3>1
    <3> QED BY <1>2, <2>4, <2>5, <2>6, <3>1, <3>2, <3>3, <3>4, <3>5 DEF WrittenWell
  <2> QED BY <2>7, <2>8
<1> QED BY <1>4, <1>5

\* A round of the loop writes the bits it takes off.
LEMMA WriteBitsLoopStep ==
  ASSUME StreamConsistent, WriteBitsLoop
  PROVE  /\ copy /\ WrittenWell
         /\ todo' \in Bits /\ woff' + Len(todo') <= size' /\ woff' + Len(todo') <= MaxBits
         /\ \A j \in 1..Chunk : data'[woff + j - 1] = todo[j]
<1>1. copy
  BY DEF StreamConsistent, Underway, WriteBitsLoop, Writing
<1>2. /\ data \in [Memory -> BIT] /\ heap \in BOOLEAN
      /\ size \in Nat /\ size >= 8 * StackBytes /\ StackBytes \in Nat
      /\ heap <=> size > 8 * StackBytes
      /\ woff \in Nat /\ MaxBits \in Nat /\ todo \in Seq(BIT)
      /\ woff + Len(todo) <= size /\ woff + Len(todo) <= MaxBits
  BY <1>1, BitStreamAssumption
     DEF StreamConsistent, TypeOK, WritesInBounds, Underway, Bits
<1>3. Len(todo) \in Nat /\ Len(todo) >= 1
  <2>1. Len(todo) \in Nat \ {0}
    BY <1>2, EmptySeq DEF WriteBitsLoop
  <2> QED BY <2>1
<1>4. Chunk \in 1..8 /\ Chunk <= Len(todo)
  BY <1>3, AtMostAByte DEF Chunk
<1>. DEFINE s == SubSeq(todo, 1, Chunk)
<1>5. /\ s \in Bits /\ Len(s) = Chunk
      /\ \A j \in 1..Chunk : s[j] = todo[j]
  <2>1. \A i \in 1..Chunk : todo[i] \in BIT
    BY <1>2, <1>3, <1>4, ElementOfSeq
  <2> QED BY <1>4, <2>1, SubSeqProperties DEF Bits
<1>6. todo' \in Bits /\ Len(todo') = Len(todo) - Chunk
  <2>1. \A i \in Chunk + 1..Len(todo) : todo[i] \in BIT
    BY <1>2, <1>3, <1>4, ElementOfSeq
  <2>2. todo' = SubSeq(todo, Chunk + 1, Len(todo))
    BY DEF WriteBitsLoop
  <2> QED BY <1>3, <1>4, <2>1, <2>2, SubSeqProperties DEF Bits
<1>7. data' = ByteWritten(data, s) /\ woff' = woff + Chunk /\ heap' = heap /\ size' = size
  BY DEF WriteBitsLoop
<1>8. \A i \in Memory : i >= woff /\ woff % 8 # 0 /\ i \div 8 = woff \div 8 => data[i] = 0
  BY DEF StreamConsistent, PaddingIsZero
<1>. HIDE DEF s
<1>9. /\ data' \in [Memory -> BIT]
      /\ \A i \in Memory : i < woff => data'[i] = data[i]
      /\ \A j \in 1..Len(s) : data'[woff + j - 1] = s[j]
      /\ \A i \in Memory : /\ i >= woff + Len(s) /\ (woff + Len(s)) % 8 # 0
                           /\ i \div 8 = (woff + Len(s)) \div 8
                           => data'[i] = 0
  <2>1. Len(s) \in 1..8 /\ woff + Len(s) <= MaxBits
    BY <1>2, <1>4, <1>5
  <2> QED BY ZenonT(60), <1>2, <1>5, <1>7, <1>8, <2>1, ByteWrittenIs
<1>10. PaddingIsZero'
  BY <1>5, <1>7, <1>9 DEF PaddingIsZero
<1>11. /\ woff' \in 0..MaxBits /\ woff' <= size' /\ woff <= woff'
       /\ woff' + Len(todo') <= size' /\ woff' + Len(todo') <= MaxBits
  BY <1>2, <1>3, <1>4, <1>6, <1>7
<1>12. size' \in Nat /\ size' >= 8 * StackBytes /\ heap' \in BOOLEAN
       /\ (heap' <=> size' > 8 * StackBytes)
  BY <1>2, <1>7
<1>13. Kept
  BY <1>9, <1>11 DEF Kept
<1>14. WrittenWell
  BY <1>9, <1>10, <1>11, <1>12, <1>13 DEF WrittenWell
<1>15. \A j \in 1..Chunk : data'[woff + j - 1] = todo[j]
  BY <1>5, <1>9
<1> QED BY <1>1, <1>6, <1>11, <1>14, <1>15

\* What a sender's step that writes nothing keeps.
LEMMA NotWritten ==
  ASSUME StreamConsistent, copy, UNCHANGED <<buffer, woff>>
  PROVE  WrittenWell
<1>1. data' = data /\ heap' = heap /\ size' = size /\ woff' = woff
  BY DEF buffer
<1>2. /\ data \in [Memory -> BIT] /\ heap \in BOOLEAN
      /\ size \in Nat /\ size >= 8 * StackBytes
      /\ heap <=> size > 8 * StackBytes
      /\ woff \in 0..MaxBits /\ woff + Len(todo) <= size /\ todo \in Seq(BIT)
  BY BitStreamAssumption DEF StreamConsistent, TypeOK, WritesInBounds, Bits
<1>3. woff \in Nat /\ Len(todo) \in Nat
  BY <1>2, LenProperties, BitStreamAssumption
<1>4. woff' <= size'
  BY <1>1, <1>2, <1>3
<1>5. PaddingIsZero'
  BY <1>1 DEF StreamConsistent, PaddingIsZero
<1>6. Kept
  BY <1>1, <1>3 DEF Kept
<1> QED BY <1>1, <1>2, <1>4, <1>5, <1>6 DEF WrittenWell

\* What the calls under way have to be after a step of the sender.
CallsWell ==
  /\ todo' \in Bits /\ calls' \in Seq(Bits)
  /\ packed' \in [value : Bits, current : Nat] /\ fields' \in Seq(Field)
  /\ woff' + Len(todo') <= size' /\ woff' + Len(todo') <= MaxBits
  /\ packed' # NotPacked => 8 * packed'.current + 8 <= Len(packed'.value)

\* A step of the sender is well written and keeps the stream consistent.
SenderSteps ==
  \/ \E f \in Field : WriteField(f)
  \/ WriteCompressedRound \/ BeginWriteBits \/ WriteBitsLoop

\* What a step of the sender does.
LEMMA SenderStep ==
  ASSUME StreamConsistent, SenderSteps
  PROVE  copy /\ copy' = copy /\ WrittenWell /\ StreamConsistent' /\ UNCHANGED reader
<1>1. /\ todo \in Bits /\ calls \in Seq(Bits) /\ packed \in [value : Bits, current : Nat]
      /\ fields \in Seq(Field)
      /\ roff \in 0..MaxBits /\ copy \in BOOLEAN
      /\ asked \in [bytes : Nat, current : Nat] /\ out \in Bits
      /\ got \in Seq([ok : BOOLEAN, value : Bits])
      /\ packed # NotPacked => 8 * packed.current + 8 <= Len(packed.value)
      /\ asked # NotAsked => asked.current < asked.bytes
      /\ woff \in Nat /\ Len(todo) \in Nat /\ woff + Len(todo) <= MaxBits
      /\ copy => woff + Len(todo) <= size
  <2>1. todo \in Seq(BIT) /\ woff \in 0..MaxBits
    BY DEF StreamConsistent, TypeOK, Bits
  <2>2. Len(todo) \in Nat /\ woff \in Nat
    BY <2>1, LenProperties, BitStreamAssumption
  <2> QED BY <2>2 DEF StreamConsistent, TypeOK, Underway, WritesInBounds
<1>2. copy
  BY DEF SenderSteps, StreamConsistent, Underway, Writing, WriteField,
         WriteCompressedRound, BeginWriteBits, WriteBitsLoop
<1>3. copy' = copy /\ UNCHANGED reader
  BY DEF SenderSteps, WriteField, WriteCompressedRound, BeginWriteBits, WriteBitsLoop
<1>4. WrittenWell /\ CallsWell
  <2>1. ASSUME NEW f \in Field, WriteField(f)
        PROVE  WrittenWell /\ CallsWell
    <3>1. f.op \in {"bit", "bits", "compressed"} /\ f.value \in Bits
      BY BitStreamAssumption
    <3>2. fields' \in Seq(Field) /\ todo' = todo /\ todo = <<>> /\ calls = <<>> /\ packed = NotPacked
      BY <1>1, <2>1, AppendProperties DEF WriteField, Writing
    <3>3. Len(todo') = 0
      BY <3>2
    <3>4. CASE f.op = "bit"
      <4>1. WriteBit(f.value[1]) /\ packed' = packed /\ calls' = calls
        BY <2>1, <3>4 DEF WriteField
      <4>2. f.value[1] \in BIT
        BY <3>1, <3>4, BitStreamAssumption, ElementOfSeq DEF Bits
      <4>3. WrittenWell
        BY <1>2, <4>1, <4>2, WriteBitStep
      <4>4. woff' \in Nat /\ woff' <= MaxBits /\ woff' <= size'
        BY <4>3, BitStreamAssumption DEF WrittenWell
      <4> QED BY <1>1, <3>2, <3>3, <4>1, <4>3, <4>4 DEF CallsWell
    <3>5. CASE f.op = "bits"
      <4>1. calls' = <<f.value>> /\ packed' = packed /\ UNCHANGED <<buffer, woff>>
        BY <2>1, <3>5 DEF WriteField
      <4>2. calls' \in Seq(Bits)
        BY <3>1, <4>1
      <4>3. WrittenWell
        BY <1>2, <4>1, NotWritten
      <4>4. woff' \in Nat /\ woff' <= MaxBits /\ woff' <= size'
        BY <4>3, BitStreamAssumption DEF WrittenWell
      <4> QED BY <1>1, <3>2, <3>3, <4>1, <4>2, <4>3, <4>4 DEF CallsWell
    <3>6. CASE f.op = "compressed"
      <4>1. /\ packed' = [value |-> f.value, current |-> Len(f.value) \div 8 - 1]
            /\ calls' = calls /\ UNCHANGED <<buffer, woff>>
        BY <2>1, <3>6 DEF WriteField
      <4>2. Len(f.value) \in Nat /\ Len(f.value) > 0 /\ Len(f.value) % 8 = 0
        BY <3>1, <3>6, BitStreamAssumption, LenProperties DEF Bits
      <4>3. packed' \in [value : Bits, current : Nat]
        <5>1. Len(f.value) \div 8 - 1 \in Nat
          BY <4>2, LastByte
        <5> QED BY <3>1, <4>1, <5>1
      <4>4. 8 * packed'.current + 8 <= Len(packed'.value)
        <5>1. 8 * (Len(f.value) \div 8 - 1) + 8 = Len(f.value)
          BY <4>2, LastByte
        <5>2. packed'.value = f.value /\ packed'.current = Len(f.value) \div 8 - 1
          BY <4>1
        <5>3. Len(f.value) <= Len(f.value)
          BY <4>2
        <5> QED BY <5>1, <5>2, <5>3
      <4>5. WrittenWell
        BY <1>2, <4>1, NotWritten
      <4>6. woff' \in Nat /\ woff' <= MaxBits /\ woff' <= size'
        BY <4>5, BitStreamAssumption DEF WrittenWell
      <4>7. woff' + Len(todo') <= size' /\ woff' + Len(todo') <= MaxBits
        BY <3>3, <4>6
      <4>8. calls' \in Seq(Bits) /\ todo' \in Bits
        BY <1>1, <3>2, <4>1
      <4> QED BY <3>2, <4>3, <4>4, <4>5, <4>7, <4>8 DEF CallsWell
    <3> QED BY <3>1, <3>4, <3>5, <3>6
  <2>2. CASE WriteCompressedRound
    <3>1. UNCHANGED <<buffer, woff>> /\ todo' = todo /\ fields' = fields /\ packed # NotPacked
      BY <2>2 DEF WriteCompressedRound
    <3>2. WrittenWell
      BY <1>2, <3>1, NotWritten
    <3>3. woff' = woff /\ size' = size
      BY <3>1 DEF buffer
    <3>4. CASE packed.current > 0 /\ ByteOf(packed.value, packed.current) = Zeros(8)
      <4>1. /\ packed' = [packed EXCEPT !.current = @ - 1] /\ calls' = <<Flag(1)>>
        BY <2>2, <3>4 DEF WriteCompressedRound
      <4>2. calls' \in Seq(Bits)
        BY <4>1, FlagType DEF BIT
      <4>3. /\ packed' \in [value : Bits, current : Nat]
            /\ packed'.value = packed.value /\ packed'.current = packed.current - 1
        BY SMTT(30), <1>1, <3>4, <4>1
      <4>4. 8 * packed'.current + 8 <= Len(packed'.value)
        <5>1. packed.current \in Nat /\ Len(packed.value) \in Nat
          BY <1>1, LenProperties DEF Bits
        <5> QED BY SMTT(30), <1>1, <3>1, <3>4, <4>3, <5>1
      <4> QED BY <1>1, <1>2, <3>1, <3>2, <3>3, <4>2, <4>3, <4>4 DEF CallsWell
    <3>5. CASE ~(packed.current > 0 /\ ByteOf(packed.value, packed.current) = Zeros(8))
      <4>1. packed' = NotPacked /\ calls' = LastCalls(packed.value, packed.current)
        BY <2>2, <3>5 DEF WriteCompressedRound
      <4>2. calls' \in Seq(Bits)
        BY <1>1, <3>1, <4>1, LastCallsType
      <4>3. packed' \in [value : Bits, current : Nat]
        BY <4>1 DEF NotPacked, Bits
      <4> QED BY <1>1, <1>2, <3>1, <3>2, <3>3, <4>1, <4>2, <4>3 DEF CallsWell
    <3> QED BY <3>4, <3>5
  <2>3. CASE BeginWriteBits
    <3>1. packed' = packed /\ fields' = fields
      BY <2>3 DEF BeginWriteBits
    <3> QED BY <1>1, <2>3, <3>1, BeginWriteBitsStep DEF CallsWell
  <2>4. CASE WriteBitsLoop
    <3>1. packed' = packed /\ fields' = fields /\ calls' = calls
      BY <2>4 DEF WriteBitsLoop
    <3> QED BY <1>1, <2>4, <3>1, WriteBitsLoopStep DEF CallsWell
  <2> QED BY <2>1, <2>2, <2>3, <2>4 DEF SenderSteps
<1>5. roff' = roff /\ asked' = asked /\ out' = out /\ got' = got
  BY <1>3 DEF reader
<1>6. TypeOK'
  <2>1. roff' \in 0..MaxBits /\ asked' \in [bytes : Nat, current : Nat] /\ out' \in Bits
        /\ got' \in Seq([ok : BOOLEAN, value : Bits]) /\ copy' \in BOOLEAN
    BY <1>1, <1>3, <1>5
  <2> QED BY <1>4, <2>1 DEF TypeOK, WrittenWell, CallsWell
<1>7. PaddingIsZero' /\ WritesInBounds'
  BY <1>4 DEF WrittenWell, CallsWell, WritesInBounds
<1>8. Underway'
  BY <1>1, <1>2, <1>3, <1>4, <1>5 DEF Underway, CallsWell
<1> QED BY <1>2, <1>3, <1>4, <1>6, <1>7, <1>8 DEF StreamConsistent

\* The packet holds the stream's bits and zeros up to a whole byte.
LEMMA SendStep ==
  ASSUME StreamConsistent, Send
  PROVE  /\ copy /\ ~copy' /\ roff' = roff /\ out' = out
         /\ StreamConsistent'
         /\ Kept /\ woff' % 8 = 0 /\ woff' < woff + 8
         /\ \A i \in Memory : woff <= i /\ i < woff' => data'[i] = 0
<1>1. /\ data \in [Memory -> BIT] /\ heap \in BOOLEAN /\ woff \in Nat /\ woff <= MaxBits
      /\ MaxBits \in Nat /\ MaxBits % 8 = 0
      /\ \A i \in Memory : i \in Nat
  BY BitStreamAssumption DEF StreamConsistent, TypeOK, Memory
<1>. DEFINE b == 8 * BytesUsed
<1>2. /\ b \in Nat /\ woff <= b /\ b < woff + 8 /\ b <= MaxBits /\ b % 8 = 0
      /\ \A i \in Nat : woff <= i /\ i < b => woff % 8 # 0 /\ i \div 8 = woff \div 8
  BY <1>1, RoundedUp DEF BytesUsed, BitsToBytes
<1>3. /\ copy /\ copy' = FALSE /\ ~Writing /\ size' = b /\ woff' = b /\ heap' = heap
      /\ todo' = todo /\ packed' = packed /\ calls' = calls /\ fields' = fields
      /\ roff' = roff /\ asked' = asked /\ out' = out /\ got' = got
  BY DEF Send, writer, reader
<1>4. PICK junk \in BIT : data' = [i \in Memory |-> IF i < b THEN data[i] ELSE junk]
  BY DEF Send
<1>. HIDE DEF b
<1>5. data' \in [Memory -> BIT]
  BY <1>1, <1>4
<1>6. Kept
  BY <1>1, <1>2, <1>3, <1>4 DEF Kept
<1>7. \A i \in Memory : woff <= i /\ i < woff' => data'[i] = 0
  BY <1>1, <1>2, <1>3, <1>4 DEF StreamConsistent, PaddingIsZero
<1>8. TypeOK'
  <2>1. size' \in Nat /\ woff' \in 0..MaxBits
    BY <1>1, <1>2, <1>3
  <2>2. heap' \in BOOLEAN
    BY <1>1, <1>3
  <2>3. copy' \in BOOLEAN /\ ~copy'
    BY <1>3
  <2> QED BY <1>3, <1>5, <2>1, <2>2, <2>3 DEF StreamConsistent, TypeOK
<1>9. PaddingIsZero' /\ WritesInBounds'
  BY <1>2, <1>3 DEF PaddingIsZero, WritesInBounds
<1>10. Underway'
  <2>1. todo = <<>> /\ Len(todo') = 0
    BY <1>3 DEF Writing
  <2>2. woff' + Len(todo') <= MaxBits
    BY <1>2, <1>3, <2>1
  <2>3. ~Writing'
    BY <1>3 DEF Writing
  <2> QED BY <1>2, <1>3, <2>2, <2>3 DEF StreamConsistent, Underway
<1> QED BY <1>2, <1>3, <1>6, <1>7, <1>8, <1>9, <1>10 DEF StreamConsistent

-----------------------------------------------------------------------------
(* The steps of the receiver keep the stream, and take its bits *)

\* What a step of the receiver takes: nothing, the bits that come next, or one
\* that is behind the last.
Taken ==
  \/ roff' = roff /\ out' = out
  \/ /\ roff <= roff' /\ roff' <= woff
     /\ out' = At(roff, roff' - roff)
  \/ woff < roff'

\* What the state of the reads has to be after a step of the receiver.
ReadsWell ==
  /\ roff' \in 0..MaxBits /\ asked' \in [bytes : Nat, current : Nat] /\ out' \in Bits
  /\ got' \in Seq([ok : BOOLEAN, value : Bits])
  /\ asked' # NotAsked => asked'.current < asked'.bytes

\* An answer is added to those the receiver has.
LEMMA AnswerType ==
  ASSUME StreamConsistent, NEW v \in Bits, Answer(TRUE, v) \/ Answer(FALSE, v)
  PROVE  got' \in Seq([ok : BOOLEAN, value : Bits])
<1>1. /\ [ok |-> TRUE, value |-> v] \in [ok : BOOLEAN, value : Bits]
      /\ [ok |-> FALSE, value |-> v] \in [ok : BOOLEAN, value : Bits]
  OBVIOUS
<1>2. got \in Seq([ok : BOOLEAN, value : Bits])
  BY DEF StreamConsistent, TypeOK
<1>3. \E e \in [ok : BOOLEAN, value : Bits] : got' = Append(got, e)
  BY <1>1, Zenon DEF Answer
<1> QED BY <1>2, <1>3, AppendProperties

\* A bit, bits and compressed values are read.
LEMMA ReadFieldStep ==
  ASSUME StreamConsistent, ReadField
  PROVE  ReadsWell /\ Taken
<1>1. /\ data \in [Memory -> BIT] /\ woff \in Nat /\ woff <= MaxBits /\ MaxBits \in Nat
      /\ roff \in Nat /\ roff <= MaxBits /\ out \in Bits
      /\ <<>> \in Bits
  BY BitStreamAssumption DEF StreamConsistent, TypeOK, Bits
<1>2. PICK f \in Field : \/ f.op = "bit" /\ ReadBit
                         \/ f.op = "bits" /\ ReadBits(Len(f.value))
                         \/ f.op = "compressed" /\ ReadCompressed(Len(f.value))
  BY DEF ReadField, Expected, StreamConsistent, TypeOK
<1>3. f.value \in Bits /\ Len(f.value) \in Nat
  BY BitStreamAssumption, LenProperties DEF Bits
<1>. DEFINE n == Len(f.value)
<1>4. CASE ReadBit
  <2>1. /\ roff < MaxBits /\ roff' = roff + 1 /\ out' = At(roff, 1) /\ Answer(TRUE, At(roff, 1))
        /\ asked = NotAsked /\ asked' = asked
    BY <1>4 DEF ReadBit
  <2>2. At(roff, 1) \in Bits
    BY <1>1, <2>1, AtType
  <2>3. ReadsWell
    <3>1. got' \in Seq([ok : BOOLEAN, value : Bits])
      BY <2>1, <2>2, AnswerType
    <3>2. NotAsked \in [bytes : Nat, current : Nat]
      BY DEF NotAsked
    <3> QED BY <1>1, <2>1, <2>2, <3>1, <3>2 DEF ReadsWell
  <2>4. roff' - roff = 1
    BY <1>1, <2>1
  <2> QED BY <1>1, <2>1, <2>3, <2>4 DEF Taken
<1>5. CASE ReadBits(n)
  <2>1. asked = NotAsked /\ asked' = asked /\ asked' \in [bytes : Nat, current : Nat]
    BY <1>5 DEF ReadBits, NotAsked
  <2>2. CASE HasBits(n)
    <3>1. roff' = roff + n /\ out' = At(roff, n) /\ Answer(TRUE, At(roff, n)) /\ roff + n <= woff
      BY <1>5, <2>2 DEF ReadBits, HasBits
    <3>2. At(roff, n) \in Bits /\ roff + n <= MaxBits
      BY <1>1, <1>3, <3>1, AtType
    <3>3. ReadsWell
      <4>1. got' \in Seq([ok : BOOLEAN, value : Bits])
        BY <3>1, <3>2, AnswerType
      <4> QED BY <1>1, <1>3, <2>1, <3>1, <3>2, <4>1 DEF ReadsWell
    <3>4. roff' - roff = n /\ roff <= roff' /\ roff' <= woff
      BY <1>1, <1>3, <3>1
    <3> QED BY <3>1, <3>3, <3>4 DEF Taken
  <2>3. CASE ~HasBits(n)
    <3>1. roff' = roff /\ out' = out /\ Answer(FALSE, <<>>)
      BY <1>5, <2>3 DEF ReadBits
    <3>2. ReadsWell
      <4>1. got' \in Seq([ok : BOOLEAN, value : Bits])
        BY <1>1, <3>1, AnswerType
      <4> QED BY <1>1, <2>1, <3>1, <4>1 DEF ReadsWell
    <3> QED BY <3>1, <3>2 DEF Taken
  <2> QED BY <2>2, <2>3
<1>6. CASE f.op = "compressed" /\ ReadCompressed(n)
  <2>1. n > 0 /\ n % 8 = 0
    BY <1>6, BitStreamAssumption
  <2>2. /\ asked' = [bytes |-> n \div 8, current |-> n \div 8 - 1]
        /\ roff' = roff /\ out' = out /\ got' = got
    BY <1>6 DEF ReadCompressed
  <2>3. n \div 8 - 1 \in Nat /\ n \div 8 \in Nat /\ n \div 8 - 1 < n \div 8
    BY <1>3, <2>1, LastByte
  <2>4. asked' \in [bytes : Nat, current : Nat] /\ asked'.current < asked'.bytes
    BY <2>2, <2>3
  <2> QED BY <1>1, <2>2, <2>4 DEF ReadsWell, Taken, StreamConsistent, TypeOK
<1> QED BY <1>2, <1>4, <1>5, <1>6

\* A flag of a compressed value is read, and what it tells to read.
LEMMA ReadCompressedFlagStep ==
  ASSUME StreamConsistent, ReadCompressedFlag
  PROVE  ReadsWell /\ Taken
<1>1. /\ data \in [Memory -> BIT] /\ woff \in Nat /\ woff <= MaxBits /\ MaxBits \in Nat
      /\ roff \in Nat /\ roff <= MaxBits /\ out \in Bits
      /\ <<>> \in Bits
      /\ asked \in [bytes : Nat, current : Nat] /\ asked # NotAsked
      /\ asked.bytes \in Nat /\ asked.current \in Nat /\ asked.current < asked.bytes
      /\ got \in Seq([ok : BOOLEAN, value : Bits])
  BY BitStreamAssumption DEF StreamConsistent, TypeOK, Underway, Bits, ReadCompressedFlag
<1>2. NotAsked \in [bytes : Nat, current : Nat]
  BY DEF NotAsked
<1>3. CASE ~HasBits(8)
  <2>1. asked' = NotAsked /\ roff' = roff /\ out' = out /\ Answer(FALSE, <<>>)
    BY <1>3 DEF ReadCompressedFlag
  <2>2. got' \in Seq([ok : BOOLEAN, value : Bits])
    BY <1>1, <2>1, AnswerType
  <2> QED BY <1>1, <1>2, <2>1, <2>2 DEF ReadsWell, Taken
<1>4. CASE HasBits(8) /\ UpperZero
  <2>1. /\ asked' = [asked EXCEPT !.current = @ - 1] /\ asked.current > 0
        /\ roff' = roff + 8 /\ out' = At(roff, 8) /\ got' = got /\ roff + 8 <= woff
    BY <1>4 DEF ReadCompressedFlag, HasBits, UpperZero
  <2>2. At(roff, 8) \in Bits
    BY <1>1, <2>1, AtType
  <2>3. /\ asked' \in [bytes : Nat, current : Nat]
        /\ asked'.current < asked'.bytes
    BY <1>1, <2>1
  <2>4. roff' \in 0..MaxBits /\ roff <= roff' /\ roff' <= woff /\ roff' - roff = 8
    BY <1>1, <2>1
  <2> QED BY <1>1, <2>1, <2>2, <2>3, <2>4 DEF ReadsWell, Taken
<1>5. CASE HasBits(8) /\ ~UpperZero
  <2>. DEFINE n == Rest(IsSet(roff))
             v == LastBits(At(roff + 8, n)) \o Zeros(8 * (asked.bytes - asked.current - 1))
  <2>1. /\ asked' = NotAsked
        /\ IF HasBits(8 + n)
           THEN roff' = roff + 8 + n /\ out' = At(roff, 8 + n) /\ Answer(TRUE, v)
           ELSE roff' = roff + 8 /\ out' = At(roff, 8) /\ Answer(FALSE, <<>>)
    BY <1>5 DEF ReadCompressedFlag
  <2>2. n \in Nat
    BY <1>1 DEF Rest
  <2>. HIDE DEF n
  <2>3. roff + 8 <= woff
    BY <1>5 DEF HasBits
  <2>4. CASE HasBits(8 + n)
    <3>1. /\ roff' = roff + 8 + n /\ out' = At(roff, 8 + n) /\ Answer(TRUE, v)
          /\ roff + (8 + n) <= woff
      BY <2>1, <2>4 DEF HasBits
    <3>2. At(roff, 8 + n) \in Bits
      BY <1>1, <2>2, <3>1, AtType
    <3>3. At(roff + 8, n) \in Bits
      BY <1>1, <2>2, <3>1, AtType
    <3>4. v \in Bits
      <4>1. \A k \in Nat : Zeros(k) \in Bits
        BY ZerosType
      <4>2. LastBits(At(roff + 8, n)) \in Bits
        <5>1. Len(At(roff + 8, n)) \in Nat
          BY <3>3, LenProperties DEF Bits
        <5>2. (IF Len(At(roff + 8, n)) < 8 THEN 8 - Len(At(roff + 8, n)) ELSE 0) \in Nat
          BY <5>1
        <5> QED BY <3>3, <4>1, <5>2, ConcatProperties DEF LastBits, Bits
      <4>3. 8 * (asked.bytes - asked.current - 1) \in Nat
        BY <1>1
      <4> QED BY <4>1, <4>2, <4>3, ConcatProperties DEF Bits
    <3>. HIDE DEF v
    <3>5. roff' \in 0..MaxBits /\ roff <= roff' /\ roff' <= woff /\ roff' - roff = 8 + n
      BY <1>1, <2>2, <3>1
    <3>6. got' \in Seq([ok : BOOLEAN, value : Bits])
      BY <3>1, <3>4, AnswerType
    <3> QED BY <1>2, <2>1, <3>1, <3>2, <3>5, <3>6 DEF ReadsWell, Taken
  <2>5. CASE ~HasBits(8 + n)
    <3>1. roff' = roff + 8 /\ out' = At(roff, 8) /\ Answer(FALSE, <<>>)
      BY <2>1, <2>5
    <3>2. At(roff, 8) \in Bits
      BY <1>1, <2>3, AtType
    <3>3. roff' \in 0..MaxBits /\ roff <= roff' /\ roff' <= woff /\ roff' - roff = 8
      BY <1>1, <2>3, <3>1
    <3>4. got' \in Seq([ok : BOOLEAN, value : Bits])
      BY <1>1, <3>1, AnswerType
    <3> QED BY <1>2, <2>1, <3>1, <3>2, <3>3, <3>4 DEF ReadsWell, Taken
  <2> QED BY <2>4, <2>5
<1> QED BY <1>3, <1>4, <1>5

\* A step of the receiver keeps the stream and is consistent.
LEMMA ReceiverStep ==
  ASSUME StreamConsistent, ReadField \/ ReadCompressedFlag
  PROVE  ~copy /\ StreamConsistent' /\ Taken /\ UNCHANGED <<data, woff, copy>>
<1>1. ~copy /\ UNCHANGED <<buffer, woff, copy, writer>>
  BY DEF ReadField, ReadBit, ReadBits, ReadCompressed, ReadCompressedFlag, Reading
<1>2. /\ data' = data /\ heap' = heap /\ size' = size /\ woff' = woff /\ copy' = copy
      /\ todo' = todo /\ packed' = packed /\ calls' = calls /\ fields' = fields
  BY <1>1 DEF buffer, writer
<1>3. ReadsWell /\ Taken
  BY ReadFieldStep, ReadCompressedFlagStep
<1>4. TypeOK'
  BY <1>2, <1>3 DEF ReadsWell, StreamConsistent, TypeOK
<1>5. PaddingIsZero' /\ WritesInBounds'
  BY <1>1, <1>2 DEF StreamConsistent, PaddingIsZero, WritesInBounds
<1>6. Underway'
  BY <1>2, <1>3 DEF ReadsWell, StreamConsistent, Underway, Writing
<1> QED BY <1>1, <1>2, <1>3, <1>4, <1>5, <1>6 DEF StreamConsistent

-----------------------------------------------------------------------------
(* The theorems *)

\* A new stream is consistent.
LEMMA InitConsistent ==
  ASSUME Init
  PROVE  StreamConsistent
<1>1. /\ data \in [Memory -> BIT] /\ heap = FALSE /\ size = 8 * StackBytes
      /\ woff = 0 /\ roff = 0 /\ copy = TRUE /\ todo = <<>> /\ packed = NotPacked
      /\ calls = <<>> /\ asked = NotAsked /\ out = <<>> /\ fields = <<>> /\ got = <<>>
      /\ StackBytes \in Nat /\ StackBytes >= 1 /\ MaxBits \in Nat
  BY BitStreamAssumption DEF Init
<1>2. Len(todo) = 0
  BY <1>1
<1>3. TypeOK
  <2>1. size \in Nat /\ size >= 8 * StackBytes /\ woff \in 0..MaxBits /\ roff \in 0..MaxBits
    BY <1>1
  <2>2. /\ todo \in Bits /\ calls \in Seq(Bits) /\ out \in Bits /\ fields \in Seq(Field)
        /\ got \in Seq([ok : BOOLEAN, value : Bits])
    BY <1>1 DEF Bits
  <2>3. packed \in [value : Bits, current : Nat] /\ asked \in [bytes : Nat, current : Nat]
    BY <1>1 DEF NotPacked, NotAsked, Bits
  <2>4. heap \in BOOLEAN /\ copy \in BOOLEAN
    BY <1>1
  <2> QED BY <1>1, <2>1, <2>2, <2>3, <2>4 DEF TypeOK
<1>4. PaddingIsZero /\ WritesInBounds
  BY <1>1, <1>2 DEF PaddingIsZero, WritesInBounds
<1>5. Underway
  BY <1>1, <1>2 DEF Underway
<1> QED BY <1>3, <1>4, <1>5 DEF StreamConsistent

\* A step that changes nothing keeps it so.
LEMMA StutterConsistent ==
  ASSUME StreamConsistent, UNCHANGED vars
  PROVE  StreamConsistent'
  BY DEF vars, StreamConsistent, TypeOK, PaddingIsZero, WritesInBounds, Underway, Writing

\* Whatever is written, in whatever order, no write of a bit stream leaves its
\* buffer, and the bits it is or-ed to are zero.
THEOREM AlwaysConsistent == Spec => []StreamConsistent
<1>1. StreamConsistent /\ [Next]_vars => StreamConsistent'
  BY SenderStep, SendStep, ReceiverStep, StutterConsistent DEF Next, SenderSteps
<1> QED BY InitConsistent, <1>1, PTL DEF Spec

\* What WriteBits writes in a round of its loop is what it was given.
THEOREM AlwaysWritesItsBits == Spec => WritesItsBits
<1>1. StreamConsistent /\ [Next]_vars
        => [WriteBitsLoop => \A j \in 1..Chunk : data'[woff + j - 1] = todo[j]]_vars
  BY WriteBitsLoopStep
<1> QED BY <1>1, AlwaysConsistent, PTL DEF Spec, WritesItsBits

\* The bits in front of the write offset stay the stream's first ones.
LEMMA KeptExtends ==
  ASSUME StreamConsistent, StreamConsistent', Kept
  PROVE  /\ Queue!Extended
         /\ At(0, woff)' = [i \in 1..woff' |-> data'[i - 1]]
         /\ Len(At(0, woff)) = woff /\ Len(At(0, woff)') = woff'
<1>1. /\ data \in [Memory -> BIT] /\ data' \in [Memory -> BIT]
      /\ woff \in Nat /\ woff' \in Nat /\ woff <= MaxBits /\ woff' <= MaxBits
      /\ MaxBits \in Nat /\ woff <= woff'
      /\ \A i \in Memory : i < woff => data'[i] = data[i]
  BY SMTT(30), BitStreamAssumption DEF StreamConsistent, TypeOK, Kept
<1>2. /\ At(0, woff) = [i \in 1..woff |-> data[i - 1]]
      /\ At(0, woff)' = [i \in 1..woff' |-> data'[i - 1]]
  BY <1>1 DEF At
<1>3. /\ \A i \in 1..woff : i - 1 \in Memory /\ i - 1 < woff
      /\ \A i \in 1..woff' : i - 1 \in Memory
  BY <1>1 DEF Memory
<1>4. At(0, woff)' \in Seq({0, 1})
  BY <1>1, <1>2, <1>3 DEF BIT
<1>5. Len(At(0, woff)) = woff /\ Len(At(0, woff)') = woff'
  BY <1>1, <1>2
<1>6. \A i \in 1..woff : At(0, woff)'[i] = At(0, woff)[i]
  BY <1>1, <1>2, <1>3
<1> QED BY <1>1, <1>2, <1>4, <1>5, <1>6 DEF Queue!Extended

\* The loops, the growing buffer and the packet are those of a queue of bits.
THEOREM AlwaysImplementsQueue == Spec => ImplementsQueue
<1>1. Init => Queue!Init
  <2>1. SUFFICES ASSUME Init PROVE At(0, woff) = <<>> /\ copy /\ roff = 0 /\ out = <<>>
    BY DEF Queue!Init
  <2> QED BY <2>1 DEF Init, At
<1>2. StreamConsistent /\ StreamConsistent' /\ [Next]_vars => [Queue!Next]_(Queue!vars)
  <2>1. SUFFICES ASSUME StreamConsistent, StreamConsistent', [Next]_vars
                 PROVE  Queue!Next \/ UNCHANGED Queue!vars
    OBVIOUS
  <2>2. CASE SenderSteps
    <3>1. copy /\ copy' = copy /\ Kept /\ roff' = roff /\ out' = out
      BY <2>1, <2>2, SenderStep DEF WrittenWell, reader
    <3>2. Queue!Extended
      BY <2>1, <3>1, KeptExtends
    <3> QED BY <3>1, <3>2 DEF Queue!Next, Queue!Put
  <2>3. CASE Send
    <3>1. /\ copy /\ ~copy' /\ Kept /\ roff' = roff /\ out' = out
          /\ woff' % 8 = 0 /\ woff' < woff + 8
          /\ \A i \in Memory : woff <= i /\ i < woff' => data'[i] = 0
      BY <2>1, <2>3, SendStep
    <3>2. /\ Queue!Extended
          /\ At(0, woff)' = [i \in 1..woff' |-> data'[i - 1]]
          /\ Len(At(0, woff)) = woff /\ Len(At(0, woff)') = woff'
      BY <2>1, <3>1, KeptExtends
    <3>3. woff \in Nat /\ woff' \in Nat /\ woff' <= MaxBits /\ MaxBits \in Nat
      BY <2>1, BitStreamAssumption DEF StreamConsistent, TypeOK
    <3>4. \A i \in woff + 1..woff' : At(0, woff)'[i] = 0
      BY <3>1, <3>2, <3>3 DEF Memory
    <3> QED BY <3>1, <3>2, <3>4 DEF Queue!Next, Queue!Seal
  <2>4. CASE ReadField \/ ReadCompressedFlag
    <3>1. ~copy /\ Taken /\ data' = data /\ woff' = woff /\ copy' = copy
      BY <2>1, <2>4, ReceiverStep
    <3>2. /\ data \in [Memory -> BIT] /\ MaxBits \in Nat /\ woff \in Nat /\ woff <= MaxBits
          /\ roff \in Nat /\ roff' \in Nat
      BY <2>1, BitStreamAssumption DEF StreamConsistent, TypeOK
    <3>3. At(0, woff)' = At(0, woff) /\ Len(At(0, woff)) = woff
      BY <3>1, <3>2 DEF At
    <3>4. CASE roff' = roff /\ out' = out
      BY <3>1, <3>3, <3>4 DEF Queue!vars
    <3>5. CASE /\ roff <= roff' /\ roff' <= woff
               /\ out' = At(roff, roff' - roff)
      <4>1. roff' - roff \in Nat /\ roff + (roff' - roff) <= MaxBits
        <5>1. roff <= roff' /\ roff' <= MaxBits
          BY <3>2, <3>5
        <5>2. woff \in Nat /\ roff \in Nat /\ roff' \in Nat /\ MaxBits \in Nat
          BY <3>2
        <5> QED BY <5>1, <5>2, Between
      <4>2. /\ Len(out') = roff' - roff
            /\ \A i \in 1..roff' - roff : out'[i] = data[roff + i - 1]
        BY <3>2, <3>5, <4>1, AtType
      <4>3. \A i \in 1..roff' - roff : At(0, woff)[roff + i] = data[roff + i - 1]
        <5>1. \A i \in 1..roff' - roff : roff + i \in 1..woff
          BY <3>2, <3>5, Between
        <5>2. \A i \in 1..woff : At(0, woff)[i] = data[i - 1]
          BY <3>2 DEF At
        <5>3. ASSUME NEW i \in 1..roff' - roff
              PROVE  At(0, woff)[roff + i] = data[roff + i - 1]
          <6>1. PICK j \in 1..woff : j = roff + i
            BY <5>1
          <6>2. At(0, woff)[j] = data[j - 1]
            BY <5>2
          <6> QED BY <3>2, <6>1, <6>2
        <5> QED BY <5>3
      <4> QED BY <3>1, <3>3, <3>5, <4>2, <4>3 DEF Queue!Next, Queue!Take
    <3>6. CASE woff < roff'
      BY <3>1, <3>3, <3>6 DEF Queue!Next, Queue!Overrun
    <3> QED BY <3>1, <3>4, <3>5, <3>6 DEF Taken
  <2>5. CASE UNCHANGED vars
    BY <2>5 DEF vars, Queue!vars, At
  <2> QED BY <2>1, <2>2, <2>3, <2>4, <2>5 DEF Next, SenderSteps
<1> QED BY <1>1, <1>2, AlwaysConsistent, PTL DEF Spec, ImplementsQueue, Queue!Spec

-----------------------------------------------------------------------------
(* What is read is what was written *)

\* The bits of the calls of WriteBits to come, of which there are two at most.
Flat(s) == IF s = <<>> THEN <<>> ELSE IF Len(s) = 1 THEN s[1] ELSE s[1] \o s[2]

\* The first w bits of the memory d.
Written(d, w) == [i \in 1..w |-> d[i - 1]]

\* The bits of the stream, with those that the calls under way will write.
Planned == Written(data, woff) \o (todo \o Flat(calls))

\* The bits T are among the bits P, behind the first s.
Has(P, s, T) == s + Len(T) <= Len(P) /\ \A j \in 1..Len(T) : P[s + j] = T[j]

\* From its last byte down to byte c + 1 the value v is zero, and behind the first s
\* bits there is a flag that says so for each.
Bytes(v) == Len(v) \div 8
Flags(P, v, c, s) ==
  \A k \in c + 1..Bytes(v) - 1 :
    ByteOf(v, k) = Zeros(8) /\ Has(P, s + 8 * (Bytes(v) - 1 - k), Flag(1))

\* From bit s to bit e there are these flags and what WriteCompressed writes of the
\* bytes from c down.
Packs(P, v, c, s, e) ==
  LET t == s + 8 * (Bytes(v) - 1 - c) IN
  /\ c \in 0..Bytes(v) - 1 /\ Flags(P, v, c, s)
  /\ Has(P, t, LastCalls(v, c)[1]) /\ Has(P, t + 8, LastCalls(v, c)[2])
  /\ e = t + 8 + Len(LastCalls(v, c)[2])

\* From bit s to bit e there is the field f.
Holds(P, f, s, e) ==
  IF f.op = "compressed" THEN \E c \in Nat : Packs(P, f.value, c, s, e)
  ELSE Has(P, s, f.value) /\ e = s + Len(f.value)

\* Q begins with the bits of P.
Begins(P, Q) ==
  /\ Len(P) \in Nat /\ Len(Q) \in Nat /\ Len(P) <= Len(Q)
  /\ \A k \in 1..Len(P) : Q[k] = P[k]

\* One behind the other.
LEMMA Joined ==
  ASSUME NEW s \in Bits, NEW t \in Bits
  PROVE  /\ Len(s) \in Nat /\ Len(t) \in Nat
         /\ s \o t \in Bits /\ Len(s \o t) = Len(s) + Len(t)
         /\ \A j \in 1..Len(s) : (s \o t)[j] = s[j]
         /\ \A j \in 1..Len(t) : (s \o t)[Len(s) + j] = t[j]
<1>1. Len(s) \in Nat /\ Len(t) \in Nat
  BY LenProperties DEF Bits
<1>2. /\ s \o t \in Seq(BIT) /\ Len(s \o t) = Len(s) + Len(t)
      /\ \A i \in 1..Len(s) + Len(t) :
           (s \o t)[i] = IF i <= Len(s) THEN s[i] ELSE t[i - Len(s)]
  BY ConcatProperties DEF Bits
<1>3. \A j \in 1..Len(s) : j \in 1..Len(s) + Len(t) /\ j <= Len(s)
  BY <1>1
<1>4. \A j \in 1..Len(t) : /\ Len(s) + j \in 1..Len(s) + Len(t)
                           /\ ~(Len(s) + j <= Len(s)) /\ Len(s) + j - Len(s) = j
  BY <1>1
<1> QED BY <1>1, <1>2, <1>3, <1>4 DEF Bits

\* A value of a field.
LEMMA ValueIs ==
  ASSUME NEW f \in Field
  PROVE  /\ f.value \in Bits /\ Len(f.value) \in Nat /\ Len(f.value) > 0 /\ f.value # <<>>
         /\ f.op \in {"bit", "bits", "compressed"}
         /\ f.op = "bit" => Len(f.value) = 1
         /\ f.op = "compressed" =>
              Bytes(f.value) \in Nat \ {0} /\ 8 * Bytes(f.value) = Len(f.value)
<1>1. f.value \in Bits /\ Len(f.value) \in Nat /\ Len(f.value) > 0
  BY BitStreamAssumption, LenProperties DEF Bits
<1>2. f.value # <<>>
  BY <1>1, EmptySeq
<1>3. f.op = "compressed" => Len(f.value) % 8 = 0
  BY BitStreamAssumption
<1>4. Len(f.value) % 8 = 0
        => Bytes(f.value) \in Nat \ {0} /\ 8 * Bytes(f.value) = Len(f.value)
  <2> DEFINE n == Len(f.value)
  <2>1. n \in Nat /\ n > 0
    BY <1>1
  <2> HIDE DEF n
  <2>2. n % 8 = 0 => n \div 8 - 1 \in Nat /\ 8 * (n \div 8 - 1) + 8 = n /\ n \div 8 \in Nat
    BY <2>1, LastByte
  <2>3. n % 8 = 0 => n \div 8 \in Nat \ {0} /\ 8 * (n \div 8) = n
    BY <2>2
  <2> QED BY <2>3 DEF Bytes, n
<1> QED BY <1>1, <1>2, <1>3, <1>4, BitStreamAssumption

\* What is among the first bits is among all.
LEMMA HasMore ==
  ASSUME NEW P, NEW Q, Begins(P, Q), NEW s \in Nat, NEW T, Len(T) \in Nat, Has(P, s, T)
  PROVE  Has(Q, s, T)
<1>1. s + Len(T) <= Len(Q)
  BY DEF Has, Begins
<1>2. ASSUME NEW j \in 1..Len(T)
      PROVE  Q[s + j] = T[j]
  <2>1. s + j \in 1..Len(P)
    BY DEF Has, Begins
  <2> QED BY <2>1 DEF Has, Begins
<1> QED BY <1>1, <1>2 DEF Has

\* A flag is eight bits, of which the last tells whether it is set.
LEMMA FlagIs ==
  ASSUME NEW b \in BIT
  PROVE  /\ Flag(b) \in Bits /\ Len(Flag(b)) = 8 /\ Flag(b)[8] = b
         /\ \A j \in 1..7 : Flag(b)[j] = 0
<1>1. Zeros(7) \in Bits /\ Len(Zeros(7)) = 7
  <2>1. 7 \in Nat
    OBVIOUS
  <2> QED BY <2>1, ZerosType
<1>2. <<b>> \in Bits /\ Len(<<b>>) = 1 /\ <<b>>[1] = b
  BY DEF Bits
<1>3. /\ Zeros(7) \o <<b>> \in Bits /\ Len(Zeros(7) \o <<b>>) = 7 + 1
      /\ \A j \in 1..7 : (Zeros(7) \o <<b>>)[j] = Zeros(7)[j]
      /\ \A j \in 1..1 : (Zeros(7) \o <<b>>)[7 + j] = <<b>>[j]
  <2> DEFINE s == Zeros(7)
             t == <<b>>
  <2>1. s \in Bits /\ t \in Bits /\ Len(s) = 7 /\ Len(t) = 1
    BY <1>1, <1>2
  <2> HIDE DEF s, t
  <2>2. /\ s \o t \in Bits /\ Len(s \o t) = Len(s) + Len(t)
        /\ \A j \in 1..Len(s) : (s \o t)[j] = s[j]
        /\ \A j \in 1..Len(t) : (s \o t)[Len(s) + j] = t[j]
    BY <2>1, Joined
  <2>3. /\ s \o t \in Bits /\ Len(s \o t) = 7 + 1
        /\ \A j \in 1..7 : (s \o t)[j] = s[j]
        /\ \A j \in 1..1 : (s \o t)[7 + j] = t[j]
    BY <2>1, <2>2
  <2> QED BY <2>3 DEF s, t
<1>4. \A i \in 1..7 : Zeros(7)[i] = 0
  BY DEF Zeros
<1>5. (Zeros(7) \o <<b>>)[7 + 1] = b
  BY <1>2, <1>3
<1> QED BY <1>3, <1>4, <1>5 DEF Flag

\* The last calls write a flag and the bytes from c down, or half a byte.
LEMMA LastCallsAre ==
  ASSUME NEW v \in Bits, NEW c \in Nat, 8 * c + 8 <= Len(v)
  PROVE  /\ LastCalls(v, c) \in Seq(Bits) /\ Len(LastCalls(v, c)) = 2
         /\ LastCalls(v, c)[1] \in {Flag(0), Flag(1)} /\ Len(LastCalls(v, c)[1]) = 8
         /\ LastCalls(v, c)[2] \in Bits
         /\ c > 0 => LastCalls(v, c)[1] = Flag(0)
         /\ IF c = 0 /\ LastCalls(v, c)[1] = Flag(1)
            THEN /\ Len(LastCalls(v, c)[2]) = 4
                 /\ \A j \in 1..4 : v[j] = 0 /\ LastCalls(v, c)[2][j] = v[4 + j]
            ELSE /\ Len(LastCalls(v, c)[2]) = 8 * c + 8
                 /\ \A j \in 1..8 * c + 8 : LastCalls(v, c)[2][j] = v[j]
<1> DEFINE F == Flag(0)
           G == Flag(1)
<1>1. F \in Bits /\ G \in Bits /\ Len(F) = 8 /\ Len(G) = 8 /\ F # G
  <2>1. Flag(0)[8] = 0 /\ Flag(1)[8] = 1
    BY FlagIs DEF BIT
  <2> QED BY <2>1, FlagIs DEF BIT
<1> HIDE DEF F, G
<1>2. Len(v) \in Nat /\ \A i \in 1..Len(v) : v[i] \in BIT
  BY DEF Bits
<1>3. \A m, n \in Nat : 1 <= m /\ m <= n /\ n <= Len(v) =>
        /\ SubSeq(v, m, n) \in Bits /\ Len(SubSeq(v, m, n)) = n - m + 1
        /\ \A i \in 1..n - m + 1 : SubSeq(v, m, n)[i] = v[m + i - 1]
  <2> SUFFICES ASSUME NEW m \in Nat, NEW n \in Nat, 1 <= m, m <= n, n <= Len(v)
               PROVE  /\ SubSeq(v, m, n) \in Bits /\ Len(SubSeq(v, m, n)) = n - m + 1
                      /\ \A i \in 1..n - m + 1 : SubSeq(v, m, n)[i] = v[m + i - 1]
    OBVIOUS
  <2>1. \A i \in m..n : v[i] \in BIT
    BY <1>2
  <2> QED BY <2>1, SubSeqProperties DEF Bits
<1> DEFINE L == LastCalls(v, c)
<1> SUFFICES
         /\ L \in Seq(Bits) /\ Len(L) = 2
         /\ L[1] \in {F, G} /\ Len(L[1]) = 8 /\ L[2] \in Bits
         /\ c > 0 => L[1] = F
         /\ IF c = 0 /\ L[1] = G
            THEN Len(L[2]) = 4 /\ \A j \in 1..4 : v[j] = 0 /\ L[2][j] = v[4 + j]
            ELSE Len(L[2]) = 8 * c + 8 /\ \A j \in 1..8 * c + 8 : L[2][j] = v[j]
  BY DEF F, G
<1>4. CASE c > 0
  <2>1. L = <<F, SubSeq(v, 1, 8 * c + 8)>>
    BY <1>4 DEF LastCalls, F
  <2>2. /\ SubSeq(v, 1, 8 * c + 8) \in Bits /\ Len(SubSeq(v, 1, 8 * c + 8)) = 8 * c + 8
        /\ \A i \in 1..8 * c + 8 : SubSeq(v, 1, 8 * c + 8)[i] = v[i]
    BY <1>3
  <2> DEFINE x == SubSeq(v, 1, 8 * c + 8)
  <2> HIDE DEF x, L
  <2>3. L = <<F, x>> /\ x \in Bits /\ Len(x) = 8 * c + 8 /\ \A i \in 1..8 * c + 8 : x[i] = v[i]
    BY <2>1, <2>2 DEF x
  <2> QED BY <1>1, <1>4, <2>3
<1>5. CASE c = 0 /\ SubSeq(v, 1, 4) = Zeros(4)
  <2>1. L = <<G, SubSeq(v, 5, 8)>>
    BY <1>5 DEF LastCalls, G
  <2>2. /\ SubSeq(v, 5, 8) \in Bits /\ Len(SubSeq(v, 5, 8)) = 4
        /\ \A i \in 1..4 : SubSeq(v, 5, 8)[i] = v[4 + i]
    BY <1>3, <1>5
  <2>3. \A i \in 1..4 : v[i] = 0
    <3>1. \A i \in 1..4 : SubSeq(v, 1, 4)[i] = v[i] /\ Zeros(4)[i] = 0
      BY <1>3, <1>5 DEF Zeros
    <3> QED BY <1>5, <3>1
  <2> DEFINE x == SubSeq(v, 5, 8)
  <2> HIDE DEF x, L
  <2>4. L = <<G, x>> /\ x \in Bits /\ Len(x) = 4 /\ \A i \in 1..4 : x[i] = v[4 + i]
    BY <2>1, <2>2 DEF x
  <2> QED BY <1>1, <1>5, <2>3, <2>4
<1>6. CASE c = 0 /\ SubSeq(v, 1, 4) # Zeros(4)
  <2>1. L = <<F, SubSeq(v, 1, 8)>>
    BY <1>6 DEF LastCalls, F
  <2>2. /\ SubSeq(v, 1, 8) \in Bits /\ Len(SubSeq(v, 1, 8)) = 8
        /\ \A i \in 1..8 : SubSeq(v, 1, 8)[i] = v[i]
    BY <1>3, <1>6
  <2> DEFINE x == SubSeq(v, 1, 8)
  <2> HIDE DEF x, L
  <2>3. L = <<F, x>> /\ x \in Bits /\ Len(x) = 8 * c + 8 /\ \A i \in 1..8 * c + 8 : x[i] = v[i]
    BY <1>6, <2>1, <2>2 DEF x
  <2> QED BY <1>1, <1>6, <2>3
<1> QED BY <1>4, <1>5, <1>6

\* A byte of a value.
LEMMA ByteIs ==
  ASSUME NEW v \in Bits, NEW k \in Nat, 8 * k + 8 <= Len(v), ByteOf(v, k) = Zeros(8)
  PROVE  \A i \in 8 * k + 1..8 * k + 8 : v[i] = 0
<1>1. Len(v) \in Nat /\ \A i \in 8 * k + 1..8 * k + 8 : v[i] \in BIT
  BY DEF Bits
<1>2. 8 * k + 1 \in Int /\ 8 * k + 8 \in Int /\ (8 * k + 8) - (8 * k + 1) + 1 = 8
  OBVIOUS
<1>3. \A i \in 1..8 : SubSeq(v, 8 * k + 1, 8 * k + 8)[i] = v[8 * k + 1 + i - 1]
  <2> DEFINE a == 8 * k + 1
             b == 8 * k + 8
  <2>1. a \in Int /\ b \in Int /\ b - a + 1 = 8
    BY <1>2
  <2>2. \A i \in a..b : v[i] \in BIT
    BY <1>1
  <2> HIDE DEF a, b
  <2>3. \A i \in 1..8 : SubSeq(v, a, b)[i] = v[a + i - 1]
    BY <2>1, <2>2, SubSeqProperties
  <2> QED BY <2>3 DEF a, b
<1>4. \A i \in 1..8 : v[8 * k + 1 + i - 1] = 0
  BY <1>3 DEF ByteOf, Zeros
<1>5. ASSUME NEW i \in 8 * k + 1..8 * k + 8
      PROVE  v[i] = 0
  <2>1. i - 8 * k \in 1..8 /\ 8 * k + 1 + (i - 8 * k) - 1 = i
    OBVIOUS
  <2> QED BY <1>4, <2>1
<1> QED BY <1>5

\* What is packed in the first bits is packed in all.
LEMMA PacksMore ==
  ASSUME NEW P, NEW Q, Begins(P, Q), NEW v \in Bits, 8 * Bytes(v) = Len(v), Bytes(v) \in Nat,
         NEW s \in Nat
  PROVE  /\ \A c \in Nat : Flags(P, v, c, s) => Flags(Q, v, c, s)
         /\ \A c, e \in Nat : Packs(P, v, c, s, e) => Packs(Q, v, c, s, e)
<1>1. ASSUME NEW c \in Nat, Flags(P, v, c, s), NEW k \in c + 1..Bytes(v) - 1
      PROVE  ByteOf(v, k) = Zeros(8) /\ Has(Q, s + 8 * (Bytes(v) - 1 - k), Flag(1))
  <2>1. Has(P, s + 8 * (Bytes(v) - 1 - k), Flag(1)) /\ ByteOf(v, k) = Zeros(8)
    BY <1>1 DEF Flags
  <2>2. s + 8 * (Bytes(v) - 1 - k) \in Nat
    OBVIOUS
  <2>3. Len(Flag(1)) \in Nat
    BY FlagIs DEF BIT
  <2> QED BY <2>1, <2>2, <2>3, HasMore
<1>2. \A c \in Nat : Flags(P, v, c, s) => Flags(Q, v, c, s)
  BY <1>1 DEF Flags
<1>3. ASSUME NEW c \in Nat, NEW e \in Nat, Packs(P, v, c, s, e)
      PROVE  Packs(Q, v, c, s, e)
  <2> DEFINE t == s + 8 * (Bytes(v) - 1 - c)
  <2>1. /\ c \in 0..Bytes(v) - 1 /\ Flags(P, v, c, s)
        /\ Has(P, t, LastCalls(v, c)[1]) /\ Has(P, t + 8, LastCalls(v, c)[2])
        /\ e = t + 8 + Len(LastCalls(v, c)[2])
    BY <1>3 DEF Packs
  <2>2. t \in Nat /\ t + 8 \in Nat /\ 8 * c + 8 <= Len(v)
    <3>1. c \in 0..Bytes(v) - 1
      BY <2>1
    <3> QED BY <3>1
  <2>3. Len(LastCalls(v, c)[1]) \in Nat /\ Len(LastCalls(v, c)[2]) \in Nat
    BY SMTT(30), <2>2, LastCallsAre, LenProperties DEF Bits
  <2> HIDE DEF t
  <2>4. Has(Q, t, LastCalls(v, c)[1]) /\ Has(Q, t + 8, LastCalls(v, c)[2])
    BY <2>1, <2>2, <2>3, HasMore
  <2> QED BY <1>2, <2>1, <2>4 DEF Packs, t
<1> QED BY <1>2, <1>3

\* So is a field.
LEMMA HoldsMore ==
  ASSUME NEW P, NEW Q, Begins(P, Q), NEW f \in Field, NEW s \in Nat, NEW e \in Nat,
         Holds(P, f, s, e)
  PROVE  Holds(Q, f, s, e)
<1>1. CASE f.op = "compressed"
  BY <1>1, ValueIs, PacksMore DEF Holds
<1>2. CASE f.op # "compressed"
  BY <1>2, ValueIs, HasMore DEF Holds
<1> QED BY <1>1, <1>2

\* What is unpacked is what was packed.
LEMMA Unpacked ==
  ASSUME NEW v \in Bits, 8 * Bytes(v) = Len(v), NEW c \in 0..Bytes(v) - 1, Bytes(v) \in Nat,
         \A k \in c + 1..Bytes(v) - 1 : ByteOf(v, k) = Zeros(8)
  PROVE  LastBits(LastCalls(v, c)[2]) \o Zeros(8 * (Bytes(v) - c - 1)) = v
<1> DEFINE L == LastCalls(v, c)
           x == L[2]
           m == 8 * (Bytes(v) - c - 1)
<1>1. /\ 8 * c + 8 <= Len(v) /\ m \in Nat /\ Len(v) = 8 * c + 8 + m /\ c \in Nat
      /\ Len(v) \in Nat
  OBVIOUS
<1>2. \A i \in 8 * c + 9..Len(v) : v[i] = 0
  <2> SUFFICES ASSUME NEW i \in 8 * c + 9..Len(v) PROVE v[i] = 0
    OBVIOUS
  <2> DEFINE k == (i - 1) \div 8
  <2>1. i - 1 \in Nat /\ k \in Nat /\ 8 * k <= i - 1 /\ i - 1 < 8 * k + 8
    BY <1>1
  <2> HIDE DEF k
  <2>2. k \in c + 1..Bytes(v) - 1
    BY <1>1, <2>1
  <2>3. i \in 8 * k + 1..8 * k + 8 /\ 8 * k + 8 <= Len(v)
    BY <1>1, <2>1, <2>2
  <2> QED BY <2>1, <2>2, <2>3, ByteIs
<1>3. x \in Bits /\ Len(x) \in Nat
  BY <1>1, LastCallsAre, LenProperties DEF Bits
<1>4. /\ LastBits(x) \in Bits /\ Len(LastBits(x)) = 8 * c + 8
      /\ \A j \in 1..8 * c + 8 : LastBits(x)[j] = v[j]
  <2> DEFINE z == IF Len(x) < 8 THEN 8 - Len(x) ELSE 0
  <2>1. z \in Nat
    BY <1>3
  <2>2. /\ Zeros(z) \in Bits /\ Len(Zeros(z)) = z /\ \A j \in 1..z : Zeros(z)[j] = 0
    BY <2>1, ZerosType DEF Zeros
  <2>3. LastBits(x) = Zeros(z) \o x
    BY DEF LastBits
  <2>4. /\ LastBits(x) \in Bits /\ Len(LastBits(x)) = z + Len(x)
        /\ \A j \in 1..z : LastBits(x)[j] = Zeros(z)[j]
        /\ \A j \in 1..Len(x) : LastBits(x)[z + j] = x[j]
    <3> DEFINE y == Zeros(z)
    <3>1. y \in Bits /\ Len(y) = z
      BY <2>2
    <3> HIDE DEF x, z, y
    <3>2. /\ y \o x \in Bits /\ Len(y \o x) = z + Len(x)
          /\ \A j \in 1..z : (y \o x)[j] = y[j]
          /\ \A j \in 1..Len(x) : (y \o x)[z + j] = x[j]
      BY <1>3, <3>1, Joined
    <3> QED BY <2>3, <3>2 DEF y
  <2>5. CASE c = 0 /\ LastCalls(v, c)[1] = Flag(1)
    <3>1. Len(x) = 4 /\ \A j \in 1..4 : v[j] = 0 /\ x[j] = v[4 + j]
      BY <1>1, <2>5, LastCallsAre
    <3>2. z = 4
      BY <3>1
    <3> HIDE DEF x, z
    <3>3. ASSUME NEW j \in 1..8
          PROVE  LastBits(x)[j] = v[j]
      <4>1. CASE j <= 4
        BY <2>2, <2>4, <3>1, <3>2, <4>1
      <4>2. CASE ~(j <= 4)
        <5>1. j - 4 \in 1..4 /\ 4 + (j - 4) = j
          BY <4>2
        <5>2. LastBits(x)[4 + (j - 4)] = x[j - 4] /\ x[j - 4] = v[4 + (j - 4)]
          BY <2>4, <3>1, <3>2, <5>1
        <5> QED BY <5>1, <5>2
      <4> QED BY <4>1, <4>2
    <3> QED BY <2>4, <2>5, <3>1, <3>2, <3>3
  <2>6. CASE ~(c = 0 /\ LastCalls(v, c)[1] = Flag(1))
    <3>1. Len(x) = 8 * c + 8 /\ \A j \in 1..8 * c + 8 : x[j] = v[j]
      BY <1>1, <2>6, LastCallsAre
    <3>2. z = 0
      BY <1>1, <3>1
    <3> HIDE DEF x, z
    <3> QED BY <1>1, <2>4, <3>1, <3>2
  <2> QED BY <2>5, <2>6
<1> HIDE DEF x, m
<1>5. Zeros(m) \in Bits /\ Len(Zeros(m)) = m /\ \A j \in 1..m : Zeros(m)[j] = 0
  BY <1>1, ZerosType DEF Zeros
<1>6. /\ LastBits(x) \o Zeros(m) \in Bits /\ Len(LastBits(x) \o Zeros(m)) = Len(v)
      /\ \A j \in 1..8 * c + 8 : (LastBits(x) \o Zeros(m))[j] = LastBits(x)[j]
      /\ \A j \in 1..m : (LastBits(x) \o Zeros(m))[(8 * c + 8) + j] = Zeros(m)[j]
  <2> DEFINE y == LastBits(x)
             z == Zeros(m)
  <2>1. y \in Bits /\ z \in Bits /\ Len(y) = 8 * c + 8 /\ Len(z) = m
    BY <1>4, <1>5
  <2> HIDE DEF y, z
  <2>2. /\ y \o z \in Bits /\ Len(y \o z) = Len(y) + Len(z)
        /\ \A j \in 1..Len(y) : (y \o z)[j] = y[j]
        /\ \A j \in 1..Len(z) : (y \o z)[Len(y) + j] = z[j]
    BY <2>1, Joined
  <2>3. /\ y \o z \in Bits /\ Len(y \o z) = Len(v)
        /\ \A j \in 1..8 * c + 8 : (y \o z)[j] = y[j]
        /\ \A j \in 1..m : (y \o z)[(8 * c + 8) + j] = z[j]
    BY <1>1, <2>1, <2>2
  <2> QED BY <2>3 DEF y, z
<1>7. ASSUME NEW j \in 1..Len(v)
      PROVE  (LastBits(x) \o Zeros(m))[j] = v[j]
  <2>1. CASE j <= 8 * c + 8
    BY <1>1, <1>4, <1>6, <2>1
  <2>2. CASE ~(j <= 8 * c + 8)
    <3>1. /\ j \in 8 * c + 9..Len(v) /\ j - (8 * c + 8) \in 1..m
          /\ (8 * c + 8) + (j - (8 * c + 8)) = j
      BY <1>1, <2>2
    <3>2. (LastBits(x) \o Zeros(m))[(8 * c + 8) + (j - (8 * c + 8))] = 0
      BY <1>5, <1>6, <3>1
    <3> QED BY <1>2, <3>1, <3>2
  <2> QED BY <2>1, <2>2
<1>8. LastBits(x) \o Zeros(m) = v
  BY <1>6, <1>7, SeqEqual DEF Bits
<1> QED BY <1>8 DEF x, m


\* The calls to come write what the first of them writes, and then the others.
LEMMA FlatIs ==
  ASSUME NEW s \in Seq(Bits), Len(s) <= 2
  PROVE  /\ Flat(s) \in Bits
         /\ s # <<>> => /\ s[1] \in Bits /\ Tail(s) \in Seq(Bits) /\ Len(Tail(s)) <= 1
                        /\ Flat(Tail(s)) \in Bits /\ Flat(s) = s[1] \o Flat(Tail(s))
<1>0. <<>> \in Bits
  BY DEF Bits
<1>1. CASE s = <<>>
  BY <1>0, <1>1 DEF Flat
<1>2. CASE s # <<>>
  <2>1. Len(s) \in Nat /\ Len(s) # 0 /\ Len(Tail(s)) = Len(s) - 1 /\ Tail(s) \in Seq(Bits)
    BY <1>2, EmptySeq, HeadTailProperties, LenProperties
  <2>2. Len(s) = 1 \/ Len(s) = 2
    BY <2>1
  <2>3. CASE Len(s) = 1
    <3>1. s[1] \in Bits
      BY <2>3, ElementOfSeq
    <3>2. Tail(s) = <<>> /\ Flat(Tail(s)) = <<>> /\ Len(Tail(s)) <= 1
      <4>1. Len(Tail(s)) = 0
        BY <2>1, <2>3
      <4>2. Tail(s) = <<>>
        BY <2>1, <4>1, EmptySeq
      <4> QED BY <4>1, <4>2 DEF Flat
    <3>3. Flat(s) = s[1] /\ s[1] \o <<>> = s[1]
      BY <1>2, <2>3, <3>1, ConcatEmptySeq DEF Flat, Bits
    <3> QED BY <1>0, <2>1, <3>1, <3>2, <3>3
  <2>4. CASE Len(s) = 2
    <3>1. s[1] \in Bits /\ s[2] \in Bits
      <4>1. 1 \in 1..Len(s) /\ 2 \in 1..Len(s)
        BY <2>4
      <4> QED BY <4>1, ElementOfSeq
    <3>2. Len(Tail(s)) = 1 /\ Tail(s) # <<>> /\ Tail(s)[1] = s[2]
      <4>1. Len(Tail(s)) = 1
        BY <2>1, <2>4
      <4>2. Tail(s)[1] = s[1 + 1]
        BY <1>2, <2>4, <4>1, HeadTailProperties
      <4>3. Tail(s) # <<>>
        <5> DEFINE u == Tail(s)
        <5>1. Len(u) = 1
          BY <4>1
        <5> HIDE DEF u
        <5>2. u # <<>>
          BY <5>1
        <5> QED BY <5>2 DEF u
      <4> QED BY <4>1, <4>2, <4>3
    <3>3. Flat(Tail(s)) = s[2]
      BY <3>2 DEF Flat
    <3>4. Flat(s) = s[1] \o s[2]
      BY <1>2, <2>4 DEF Flat
    <3>5. s[1] \o s[2] \in Bits
      BY <3>1, ConcatProperties DEF Bits
    <3>6. Len(Tail(s)) <= 1
      BY <3>2
    <3> QED BY <2>1, <3>1, <3>3, <3>4, <3>5, <3>6
  <2> QED BY <2>2, <2>3, <2>4
<1> QED BY <1>1, <1>2

\* The first bits of the memory are bits.
LEMMA WrittenIs ==
  ASSUME NEW d \in [Memory -> BIT], NEW w \in 0..MaxBits
  PROVE  Written(d, w) \in Bits /\ Len(Written(d, w)) = w
<1>1. \A i \in 1..w : i - 1 \in Memory
  BY BitStreamAssumption DEF Memory
<1>2. w \in Nat
  BY BitStreamAssumption
<1> QED BY <1>1, <1>2 DEF Written, Bits

\* The first w bits of the memory e are those of d, and x is behind them.
SameFirst(d, e, w) == \A i \in Memory : i < w => e[i] = d[i]
Behind(e, w, x) == \A j \in 1..Len(x) : e[w + j - 1] = x[j]

\* When the first bits stay and x is put behind them, x has been written.
LEMMA Grows ==
  ASSUME NEW d \in [Memory -> BIT], NEW e \in [Memory -> BIT],
         NEW w \in 0..MaxBits, NEW v \in 0..MaxBits, NEW x \in Bits, v = w + Len(x),
         SameFirst(d, e, w), Behind(e, w, x)
  PROVE  Written(e, v) = Written(d, w) \o x
<1>1. w \in Nat /\ v \in Nat /\ Len(x) \in Nat /\ MaxBits \in Nat
  BY BitStreamAssumption, LenProperties DEF Bits
<1>2. /\ Written(d, w) \in Bits /\ Len(Written(d, w)) = w
      /\ Written(e, v) \in Bits /\ Len(Written(e, v)) = v
  BY WrittenIs
<1>3. /\ Written(d, w) \o x \in Bits /\ Len(Written(d, w) \o x) = v
      /\ \A j \in 1..w : (Written(d, w) \o x)[j] = Written(d, w)[j]
      /\ \A j \in 1..Len(x) : (Written(d, w) \o x)[w + j] = x[j]
  <2> DEFINE y == Written(d, w)
  <2>1. y \in Bits /\ Len(y) = w
    BY <1>2
  <2> HIDE DEF y
  <2>2. /\ y \o x \in Bits /\ Len(y \o x) = v
        /\ \A j \in 1..w : (y \o x)[j] = y[j]
        /\ \A j \in 1..Len(x) : (y \o x)[w + j] = x[j]
    BY <2>1, Joined
  <2> QED BY <2>2 DEF y
<1>4. ASSUME NEW j \in 1..v
      PROVE  Written(e, v)[j] = (Written(d, w) \o x)[j]
  <2>1. Written(e, v)[j] = e[j - 1]
    BY DEF Written
  <2>2. CASE j <= w
    <3>1. j \in 1..w /\ j - 1 \in Memory /\ j - 1 < w
      BY <1>1, <2>2 DEF Memory
    <3>2. Written(d, w)[j] = d[j - 1]
      BY <3>1 DEF Written
    <3>3. e[j - 1] = d[j - 1]
      BY <3>1 DEF SameFirst
    <3> QED BY <1>3, <2>1, <3>1, <3>2, <3>3
  <2>3. CASE ~(j <= w)
    <3>1. j - w \in 1..Len(x) /\ w + (j - w) = j /\ w + (j - w) - 1 = j - 1
      BY <1>1, <2>3
    <3>2. e[w + (j - w) - 1] = x[j - w] /\ (Written(d, w) \o x)[w + (j - w)] = x[j - w]
      BY <1>3, <3>1 DEF Behind
    <3> QED BY <2>1, <3>1, <3>2
  <2> QED BY <2>2, <2>3
<1>5. \A j \in 1..Len(Written(e, v)) : Written(e, v)[j] = (Written(d, w) \o x)[j]
  BY <1>2, <1>4
<1> QED BY <1>2, <1>3, <1>5, SeqEqual DEF Bits

\* memcpy writes its bits.
LEMMA CopiedBits ==
  ASSUME NEW d \in [Memory -> BIT], NEW s \in Bits, woff \in Nat, woff + Len(s) <= MaxBits
  PROVE  Behind(Copied(d, s), woff, s)
<1>1. Len(s) \in Nat /\ MaxBits \in Nat
  BY BitStreamAssumption, LenProperties DEF Bits
<1>2. ASSUME NEW j \in 1..Len(s)
      PROVE  Copied(d, s)[woff + j - 1] = s[j]
  <2>1. /\ woff + j - 1 \in Memory /\ woff <= woff + j - 1 /\ woff + j - 1 < woff + Len(s)
        /\ woff + j - 1 - woff + 1 = j
    BY <1>1 DEF Memory
  <2> QED BY <2>1 DEF Copied
<1> QED BY <1>2 DEF Behind

\* Write0 and Write1 write their bit.
LEMMA BitWritten ==
  ASSUME NEW b \in BIT, StreamConsistent, copy, WriteBit(b)
  PROVE  data'[woff] = b
<1>1. /\ TypeOK /\ woff \in Memory /\ woff <= size
  <2>1. Len(todo) \in Nat /\ woff \in Nat /\ size \in Nat
    BY BitStreamAssumption DEF StreamConsistent, TypeOK, Bits
  <2> QED BY <2>1, BitStreamAssumption
          DEF StreamConsistent, TypeOK, WritesInBounds, WriteBit, Memory
<1>2. PICK junk \in BIT :
        data' = IF b = 1 THEN OneWritten(Added(1, junk)) ELSE ZeroWritten(Added(1, junk))
  BY DEF WriteBit
<1> DEFINE d == Added(1, junk)
<1>3. \A i \in Memory : woff % 8 # 0 /\ i \div 8 = woff \div 8 => d[i] = data[i]
  BY <1>1, AddedKeeps
<1>4. woff % 8 # 0 => d[woff] = 0
  <2>1. woff >= woff /\ woff \div 8 = woff \div 8
    BY <1>1 DEF TypeOK
  <2>2. woff % 8 # 0 => data[woff] = 0 /\ d[woff] = data[woff]
    BY <1>1, <1>3, <2>1 DEF StreamConsistent, PaddingIsZero
  <2> QED BY <2>2
<1> HIDE DEF d
<1>5. data' = IF b = 1 THEN OneWritten(d) ELSE ZeroWritten(d)
  BY <1>2 DEF d
<1>6. CASE b = 1
  BY <1>1, <1>5, <1>6 DEF OneWritten
<1>7. CASE b = 0
  <2>1. data' = ZeroWritten(d)
    BY <1>5, <1>7
  <2> QED BY <1>1, <1>4, <1>7, <2>1 DEF ZeroWritten
<1> QED BY <1>6, <1>7 DEF BIT


-----------------------------------------------------------------------------
(* What the steps do to the bits that are planned *)

\* The bits that are planned are bits.
LEMMA PlannedIs ==
  ASSUME StreamConsistent, Len(calls) <= 2
  PROVE  /\ Planned \in Bits /\ Written(data, woff) \in Bits
         /\ todo \in Bits /\ Flat(calls) \in Bits /\ calls \in Seq(Bits)
<1>1. /\ data \in [Memory -> BIT] /\ woff \in 0..MaxBits /\ todo \in Bits
      /\ calls \in Seq(Bits)
  BY DEF StreamConsistent, TypeOK
<1>2. Written(data, woff) \in Bits /\ Flat(calls) \in Bits
  BY <1>1, FlatIs, WrittenIs
<1>3. todo \o Flat(calls) \in Bits
  BY <1>1, <1>2, ConcatProperties DEF Bits
<1> QED BY <1>1, <1>2, <1>3, ConcatProperties DEF Planned, Bits

\* What is written and planned while nothing is under way is planned behind the rest.
LEMMA PlannedBehind ==
  ASSUME NEW w \in Bits, NEW x \in Bits
  PROVE  /\ w \o (<<>> \o x) = (w \o (<<>> \o <<>>)) \o x
         /\ (w \o x) \o (<<>> \o <<>>) = (w \o (<<>> \o <<>>)) \o x
<1>1. /\ <<>> \o x = x /\ <<>> \o <<>> = <<>> /\ w \o <<>> = w
      /\ w \o x \in Seq(BIT) /\ (w \o x) \o <<>> = w \o x
  <2>1. w \in Seq(BIT) /\ x \in Seq(BIT) /\ <<>> \in Seq(BIT)
    BY DEF Bits
  <2>2. w \o x \in Seq(BIT)
    BY <2>1, ConcatProperties
  <2> QED BY <2>1, <2>2, ConcatEmptySeq
<1> QED BY <1>1

\* The call of a field plans its bits, but for a value that is to be compressed.
LEMMA WriteFieldPlans ==
  ASSUME StreamConsistent, StreamConsistent', NEW f \in Field, WriteField(f)
  PROVE  /\ Len(calls) <= 2 /\ Len(calls') <= 2 /\ packed = NotPacked
         /\ Planned' = IF f.op = "compressed" THEN Planned ELSE Planned \o f.value
<1>1. /\ copy /\ todo = <<>> /\ calls = <<>> /\ packed = NotPacked /\ todo' = todo
      /\ Len(calls) = 0
  BY DEF WriteField, Writing
<1>2. /\ Written(data, woff) \in Bits /\ f.value \in Bits /\ <<>> \in Bits /\ Flat(<<>>) = <<>>
      /\ data \in [Memory -> BIT] /\ data' \in [Memory -> BIT]
      /\ woff \in 0..MaxBits /\ woff' \in 0..MaxBits
  <2>1. /\ data \in [Memory -> BIT] /\ data' \in [Memory -> BIT]
        /\ woff \in 0..MaxBits /\ woff' \in 0..MaxBits
    BY DEF StreamConsistent, TypeOK
  <2>2. <<>> \in Bits /\ Flat(<<>>) = <<>>
    BY DEF Bits, Flat
  <2> QED BY <2>1, <2>2, WrittenIs, ValueIs
<1> DEFINE w == Written(data, woff)
           x == f.value
<1>3. Planned = w \o (<<>> \o <<>>)
  BY <1>1, <1>2 DEF Planned
<1>4. CASE f.op = "bit"
  <2>1. WriteBit(f.value[1]) /\ calls' = calls
    BY <1>4 DEF WriteField
  <2>2. f.value[1] \in BIT /\ Len(f.value) = 1
    BY <1>2, <1>4, ValueIs, ElementOfSeq DEF Bits
  <2>3. WrittenWell /\ woff' = woff + 1 /\ data'[woff] = f.value[1]
    BY <1>1, <2>1, <2>2, WriteBitStep, BitWritten
  <2>4. woff \in Nat /\ \A j \in 1..Len(f.value) : j = 1 /\ woff + j - 1 = woff
    BY <1>2, <2>2, BitStreamAssumption
  <2>5. Behind(data', woff, x)
    BY <2>3, <2>4 DEF Behind
  <2>6. SameFirst(data, data', woff)
    BY <2>3 DEF WrittenWell, Kept, SameFirst
  <2>7. Written(data', woff') = w \o x
    <3>1. /\ woff' = woff + Len(x) /\ x \in Bits
          /\ data \in [Memory -> BIT] /\ data' \in [Memory -> BIT]
          /\ woff \in 0..MaxBits /\ woff' \in 0..MaxBits
      BY <1>2, <2>2, <2>3
    <3> HIDE DEF x
    <3> QED BY <2>5, <2>6, <3>1, Grows
  <2>8. Planned' = (w \o x) \o (<<>> \o <<>>)
    BY <1>1, <1>2, <2>1, <2>7 DEF Planned
  <2> QED BY <1>1, <1>2, <1>3, <1>4, <2>1, <2>8, PlannedBehind
<1>5. CASE f.op = "bits"
  <2>1. calls' = <<f.value>> /\ UNCHANGED <<buffer, woff>>
    BY <1>5 DEF WriteField
  <2>2. data' = data /\ woff' = woff /\ Len(calls') = 1 /\ Flat(calls') = x
    BY <2>1 DEF buffer, Flat
  <2>3. Planned' = w \o (<<>> \o x)
    BY <1>1, <2>2 DEF Planned
  <2> QED BY <1>1, <1>2, <1>3, <1>5, <2>2, <2>3, PlannedBehind
<1>6. CASE f.op = "compressed"
  <2>1. calls' = calls /\ UNCHANGED <<buffer, woff>>
    BY <1>6 DEF WriteField
  <2>2. Planned' = Planned
    BY <1>1, <2>1 DEF Planned, buffer
  <2> QED BY <1>1, <1>6, <2>1, <2>2
<1> QED BY <1>4, <1>5, <1>6, ValueIs

\* A round of WriteCompressed plans the bits of its calls.
LEMMA RoundPlans ==
  ASSUME StreamConsistent, StreamConsistent', WriteCompressedRound, Len(calls') <= 2
  PROVE  Planned' = Planned \o Flat(calls')
<1>1. todo = <<>> /\ calls = <<>> /\ todo' = todo /\ data' = data /\ woff' = woff
  BY DEF WriteCompressedRound, buffer
<1>2. Written(data, woff) \in Bits /\ Flat(<<>>) = <<>> /\ Flat(calls') \in Bits
  <2>1. calls' \in Seq(Bits) /\ Len(calls) <= 2
    BY <1>1 DEF StreamConsistent, TypeOK
  <2> QED BY <2>1, PlannedIs, FlatIs DEF Flat
<1>3. /\ Planned = Written(data, woff) \o (<<>> \o <<>>)
      /\ Planned' = Written(data, woff) \o (<<>> \o Flat(calls'))
  BY <1>1, <1>2 DEF Planned
<1> QED BY <1>2, <1>3, PlannedBehind

\* A call of WriteBits writes or takes over what was planned.
LEMMA BeginWriteBitsPlans ==
  ASSUME StreamConsistent, StreamConsistent', BeginWriteBits, Len(calls) <= 2
  PROVE  Planned' = Planned /\ Len(calls') <= 2
<1>1. /\ copy /\ calls # <<>> /\ calls' = Tail(calls) /\ todo = <<>>
      /\ woff + Len(calls[1]) <= MaxBits
  BY DEF BeginWriteBits
<1>2. /\ data \in [Memory -> BIT] /\ data' \in [Memory -> BIT] /\ calls \in Seq(Bits)
      /\ woff \in 0..MaxBits /\ woff' \in 0..MaxBits /\ TypeOK /\ WritesInBounds
  BY DEF StreamConsistent, TypeOK
<1>3. woff \in Nat /\ woff <= size
  <2>1. Len(todo) = 0 /\ woff \in Nat
    BY <1>1, <1>2, BitStreamAssumption
  <2> QED BY <1>1, <1>2, <2>1 DEF WritesInBounds
<1> DEFINE w == Written(data, woff)
           x == calls[1]
           r == Flat(Tail(calls))
<1>4. /\ w \in Bits /\ x \in Bits /\ r \in Bits /\ <<>> \in Bits
      /\ Flat(calls) = x \o r /\ Tail(calls) \in Seq(Bits) /\ Len(Tail(calls)) <= 1
  <2>1. <<>> \in Bits
    BY DEF Bits
  <2> QED BY <1>1, <1>2, <2>1, WrittenIs, FlatIs
<1>5. /\ <<>> \o r = r /\ x \o r \in Seq(BIT) /\ <<>> \o (x \o r) = x \o r
      /\ (w \o x) \o r = w \o (x \o r)
  <2>1. w \in Seq(BIT) /\ x \in Seq(BIT) /\ r \in Seq(BIT)
    BY <1>4 DEF Bits
  <2> HIDE DEF w, x, r
  <2>2. x \o r \in Seq(BIT)
    BY <2>1, ConcatProperties
  <2> QED BY SMTT(30), <2>1, <2>2, ConcatEmptySeq, ConcatAssociative
<1>6. Planned = w \o (x \o r)
  BY <1>1, <1>4, <1>5 DEF Planned
<1>7. Len(calls') <= 2
  <2>1. Len(Tail(calls)) \in Nat
    BY <1>4, LenProperties
  <2> QED BY <1>1, <1>4, <2>1
<1>8. CASE x = <<>>
  <2>1. data' = data /\ woff' = woff /\ todo' = todo
    BY <1>8 DEF BeginWriteBits, buffer
  <2>2. Planned' = w \o (<<>> \o r)
    BY <1>1, <2>1 DEF Planned
  <2>3. x \o r = r
    BY <1>5, <1>8
  <2> QED BY <1>5, <1>6, <1>7, <2>2, <2>3
<1>9. CASE x # <<>>
  <2>1. PICK junk \in BIT :
          IF woff % 8 = 0 /\ Len(x) % 8 = 0
          THEN /\ data' = Copied(Added(Len(x), junk), x) /\ woff' = woff + Len(x)
               /\ todo' = todo
          ELSE data' = Added(Len(x), junk) /\ todo' = x /\ woff' = woff
    BY <1>9 DEF BeginWriteBits
  <2> DEFINE d == Added(Len(x), junk)
  <2>2. /\ d \in [Memory -> BIT] /\ \A i \in Memory : i < woff => d[i] = data[i]
        /\ Len(x) \in Nat
    <3>1. Len(x) \in Nat
      BY <1>4, LenProperties DEF Bits
    <3> QED BY <1>2, <1>3, <3>1, AddedKeeps
  <2> HIDE DEF d
  <2>3. CASE woff % 8 = 0 /\ Len(x) % 8 = 0
    <3>1. data' = Copied(d, x) /\ woff' = woff + Len(x) /\ todo' = <<>>
      BY <1>1, <2>1, <2>3 DEF d
    <3>2. SameFirst(data, data', woff) /\ Behind(data', woff, x)
      BY <1>1, <1>3, <1>4, <2>2, <3>1, CopiedIs, CopiedBits DEF SameFirst
    <3>3. Written(data', woff') = w \o x
      <4>1. x \in Bits /\ woff' = woff + Len(x)
        BY <1>4, <3>1
      <4> QED BY ZenonT(60), <1>2, <3>2, <4>1, Grows
    <3>4. Planned' = (w \o x) \o (<<>> \o r)
      BY <1>1, <3>1, <3>3 DEF Planned
    <3> QED BY <1>5, <1>6, <1>7, <3>4
  <2>4. CASE ~(woff % 8 = 0 /\ Len(x) % 8 = 0)
    <3>1. data' = d /\ woff' = woff /\ todo' = x
      BY <2>1, <2>4 DEF d
    <3>2. Written(data', woff') = w
      <4>1. \A i \in 1..woff : i - 1 \in Memory /\ i - 1 < woff
        BY <1>2, <1>3, BitStreamAssumption DEF Memory
      <4> QED BY <2>2, <3>1, <4>1 DEF Written
    <3>3. Planned' = w \o (x \o r)
      BY <1>1, <3>1, <3>2 DEF Planned
    <3> QED BY <1>6, <1>7, <3>3
  <2> QED BY <2>3, <2>4
<1> QED BY <1>8, <1>9

\* So does a round of its loop.
LEMMA WriteBitsLoopPlans ==
  ASSUME StreamConsistent, StreamConsistent', WriteBitsLoop, Len(calls) <= 2
  PROVE  Planned' = Planned /\ Len(calls') <= 2
<1>1. /\ calls' = calls /\ woff' = woff + Chunk
      /\ todo' = SubSeq(todo, Chunk + 1, Len(todo)) /\ todo # <<>>
  BY DEF WriteBitsLoop
<1>2. /\ data \in [Memory -> BIT] /\ data' \in [Memory -> BIT] /\ todo \in Seq(BIT)
      /\ woff \in 0..MaxBits /\ woff' \in 0..MaxBits
  BY DEF StreamConsistent, TypeOK, Bits
<1>3. SameFirst(data, data', woff) /\ \A j \in 1..Chunk : data'[woff + j - 1] = todo[j]
  BY WriteBitsLoopStep DEF WrittenWell, Kept, SameFirst
<1>4. Len(todo) \in Nat /\ Len(todo) >= 1
  <2>1. Len(todo) \in Nat \ {0}
    BY <1>1, <1>2, EmptySeq
  <2> QED BY <2>1
<1>5. Chunk \in 1..8 /\ Chunk <= Len(todo)
  BY <1>4, AtMostAByte DEF Chunk
<1> DEFINE w == Written(data, woff)
           s == SubSeq(todo, 1, Chunk)
           u == SubSeq(todo, Chunk + 1, Len(todo))
           r == Flat(calls)
<1>6. /\ s \in Seq(BIT) /\ Len(s) = Chunk /\ \A j \in 1..Chunk : s[j] = todo[j]
  <2>1. \A i \in 1..Chunk : todo[i] \in BIT
    BY <1>2, <1>4, <1>5, ElementOfSeq
  <2> QED BY <1>5, <2>1, SubSeqProperties
<1>7. u \in Seq(BIT) /\ s \o u = todo
  <2>1. \A i \in Chunk + 1..Len(todo) : todo[i] \in BIT
    BY <1>2, <1>4, <1>5, ElementOfSeq
  <2>2. u \in Seq(BIT)
    BY <1>4, <1>5, <2>1, SubSeqProperties
  <2>3. SubSeq(todo, 1, Len(todo)) = todo
    BY <1>2, SubSeqFull
  <2>4. s \o u = SubSeq(todo, 1, Len(todo))
    <3>1. 1 \in 1..Len(todo) + 1 /\ Chunk \in 1 - 1..Len(todo) /\ Len(todo) \in Chunk..Len(todo)
      BY <1>4, <1>5
    <3> QED BY <1>2, <3>1, ConcatAdjacentSubSeq
  <2> QED BY <2>2, <2>3, <2>4
<1>8. w \in Seq(BIT) /\ r \in Seq(BIT)
  BY PlannedIs DEF Bits
<1>9. Planned = w \o (todo \o r)
  BY DEF Planned
<1> HIDE DEF w, s, u, r
<1>10. Written(data', woff') = w \o s
  <2>1. s \in Bits /\ woff' = woff + Len(s) /\ Behind(data', woff, s)
    BY <1>1, <1>3, <1>6 DEF Bits, Behind
  <2> QED BY <1>2, <1>3, <2>1, Grows DEF w
<1> DEFINE e == u \o r
<1>11. e \in Seq(BIT) /\ todo \o r = s \o e
  <2>1. s \in Seq(BIT) /\ u \in Seq(BIT) /\ r \in Seq(BIT)
    BY <1>6, <1>7, <1>8
  <2>2. u \o r \in Seq(BIT) /\ (s \o u) \o r = s \o (u \o r)
    BY SMTT(30), <2>1, ConcatProperties, ConcatAssociative
  <2> QED BY <1>7, <2>2
<1>12. Planned' = (w \o s) \o e
  BY <1>1, <1>10 DEF Planned, u, r
<1> HIDE DEF e
<1>13. (w \o s) \o e = w \o (s \o e)
  <2>1. w \in Seq(BIT) /\ s \in Seq(BIT) /\ e \in Seq(BIT)
    BY <1>6, <1>8, <1>11
  <2> QED BY SMTT(30), <2>1, ConcatAssociative
<1> QED BY <1>1, <1>9, <1>11, <1>12, <1>13

\* The packet adds zeros up to a whole byte.
LEMMA SendPlans ==
  ASSUME StreamConsistent, Send
  PROVE  /\ Len(calls) <= 2 /\ Len(calls') <= 2 /\ packed = NotPacked
         /\ \E m \in 0..7 : Planned' = Planned \o Zeros(m)
<1>1. /\ copy /\ todo = <<>> /\ calls = <<>> /\ packed = NotPacked
      /\ todo' = todo /\ calls' = calls /\ Len(calls) = 0
  BY DEF Send, Writing, writer
<1>2. /\ Kept /\ woff' < woff + 8 /\ StreamConsistent'
      /\ \A i \in Memory : woff <= i /\ i < woff' => data'[i] = 0
  BY SendStep
<1>3. /\ data \in [Memory -> BIT] /\ data' \in [Memory -> BIT]
      /\ woff \in 0..MaxBits /\ woff' \in 0..MaxBits
      /\ woff <= woff' /\ SameFirst(data, data', woff)
  BY <1>2 DEF StreamConsistent, TypeOK, Kept, SameFirst
<1> DEFINE m == woff' - woff
<1>4. m \in 0..7 /\ woff' = woff + m /\ m \in Nat
  <2>1. woff \in Nat /\ woff' \in Nat
    BY <1>3, BitStreamAssumption
  <2>2. woff <= woff' /\ woff' < woff + 8
    BY <1>2, <1>3
  <2>3. \A a, b \in Nat : a <= b /\ b < a + 8 => b - a \in 0..7 /\ b = a + (b - a)
    OBVIOUS
  <2>4. m \in 0..7 /\ woff' = woff + m
    BY <2>1, <2>2, <2>3
  <2> QED BY <2>4
<1> HIDE DEF m
<1>5. Zeros(m) \in Bits /\ Len(Zeros(m)) = m /\ \A j \in 1..m : Zeros(m)[j] = 0
  BY <1>4, ZerosType DEF Zeros
<1>6. \A j \in 1..m : data'[woff + j - 1] = 0
  <2>1. \A j \in 1..m : woff + j - 1 \in Memory /\ woff <= woff + j - 1 /\ woff + j - 1 < woff'
    BY <1>3, <1>4, BitStreamAssumption DEF Memory
  <2> QED BY <1>2, <2>1
<1> DEFINE z == Zeros(m)
           w == Written(data, woff)
<1>7. z \in Bits /\ woff' = woff + Len(z) /\ Behind(data', woff, z)
  BY <1>4, <1>5, <1>6 DEF Behind
<1> HIDE DEF z
<1>8. Written(data', woff') = w \o z
  BY SMTT(30), <1>3, <1>7, Grows
<1>9. w \in Bits /\ Flat(<<>>) = <<>>
  BY <1>3, WrittenIs DEF Flat
<1>10. Planned = w \o (<<>> \o <<>>) /\ Planned' = (w \o z) \o (<<>> \o <<>>)
  BY <1>1, <1>8, <1>9 DEF Planned
<1>11. Planned' = Planned \o z
  BY <1>7, <1>9, <1>10, PlannedBehind
<1>12. \E k \in 0..7 : Planned' = Planned \o Zeros(k)
  BY <1>4, <1>11 DEF z
<1>13. Len(calls) <= 2 /\ Len(calls') <= 2
  BY <1>1
<1> QED BY <1>1, <1>12, <1>13


-----------------------------------------------------------------------------
(* Where the fields are *)

\* Field i is from bit at[i] to bit at[i + 1], and the last may be on its way.
FieldsAt(at) ==
  \A i \in 1..Len(fields) :
    i < Len(fields) \/ packed = NotPacked => Holds(Planned, fields[i], at[i], at[i + 1])

\* Behind the last there is nothing, or the padding of the packet.
NothingBehind(at) ==
  packed = NotPacked =>
    /\ at[Len(fields) + 1] <= Len(Planned)
    /\ Len(Planned) < at[Len(fields) + 1] + (IF copy THEN 1 ELSE 8)
    /\ \A k \in at[Len(fields) + 1] + 1..Len(Planned) : Planned[k] = 0

\* Of the value that is compressed there are flags so far.
FlagsAt(at) ==
  packed # NotPacked =>
    /\ Len(fields) > 0 /\ fields[Len(fields)].op = "compressed"
    /\ fields[Len(fields)].value = packed.value
    /\ packed.current \in 0..Bytes(packed.value) - 1
    /\ Flags(Planned, packed.value, packed.current, at[Len(fields)])
    /\ Len(Planned) = at[Len(fields)] + 8 * (Bytes(packed.value) - 1 - packed.current)

Placed(at) ==
  /\ at \in [1..Len(fields) + 1 -> Nat] /\ at[1] = 0
  /\ FieldsAt(at) /\ NothingBehind(at) /\ FlagsAt(at)

\* The receiver is at the start of the next field, or at a flag of it that is not behind
\* the last one.
Follows(at) ==
  /\ copy => got = <<>> /\ asked = NotAsked /\ roff = 0
  /\ Len(got) <= Len(fields) /\ asked = NotAsked => roff = at[Len(got) + 1]
  /\ asked # NotAsked /\ Len(got) < Len(fields) =>
       LET f == fields[Len(got) + 1] IN
       /\ f.op = "compressed" /\ asked.bytes = Bytes(f.value)
       /\ roff = at[Len(got) + 1] + 8 * (asked.bytes - 1 - asked.current)
       /\ \A c \in Nat :
            Packs(Planned, f.value, c, at[Len(got) + 1], at[Len(got) + 2]) => c <= asked.current
  /\ asked # NotAsked /\ Len(got) >= Len(fields) =>
       Len(got) = Len(fields) /\ roff = at[Len(got) + 1]

\* No call is forgotten, the fields are where the receiver looks for them, and so it
\* has read them.
ReadInvariant ==
  /\ Len(calls) <= 2
  /\ \E at : Placed(at) /\ Follows(at)
  /\ ReadsBack /\ AbsentIsNothing

\* Bits begin with themselves, and with those they are added to.
LEMMA BeginsJoined ==
  ASSUME NEW P \in Bits, NEW x \in Bits
  PROVE  /\ P \o x \in Bits /\ Len(P) \in Nat /\ Len(x) \in Nat /\ Len(P \o x) = Len(P) + Len(x)
         /\ Begins(P, P) /\ Begins(P, P \o x) /\ Has(P \o x, Len(P), x)
         /\ \A k \in Len(P) + 1..Len(P) + Len(x) : (P \o x)[k] = x[k - Len(P)]
<1>1. /\ Len(P) \in Nat /\ Len(x) \in Nat
      /\ P \o x \in Bits /\ Len(P \o x) = Len(P) + Len(x)
      /\ \A j \in 1..Len(P) : (P \o x)[j] = P[j]
      /\ \A j \in 1..Len(x) : (P \o x)[Len(P) + j] = x[j]
  BY Joined
<1>2. Begins(P, P) /\ Begins(P, P \o x)
  BY <1>1 DEF Begins
<1>3. Has(P \o x, Len(P), x)
  BY <1>1 DEF Has
<1>4. \A k \in Len(P) + 1..Len(P) + Len(x) : (P \o x)[k] = x[k - Len(P)]
  <2> SUFFICES ASSUME NEW k \in Len(P) + 1..Len(P) + Len(x)
               PROVE  (P \o x)[k] = x[k - Len(P)]
    OBVIOUS
  <2>1. k - Len(P) \in 1..Len(x) /\ Len(P) + (k - Len(P)) = k
    BY <1>1
  <2>2. (P \o x)[Len(P) + (k - Len(P))] = x[k - Len(P)]
    BY <1>1, <2>1
  <2> QED BY <2>1, <2>2
<1> QED BY <1>1, <1>2, <1>3, <1>4

\* The next field is put behind the others.
LEMMA WriteFieldPlaces ==
  ASSUME StreamConsistent, StreamConsistent', NEW f \in Field, WriteField(f), NEW at, Placed(at)
  PROVE  \E bt : Placed(bt)'
<1> DEFINE n == Len(fields)
           P == Planned
           Q == Planned'
<1>1. /\ fields \in Seq(Field) /\ n \in Nat /\ fields' = Append(fields, f)
      /\ Len(fields') = n + 1 /\ fields'[n + 1] = f
      /\ \A i \in 1..n : fields'[i] = fields[i] /\ fields[i] \in Field
  <2>1. fields \in Seq(Field) /\ fields' = Append(fields, f)
    BY DEF StreamConsistent, TypeOK, WriteField
  <2> QED BY <2>1, AppendProperties, ElementOfSeq, LenProperties
<1>2. /\ Len(calls) <= 2 /\ packed = NotPacked /\ copy /\ copy'
      /\ Q = IF f.op = "compressed" THEN P ELSE P \o f.value
  BY WriteFieldPlans DEF WriteField
<1>3. P \in Bits /\ f.value \in Bits /\ f.value # <<>>
  BY <1>2, PlannedIs, ValueIs
<1>4. /\ P \o f.value \in Bits /\ Len(P) \in Nat /\ Len(f.value) \in Nat
      /\ Len(P \o f.value) = Len(P) + Len(f.value)
      /\ Begins(P, P) /\ Begins(P, P \o f.value) /\ Has(P \o f.value, Len(P), f.value)
  BY <1>3, BeginsJoined
<1>5. Begins(P, Q) /\ Len(Q) \in Nat
  BY <1>2, <1>4 DEF Begins
<1>6. /\ at \in [1..n + 1 -> Nat] /\ at[1] = 0 /\ at[n + 1] = Len(P)
      /\ \A i \in 1..n : Holds(P, fields[i], at[i], at[i + 1])
  <2>1. at \in [1..n + 1 -> Nat] /\ at[1] = 0 /\ at[n + 1] \in Nat
    BY <1>1 DEF Placed
  <2>2. at[n + 1] <= Len(P) /\ Len(P) < at[n + 1] + 1
    BY <1>2 DEF Placed, NothingBehind
  <2>3. \A i \in 1..n : Holds(P, fields[i], at[i], at[i + 1])
    BY <1>2 DEF Placed, FieldsAt
  <2> QED BY <1>4, <2>1, <2>2, <2>3
<1>7. PICK bt : /\ bt \in [1..n + 2 -> Nat] /\ bt[1] = 0 /\ bt[n + 2] = Len(Q)
                /\ \A i \in 1..n + 1 : bt[i] = at[i]
  <2> DEFINE b == [i \in 1..n + 2 |-> IF i <= n + 1 THEN at[i] ELSE Len(Q)]
  <2>1. /\ b \in [1..n + 2 -> Nat] /\ b[1] = 0 /\ b[n + 2] = Len(Q)
        /\ \A i \in 1..n + 1 : b[i] = at[i]
    BY <1>1, <1>5, <1>6
  <2> QED BY <2>1
<1>8. /\ f.op = "compressed" => packed' = [value |-> f.value, current |-> Bytes(f.value) - 1]
      /\ f.op # "compressed" => packed' = NotPacked
  BY <1>2, ValueIs DEF WriteField, Bytes
<1>9. f.op = "compressed" => packed' # NotPacked
  <2>1. NotPacked.value = <<>>
    BY DEF NotPacked
  <2>2. f.op = "compressed" => packed'.value = f.value
    BY <1>8
  <2> QED BY <1>3, <2>1, <2>2
<1> HIDE DEF n, P, Q
<1>10. \A i \in 1..n : Holds(Q, fields[i], at[i], at[i + 1])
  <2> SUFFICES ASSUME NEW i \in 1..n PROVE Holds(Q, fields[i], at[i], at[i + 1])
    OBVIOUS
  <2>1. i \in 1..n + 1 /\ i + 1 \in 1..n + 1
    BY <1>1
  <2>2. at[i] \in Nat /\ at[i + 1] \in Nat
    BY <1>6, <2>1
  <2> QED BY <1>1, <1>5, <1>6, <2>2, HoldsMore
<1>11. f.op # "compressed" => Holds(Q, f, at[n + 1], Len(Q))
  BY <1>2, <1>4, <1>6 DEF Holds
<1>12. FieldsAt(bt)'
  <2>1. ASSUME NEW i \in 1..n + 1, i < n + 1 \/ packed' = NotPacked
        PROVE  Holds(Q, fields'[i], bt[i], bt[i + 1])
    <3>1. CASE i <= n
      <4>1. i \in 1..n /\ bt[i] = at[i] /\ bt[i + 1] = at[i + 1] /\ fields'[i] = fields[i]
        BY <1>1, <1>7, <3>1
      <4> QED BY <1>10, <4>1
    <3>2. CASE i = n + 1
      <4>1. /\ f.op # "compressed" /\ bt[i] = at[n + 1] /\ bt[i + 1] = Len(Q)
            /\ fields'[i] = f
        BY <1>1, <1>7, <1>9, <2>1, <3>2
      <4> QED BY <1>11, <4>1
    <3> QED BY <1>1, <3>1, <3>2
  <2> QED BY <1>1, <2>1 DEF FieldsAt, Q
<1>13. NothingBehind(bt)'
  <2>1. bt[n + 1 + 1] = Len(Q) /\ \A k \in Len(Q) + 1..Len(Q) : FALSE
    BY <1>1, <1>5, <1>7
  <2>2. /\ bt[n + 1 + 1] <= Len(Q) /\ Len(Q) < bt[n + 1 + 1] + 1
        /\ \A k \in bt[n + 1 + 1] + 1..Len(Q) : Q[k] = 0
    BY <1>5, <2>1
  <2> QED BY <1>1, <1>2, <2>2 DEF NothingBehind, Q
<1>14. FlagsAt(bt)'
  <2>1. ASSUME packed' # NotPacked
        PROVE  /\ f.op = "compressed" /\ packed'.value = f.value
               /\ packed'.current = Bytes(f.value) - 1
               /\ packed'.current \in 0..Bytes(f.value) - 1
               /\ Flags(Q, f.value, packed'.current, bt[n + 1])
               /\ Len(Q) = bt[n + 1] + 8 * (Bytes(f.value) - 1 - packed'.current)
    <3>1. f.op = "compressed" /\ packed' = [value |-> f.value, current |-> Bytes(f.value) - 1]
      BY <1>8, <2>1
    <3>2. packed'.value = f.value /\ packed'.current = Bytes(f.value) - 1
      BY <3>1
    <3>3. Bytes(f.value) \in Nat \ {0}
      BY <3>1, ValueIs
    <3>4. Q = P /\ bt[n + 1] = Len(P)
      BY <1>1, <1>2, <1>6, <1>7, <3>1
    <3>5. Flags(Q, f.value, packed'.current, bt[n + 1])
      BY <3>2, <3>3 DEF Flags
    <3> QED BY <1>4, <3>1, <3>2, <3>3, <3>4, <3>5
  <2>2. n + 1 > 0
    BY <1>1
  <2> QED BY <1>1, <2>1, <2>2 DEF FlagsAt, Q
<1>15. bt \in [1..Len(fields') + 1 -> Nat] /\ bt[1] = 0
  <2>1. n + 2 = Len(fields') + 1
    BY <1>1
  <2> QED BY <1>7, <2>1
<1> QED BY <1>12, <1>13, <1>14, <1>15 DEF Placed


\* Two sequences behind the others.
LEMMA HasTwo ==
  ASSUME NEW P \in Bits, NEW x \in Bits, NEW y \in Bits
  PROVE  /\ x \o y \in Bits /\ Begins(P, P \o (x \o y))
         /\ Len(P) \in Nat /\ Len(x) \in Nat /\ Len(y) \in Nat
         /\ Len(P \o (x \o y)) = Len(P) + Len(x) + Len(y)
         /\ Has(P \o (x \o y), Len(P), x) /\ Has(P \o (x \o y), Len(P) + Len(x), y)
<1> DEFINE z == x \o y
<1>1. /\ Len(x) \in Nat /\ Len(y) \in Nat /\ z \in Bits /\ Len(z) = Len(x) + Len(y)
      /\ \A j \in 1..Len(x) : z[j] = x[j]
      /\ \A j \in 1..Len(y) : z[Len(x) + j] = y[j]
  BY Joined
<1> HIDE DEF z
<1>2. /\ Len(P) \in Nat /\ Len(P \o z) = Len(P) + Len(z) /\ Begins(P, P \o z)
      /\ \A j \in 1..Len(z) : (P \o z)[Len(P) + j] = z[j]
  BY <1>1, BeginsJoined DEF Has
<1>3. Has(P \o z, Len(P), x)
  <2>1. \A j \in 1..Len(x) : j \in 1..Len(z)
    BY <1>1
  <2>2. \A j \in 1..Len(x) : (P \o z)[Len(P) + j] = x[j]
    BY <1>1, <1>2, <2>1
  <2> QED BY <1>1, <1>2, <2>2 DEF Has
<1>4. Has(P \o z, Len(P) + Len(x), y)
  <2>1. \A j \in 1..Len(y) : /\ Len(x) + j \in 1..Len(z)
                             /\ Len(P) + Len(x) + j = Len(P) + (Len(x) + j)
    BY <1>1, <1>2
  <2>2. \A j \in 1..Len(y) : (P \o z)[Len(P) + Len(x) + j] = y[j]
    BY <1>1, <1>2, <2>1
  <2> QED BY <1>1, <1>2, <2>2 DEF Has
<1>5. Len(P \o z) = Len(P) + Len(x) + Len(y)
  BY <1>1, <1>2
<1> QED BY <1>1, <1>2, <1>3, <1>4, <1>5 DEF z

\* The fields in front of the last stay where they are, as long as bits are added.
LEMMA FieldsStay ==
  ASSUME StreamConsistent, NEW at, Placed(at), NEW Q, Begins(Planned, Q),
         NEW i \in 1..Len(fields), i < Len(fields) \/ packed = NotPacked
  PROVE  Holds(Q, fields[i], at[i], at[i + 1])
<1>1. Len(fields) \in Nat /\ fields[i] \in Field
  BY ElementOfSeq, LenProperties DEF StreamConsistent, TypeOK
<1>2. at[i] \in Nat /\ at[i + 1] \in Nat
  <2>1. i \in 1..Len(fields) + 1 /\ i + 1 \in 1..Len(fields) + 1
    BY <1>1
  <2> QED BY <2>1 DEF Placed
<1>3. Holds(Planned, fields[i], at[i], at[i + 1])
  BY DEF Placed, FieldsAt
<1> QED BY <1>1, <1>2, <1>3, HoldsMore

\* A round of WriteCompressed puts one more flag behind, or ends the field.
LEMMA RoundPlaces ==
  ASSUME StreamConsistent, StreamConsistent', WriteCompressedRound, Len(calls) <= 2,
         NEW at, Placed(at)
  PROVE  Len(calls') <= 2 /\ \E bt : Placed(bt)'
<1> DEFINE n == Len(fields)
           P == Planned
           Q == Planned'
           v == packed.value
           c == packed.current
           B == Bytes(v)
           L == LastCalls(v, c)
<1>1. packed # NotPacked /\ fields' = fields
  BY DEF WriteCompressedRound
<1>2. /\ n \in Nat \ {0} /\ fields[n] \in Field /\ fields[n].op = "compressed"
      /\ fields[n].value = v /\ c \in 0..B - 1 /\ Flags(P, v, c, at[n])
      /\ Len(P) = at[n] + 8 * (B - 1 - c)
  <2>1. fields \in Seq(Field) /\ n \in Nat
    BY LenProperties DEF StreamConsistent, TypeOK
  <2>2. /\ n > 0 /\ fields[n].op = "compressed" /\ fields[n].value = v
        /\ c \in 0..B - 1 /\ Flags(P, v, c, at[n]) /\ Len(P) = at[n] + 8 * (B - 1 - c)
    BY <1>1 DEF Placed, FlagsAt
  <2>3. fields[n] \in Field
    BY <2>1, <2>2, ElementOfSeq
  <2> QED BY <2>1, <2>2, <2>3
<1>3. /\ v \in Bits /\ v # <<>> /\ B \in Nat \ {0} /\ 8 * B = Len(v) /\ P \in Bits
      /\ c \in Nat /\ 8 * c + 8 <= Len(v)
  <2>1. v \in Bits /\ v # <<>> /\ B \in Nat \ {0} /\ 8 * B = Len(v)
    <3>1. /\ fields[n].value \in Bits /\ fields[n].value # <<>>
          /\ Bytes(fields[n].value) \in Nat \ {0}
          /\ 8 * Bytes(fields[n].value) = Len(fields[n].value)
      BY <1>2, ValueIs
    <3> QED BY <1>2, <3>1
  <2>2. c \in Nat /\ 8 * c + 8 <= Len(v)
    BY SMTT(30), <1>2, <2>1
  <2> QED BY <2>1, <2>2, PlannedIs
<1>4. /\ at \in [1..n + 1 -> Nat] /\ at[1] = 0 /\ at[n] \in Nat
  <2>1. n \in 1..n + 1
    BY <1>2
  <2> QED BY <2>1 DEF Placed
<1>5. \A y : Begins(P, y) =>
        /\ \A i \in 1..n : i < n => Holds(y, fields[i], at[i], at[i + 1])
        /\ Flags(y, v, c, at[n])
  <2> SUFFICES ASSUME NEW y, Begins(P, y)
               PROVE  /\ \A i \in 1..n : i < n => Holds(y, fields[i], at[i], at[i + 1])
                      /\ Flags(y, v, c, at[n])
    OBVIOUS
  <2>1. Flags(y, v, c, at[n])
    BY <1>2, <1>3, <1>4, PacksMore
  <2> QED BY <2>1, FieldsStay
<1>6. CASE c > 0 /\ ByteOf(v, c) = Zeros(8)
  <2>1. packed' = [packed EXCEPT !.current = @ - 1] /\ calls' = <<Flag(1)>>
    BY <1>6 DEF WriteCompressedRound
  <2>2. packed'.value = v /\ packed'.current = c - 1
    <3>1. packed \in [value : Bits, current : Nat]
      BY DEF StreamConsistent, TypeOK
    <3> QED BY <2>1, <3>1
  <2>3. packed' # NotPacked
    <3>1. NotPacked.value = <<>>
      BY DEF NotPacked
    <3> QED BY <1>3, <2>2, <3>1
  <2>4. Len(calls') = 1 /\ Flat(calls') = Flag(1)
    BY <2>1 DEF Flat
  <2>5. Flag(1) \in Bits /\ Len(Flag(1)) = 8
    BY FlagIs DEF BIT
  <2>6. Q = P \o Flag(1)
    <3>1. Len(calls') <= 2
      BY <2>4
    <3>2. Q = P \o Flat(calls')
      BY <3>1, RoundPlans
    <3> QED BY <2>4, <3>2
  <2>7. Begins(P, Q) /\ Len(Q) = Len(P) + 8 /\ Has(Q, Len(P), Flag(1))
    <3> DEFINE y == Flag(1)
    <3>1. P \in Bits /\ y \in Bits /\ Len(y) = 8 /\ Q = P \o y
      BY <1>3, <2>5, <2>6
    <3> HIDE DEF P, Q, y
    <3>2. Begins(P, P \o y) /\ Len(P \o y) = Len(P) + Len(y) /\ Has(P \o y, Len(P), y)
      BY <3>1, BeginsJoined
    <3>3. Begins(P, Q) /\ Len(Q) = Len(P) + 8 /\ Has(Q, Len(P), y)
      BY <3>1, <3>2
    <3> QED BY <3>3 DEF y
  <2>8. Flags(Q, v, c, at[n]) /\ \A i \in 1..n : i < n => Holds(Q, fields[i], at[i], at[i + 1])
    BY <1>5, <2>7
  <2> HIDE DEF n, P, Q, v, c, B
  <2>9. Flags(Q, v, c - 1, at[n])
    <3>1. ASSUME NEW k \in c - 1 + 1..Bytes(v) - 1
          PROVE  ByteOf(v, k) = Zeros(8) /\ Has(Q, at[n] + 8 * (Bytes(v) - 1 - k), Flag(1))
      <4>1. CASE k = c
        BY <1>2, <1>6, <2>7, <4>1 DEF B
      <4>2. CASE k # c
        <5>1. k \in c + 1..Bytes(v) - 1
          BY <1>3, <4>2 DEF B
        <5> QED BY <2>8, <5>1 DEF Flags
      <4> QED BY <4>1, <4>2
    <3> QED BY <3>1 DEF Flags
  <2>10. Len(Q) = at[n] + 8 * (B - 1 - (c - 1)) /\ c - 1 \in 0..B - 1
    BY SMTT(30), <1>2, <1>3, <1>4, <1>6, <2>7
  <2>11. FlagsAt(at)'
    BY <1>1, <1>2, <2>2, <2>9, <2>10 DEF FlagsAt, n, Q, B
  <2>12. FieldsAt(at)' /\ NothingBehind(at)'
    BY <1>1, <2>3, <2>8 DEF FieldsAt, NothingBehind, n, Q
  <2>13. Placed(at)'
    BY <1>1, <1>4, <2>11, <2>12 DEF Placed, n
  <2> QED BY <2>4, <2>13
<1>7. CASE ~(c > 0 /\ ByteOf(v, c) = Zeros(8))
  <2>1. packed' = NotPacked /\ calls' = L
    BY <1>7 DEF WriteCompressedRound
  <2>2. /\ L \in Seq(Bits) /\ Len(L) = 2 /\ L[1] \in Bits /\ Len(L[1]) = 8 /\ L[2] \in Bits
    <3>1. Flag(0) \in Bits /\ Flag(1) \in Bits
      BY FlagIs DEF BIT
    <3> QED BY <1>3, <3>1, LastCallsAre
  <2> DEFINE x == L[1]
             y == L[2]
  <2>3. Flat(L) = x \o y
    <3>1. L # <<>> /\ Len(L) # 1
      BY <2>2
    <3> QED BY <3>1 DEF Flat
  <2>4. Len(calls') = 2 /\ Q = P \o (x \o y)
    <3>1. Len(calls') = 2 /\ Len(calls') <= 2 /\ Flat(calls') = x \o y
      BY <2>1, <2>2, <2>3
    <3>2. Q = P \o Flat(calls')
      BY <3>1, RoundPlans
    <3> QED BY <3>1, <3>2
  <2>5. x \in Bits /\ Len(x) = 8 /\ y \in Bits
    BY <2>2
  <2>6. /\ Begins(P, Q) /\ Len(Q) = Len(P) + 8 + Len(y) /\ Len(P) \in Nat /\ Len(y) \in Nat
        /\ Has(Q, Len(P), x) /\ Has(Q, Len(P) + 8, y) /\ Len(Q) \in Nat
    <3>1. P \in Bits
      BY <1>3
    <3> DEFINE z == x \o y
               l == Len(x)
    <3> HIDE DEF x, y, P, Q
    <3>2. /\ Begins(P, P \o z) /\ Len(P) \in Nat /\ Len(y) \in Nat
          /\ Len(P \o z) = Len(P) + l + Len(y)
          /\ Has(P \o z, Len(P), x) /\ Has(P \o z, Len(P) + l, y)
      BY <2>5, <3>1, HasTwo
    <3>3. Q = P \o z /\ l = 8
      BY <2>4, <2>5
    <3> HIDE DEF z, l
    <3> QED BY <3>2, <3>3
  <2>7. Flags(Q, v, c, at[n]) /\ \A i \in 1..n : i < n => Holds(Q, fields[i], at[i], at[i + 1])
    BY <1>5, <2>6
  <2>8. Packs(Q, v, c, at[n], Len(Q))
    BY <1>2, <2>6, <2>7 DEF Packs
  <2>9. Holds(Q, fields[n], at[n], Len(Q))
    BY <1>2, <1>3, <2>8 DEF Holds
  <2>10. PICK bt : /\ bt \in [1..n + 1 -> Nat] /\ bt[1] = 0 /\ bt[n + 1] = Len(Q)
                   /\ \A i \in 1..n : bt[i] = at[i]
    <3> DEFINE b == [i \in 1..n + 1 |-> IF i <= n THEN at[i] ELSE Len(Q)]
    <3>1. Len(Q) \in Nat
      BY <2>6
    <3> HIDE DEF n, Q
    <3>2. /\ b \in [1..n + 1 -> Nat] /\ b[1] = 0 /\ b[n + 1] = Len(Q)
          /\ \A i \in 1..n : b[i] = at[i]
      BY <1>2, <1>4, <3>1
    <3> QED BY <3>2
  <2> HIDE DEF n, P, Q, v, c, B, L
  <2>11. FieldsAt(bt)'
    <3>1. ASSUME NEW i \in 1..n
          PROVE  Holds(Q, fields[i], bt[i], bt[i + 1])
      <4>1. CASE i < n
        <5>1. bt[i] = at[i] /\ bt[i + 1] = at[i + 1]
          BY <1>2, <2>10, <4>1
        <5> QED BY <2>7, <4>1, <5>1
      <4>2. CASE i = n
        BY <2>9, <2>10, <4>2
      <4> QED BY <1>2, <4>1, <4>2
    <3> QED BY <1>1, <3>1 DEF FieldsAt, n, Q
  <2>12. NothingBehind(bt)'
    <3>1. /\ bt[n + 1] <= Len(Q) /\ Len(Q) < bt[n + 1] + 1
          /\ \A k \in bt[n + 1] + 1..Len(Q) : Q[k] = 0
      <4>1. bt[n + 1] = Len(Q) /\ Len(Q) \in Nat
        BY <2>6, <2>10
      <4> QED BY <4>1
    <3>2. copy'
      <4>1. copy /\ copy' = copy
        BY <1>1 DEF StreamConsistent, Underway, Writing, WriteCompressedRound
      <4> QED BY <4>1
    <3> QED BY <1>1, <3>1, <3>2 DEF NothingBehind, n, Q
  <2>13. FlagsAt(bt)'
    BY <2>1 DEF FlagsAt
  <2>14. Placed(bt)'
    BY <1>1, <2>10, <2>11, <2>12, <2>13 DEF Placed, n
  <2> QED BY <2>4, <2>14
<1> QED BY <1>6, <1>7

\* The padding is behind the last field.
LEMMA SendPlaces ==
  ASSUME StreamConsistent, StreamConsistent', Send, NEW at, Placed(at)
  PROVE  Len(calls') <= 2 /\ Placed(at)'
<1> DEFINE n == Len(fields)
           P == Planned
           Q == Planned'
<1>1. /\ copy /\ copy' = FALSE /\ fields' = fields /\ packed' = packed
  BY DEF Send, writer
<1>2. PICK m \in 0..7 : Q = P \o Zeros(m)
  BY SendPlans
<1>3. Len(calls) <= 2 /\ Len(calls') <= 2 /\ packed = NotPacked
  BY SendPlans
<1>4. Zeros(m) \in Bits /\ Len(Zeros(m)) = m /\ \A j \in 1..m : Zeros(m)[j] = 0
  <2>1. m \in Nat
    OBVIOUS
  <2> QED BY <2>1, ZerosType DEF Zeros
<1>5. /\ at \in [1..n + 1 -> Nat] /\ at[1] = 0 /\ n \in Nat /\ at[n + 1] \in Nat
      /\ at[n + 1] <= Len(P) /\ Len(P) < at[n + 1] + 1
  <2>1. n \in Nat
    BY LenProperties DEF StreamConsistent, TypeOK
  <2>2. n + 1 \in 1..n + 1
    BY <2>1
  <2> QED BY <1>1, <1>3, <2>1, <2>2 DEF Placed, NothingBehind
<1> DEFINE z == Zeros(m)
<1>6. z \in Bits /\ Len(z) = m
  BY <1>4
<1> HIDE DEF z
<1>7. /\ Begins(P, Q) /\ Len(Q) = Len(P) + m /\ Len(P) \in Nat
      /\ \A k \in Len(P) + 1..Len(P) + m : Q[k] = z[k - Len(P)]
  <2>1. P \in Bits /\ Q = P \o z
    BY <1>2, <1>3, PlannedIs DEF z
  <2> QED BY <1>6, <2>1, BeginsJoined
<1>8. FieldsAt(at)'
  <2>1. \A i \in 1..n : Holds(Q, fields[i], at[i], at[i + 1])
    BY <1>3, <1>7, FieldsStay
  <2> QED BY <1>1, <2>1 DEF FieldsAt
<1> HIDE DEF n, P, Q
<1>9. NothingBehind(at)'
  <2>1. at[n + 1] = Len(P) /\ Len(Q) < at[n + 1] + 8 /\ at[n + 1] <= Len(Q)
    BY <1>5, <1>7
  <2>2. \A k \in at[n + 1] + 1..Len(Q) : Q[k] = 0
    <3> SUFFICES ASSUME NEW k \in at[n + 1] + 1..Len(Q) PROVE Q[k] = 0
      OBVIOUS
    <3>1. k \in Len(P) + 1..Len(P) + m /\ k - Len(P) \in 1..m
      BY <1>5, <1>7, <2>1
    <3> QED BY <1>4, <1>7, <3>1 DEF z
  <2> QED BY <1>1, <2>1, <2>2 DEF NothingBehind, n, Q
<1>10. FlagsAt(at)'
  BY <1>1, <1>3 DEF FlagsAt
<1> QED BY <1>1, <1>3, <1>5, <1>8, <1>9, <1>10 DEF Placed, n


-----------------------------------------------------------------------------
(* What the receiver reads *)

\* The receiver's bits are the ones planned.
LEMMA ReceivedIs ==
  ASSUME StreamConsistent, ~copy
  PROVE  /\ Planned = Written(data, woff) /\ Len(Planned) = woff /\ woff \in Nat
         /\ woff <= MaxBits /\ MaxBits \in Nat /\ data \in [Memory -> BIT] /\ packed = NotPacked
         /\ \A k \in 1..woff : Planned[k] = data[k - 1]
<1>1. /\ data \in [Memory -> BIT] /\ woff \in 0..MaxBits /\ MaxBits \in Nat
      /\ todo = <<>> /\ calls = <<>> /\ packed = NotPacked
  BY BitStreamAssumption DEF StreamConsistent, TypeOK, Underway, Writing
<1>2. Written(data, woff) \in Bits /\ Len(Written(data, woff)) = woff
  BY <1>1, WrittenIs
<1>3. Planned = Written(data, woff)
  <2>1. <<>> \in Seq(BIT) /\ Written(data, woff) \in Seq(BIT)
    BY <1>2 DEF Bits
  <2>2. Flat(calls) = <<>>
    BY <1>1 DEF Flat
  <2>3. Planned = Written(data, woff) \o (<<>> \o <<>>)
    BY <1>1, <2>2 DEF Planned
  <2>4. <<>> \o <<>> = <<>> /\ Written(data, woff) \o <<>> = Written(data, woff)
    BY <2>1, ConcatEmptySeq
  <2> QED BY <2>3, <2>4
<1>4. \A k \in 1..woff : Written(data, woff)[k] = data[k - 1]
  BY DEF Written
<1> QED BY <1>1, <1>2, <1>3, <1>4

\* What is among the bits is read where it is.
LEMMA AtHas ==
  ASSUME StreamConsistent, ~copy, NEW s \in Nat, NEW T \in Bits, Has(Planned, s, T)
  PROVE  s + Len(T) <= woff /\ At(s, Len(T)) = T
<1>1. /\ Len(Planned) = woff /\ woff \in Nat /\ woff <= MaxBits /\ MaxBits \in Nat
      /\ data \in [Memory -> BIT] /\ \A k \in 1..woff : Planned[k] = data[k - 1]
      /\ Len(T) \in Nat
  BY ReceivedIs, LenProperties DEF Bits
<1>2. s + Len(T) <= woff /\ \A j \in 1..Len(T) : Planned[s + j] = T[j]
  BY <1>1 DEF Has
<1>3. s + Len(T) <= MaxBits
  BY <1>1, <1>2
<1>4. /\ At(s, Len(T)) \in Bits /\ Len(At(s, Len(T))) = Len(T)
      /\ \A i \in 1..Len(T) : At(s, Len(T))[i] = data[s + i - 1]
  BY <1>1, <1>3, AtType
<1>5. ASSUME NEW i \in 1..Len(T)
      PROVE  At(s, Len(T))[i] = T[i]
  <2>1. s + i \in 1..woff
    BY <1>1, <1>2
  <2>2. Planned[s + i] = data[s + i - 1]
    BY <1>1, <2>1
  <2> QED BY <1>2, <1>4, <2>2
<1> QED BY <1>2, <1>4, <1>5, SeqEqual DEF Bits

\* A flag is seen where it is.
LEMMA IsSetHas ==
  ASSUME StreamConsistent, ~copy, NEW s \in Nat, NEW b \in BIT, Has(Planned, s, Flag(b))
  PROVE  s + 8 <= woff /\ (IsSet(s) <=> b = 1)
<1>1. /\ Flag(b) \in Bits /\ Len(Flag(b)) = 8 /\ Flag(b)[8] = b
      /\ \A j \in 1..7 : Flag(b)[j] = 0
  BY FlagIs
<1>2. s + 8 <= woff /\ At(s, 8) = Flag(b)
  BY <1>1, AtHas
<1>3. \A j \in 1..8 : At(s, 8)[j] = data[s + j - 1]
  BY DEF At
<1>4. \A i \in 0..7 : data[s + i] = Flag(b)[i + 1]
  <2> SUFFICES ASSUME NEW i \in 0..7 PROVE data[s + i] = Flag(b)[i + 1]
    OBVIOUS
  <2>1. i + 1 \in 1..8 /\ s + (i + 1) - 1 = s + i
    OBVIOUS
  <2>2. At(s, 8)[i + 1] = data[s + (i + 1) - 1]
    BY <1>3, <2>1
  <2> QED BY <1>2, <2>1, <2>2
<1>5. data[s + 7] = b
  BY <1>1, <1>4
<1>6. \A i \in 0..6 : data[s + i] = 0
  BY <1>1, <1>4
<1> QED BY <1>2, <1>5, <1>6 DEF IsSet

\* An answer is added to those the receiver has.
LEMMA AnswerAdds ==
  ASSUME StreamConsistent, NEW ok, NEW v, Answer(ok, v)
  PROVE  /\ Len(got) \in Nat /\ Len(got') = Len(got) + 1
         /\ \A i \in 1..Len(got) : got'[i] = got[i]
         /\ got'[Len(got) + 1].ok = ok /\ got'[Len(got) + 1].value = v
<1>1. got \in Seq([ok : BOOLEAN, value : Bits]) /\ got' = Append(got, [ok |-> ok, value |-> v])
  BY DEF StreamConsistent, TypeOK, Answer
<1> DEFINE e == [ok |-> ok, value |-> v]
<1>2. e.ok = ok /\ e.value = v
  OBVIOUS
<1> HIDE DEF e
<1>3. /\ Len(got) \in Nat /\ Len(Append(got, e)) = Len(got) + 1
      /\ \A i \in 1..Len(got) : Append(got, e)[i] = got[i]
      /\ Append(got, e)[Len(got) + 1] = e
  <2>1. Len(got) \in Nat
    BY <1>1, LenProperties
  <2> QED BY <1>1, <2>1
<1>4. got' = Append(got, e)
  BY <1>1 DEF e
<1> QED BY <1>2, <1>3, <1>4

\* What the next answer has to be.
RightAnswer ==
  \E ok \in BOOLEAN, v \in Bits :
    /\ Answer(ok, v)
    /\ Len(got) < Len(fields) => ok /\ v = fields[Len(got) + 1].value
    /\ Len(got) >= Len(fields) /\ ok => \/ \A j \in DOMAIN v : v[j] = 0
                                        \/ Len(v) = 1 /\ roff' > woff

\* With such an answer, everything has been read back.
LEMMA RightlyRead ==
  ASSUME StreamConsistent, ReadsBack, Len(got) <= Len(fields), RightAnswer,
         UNCHANGED <<fields, woff>>
  PROVE  ReadsBack' /\ AbsentIsNothing' /\ Len(got') = Len(got) + 1
<1>1. PICK ok \in BOOLEAN, v \in Bits :
        /\ Answer(ok, v)
        /\ Len(got) < Len(fields) => ok /\ v = fields[Len(got) + 1].value
        /\ Len(got) >= Len(fields) /\ ok => \/ \A j \in DOMAIN v : v[j] = 0
                                            \/ Len(v) = 1 /\ roff' > woff
  BY DEF RightAnswer
<1> DEFINE g == Len(got)
           n == Len(fields)
<1>2. /\ g \in Nat /\ Len(got') = g + 1
      /\ \A i \in 1..g : got'[i] = got[i]
      /\ got'[g + 1].ok = ok /\ got'[g + 1].value = v
  BY <1>1, AnswerAdds
<1>3. n \in Nat
  BY LenProperties DEF StreamConsistent, TypeOK
<1>4. g <= n
  OBVIOUS
<1>5. /\ g < n => ok /\ v = fields[g + 1].value
      /\ g >= n /\ ok => \/ \A j \in DOMAIN v : v[j] = 0
                         \/ Len(v) = 1 /\ roff' > woff
  BY <1>1
<1>6. \A i \in 1..g : i <= n => got[i].ok /\ got[i].value = fields[i].value
  BY DEF ReadsBack
<1> HIDE DEF g, n
<1>7. ASSUME NEW i \in 1..g + 1, i <= n
      PROVE  got'[i].ok /\ got'[i].value = fields[i].value
  <2>1. CASE i \in 1..g
    BY <1>2, <1>6, <1>7, <2>1
  <2>2. CASE i = g + 1
    <3>1. g < n
      BY <1>2, <1>3, <1>7, <2>2
    <3>2. ok = TRUE /\ v = fields[g + 1].value
      BY <1>5, <3>1
    <3> QED BY <1>2, <2>2, <3>2
  <2> QED BY <1>2, <2>1, <2>2
<1>8. ASSUME NEW i \in 1..g + 1, i > n, got'[i].ok
      PROVE  \/ \A j \in DOMAIN got'[i].value : got'[i].value[j] = 0
             \/ Len(got'[i].value) = 1 /\ roff' > woff
  <2>1. i = g + 1 /\ g >= n
    BY <1>2, <1>3, <1>4, <1>8
  <2>2. ok
    BY <1>2, <1>8, <2>1
  <2> QED BY <1>2, <1>5, <2>1, <2>2
<1>9. fields' = fields /\ woff' = woff
  OBVIOUS
<1> QED BY <1>2, <1>7, <1>8, <1>9 DEF ReadsBack, AbsentIsNothing, g, n


\* A step of the receiver moves no field.
LEMMA ReceiverPlaces ==
  ASSUME ReadField \/ ReadCompressedFlag
  PROVE  /\ ~copy /\ copy' = copy /\ woff' = woff /\ fields' = fields /\ calls' = calls
         /\ packed' = packed /\ Planned' = Planned
         /\ \A at : Placed(at) => Placed(at)'
<1>1. ~copy /\ UNCHANGED <<buffer, woff, copy, writer>>
  BY DEF ReadField, ReadBit, ReadBits, ReadCompressed, ReadCompressedFlag, Reading
<1>2. /\ data' = data /\ woff' = woff /\ copy' = copy
      /\ todo' = todo /\ packed' = packed /\ calls' = calls /\ fields' = fields
  BY <1>1 DEF buffer, writer
<1>3. Planned' = Planned
  BY <1>2 DEF Planned
<1>4. \A at : Placed(at) => Placed(at)'
  BY <1>2, <1>3 DEF Placed, FieldsAt, NothingBehind, FlagsAt
<1> QED BY <1>1, <1>2, <1>3, <1>4

\* Where the receiver is when it begins to read a field, and what is there.
LEMMA NextField ==
  ASSUME StreamConsistent, ~copy, NEW at, Placed(at), Follows(at),
         Len(got) <= Len(fields)
  PROVE  /\ Len(got) \in Nat /\ Len(fields) \in Nat
         /\ at[Len(got) + 1] \in Nat
         /\ Len(got) < Len(fields) =>
              /\ fields[Len(got) + 1] \in Field /\ at[Len(got) + 2] \in Nat
              /\ Holds(Planned, fields[Len(got) + 1], at[Len(got) + 1], at[Len(got) + 2])
         /\ Len(got) >= Len(fields) =>
              /\ woff < at[Len(got) + 1] + 8
              /\ \A i \in Nat : at[Len(got) + 1] <= i /\ i < woff => data[i] = 0
<1> DEFINE g == Len(got)
           n == Len(fields)
<1>1. /\ g \in Nat /\ n \in Nat /\ fields \in Seq(Field)
      /\ at \in [1..n + 1 -> Nat]
  BY LenProperties DEF StreamConsistent, TypeOK, Placed
<1>2. g <= n
  OBVIOUS
<1>3. /\ Len(Planned) = woff /\ woff \in Nat /\ packed = NotPacked
      /\ \A k \in 1..woff : Planned[k] = data[k - 1]
  BY ReceivedIs
<1>4. at[g + 1] \in Nat
  <2>1. g + 1 \in 1..n + 1
    BY <1>1, <1>2
  <2> QED BY <1>1, <2>1
<1>5. ASSUME g < n
      PROVE  /\ fields[g + 1] \in Field /\ at[g + 2] \in Nat
             /\ Holds(Planned, fields[g + 1], at[g + 1], at[g + 2])
  <2>1. g + 1 \in 1..n /\ g + 2 \in 1..n + 1 /\ g + 1 + 1 = g + 2
    BY <1>1, <1>5
  <2>2. fields[g + 1] \in Field /\ at[g + 2] \in Nat
    BY <1>1, <2>1, ElementOfSeq
  <2>3. Holds(Planned, fields[g + 1], at[g + 1], at[g + 1 + 1])
    BY <1>3, <2>1 DEF Placed, FieldsAt
  <2> QED BY <2>1, <2>2, <2>3
<1>6. ASSUME g >= n
      PROVE  /\ woff < at[g + 1] + 8
             /\ \A i \in Nat : at[g + 1] <= i /\ i < woff => data[i] = 0
  <2>1. g = n
    BY <1>1, <1>2, <1>6
  <2>2. /\ Len(Planned) < at[n + 1] + (IF copy THEN 1 ELSE 8)
        /\ \A k \in at[n + 1] + 1..Len(Planned) : Planned[k] = 0
    BY <1>3 DEF Placed, NothingBehind
  <2>3. woff < at[g + 1] + 8 /\ \A k \in at[g + 1] + 1..woff : Planned[k] = 0
    BY <1>3, <2>1, <2>2
  <2> HIDE DEF g, n
  <2>4. ASSUME NEW i \in Nat, at[g + 1] <= i, i < woff
        PROVE  data[i] = 0
    <3>1. i + 1 \in at[g + 1] + 1..woff /\ i + 1 \in 1..woff /\ i + 1 - 1 = i
      BY <1>3, <1>4, <2>4
    <3> QED BY <1>3, <2>3, <3>1
  <2> QED BY <2>3, <2>4
<1> QED BY <1>1, <1>4, <1>5, <1>6

\* What is read behind the fields is zero.
LEMMA ZerosRead ==
  ASSUME StreamConsistent, ~copy, NEW s \in Nat, NEW k \in Nat, s + k <= woff,
         \A i \in Nat : s <= i /\ i < woff => data[i] = 0
  PROVE  At(s, k) \in Bits /\ \A j \in DOMAIN At(s, k) : At(s, k)[j] = 0
<1>1. /\ woff \in Nat /\ woff <= MaxBits /\ MaxBits \in Nat /\ data \in [Memory -> BIT]
  BY ReceivedIs
<1>2. /\ At(s, k) \in Bits /\ DOMAIN At(s, k) = 1..k
      /\ \A i \in 1..k : At(s, k)[i] = data[s + i - 1]
  <2>1. s + k <= MaxBits
    BY <1>1
  <2> QED BY <1>1, <2>1, AtType DEF At
<1>3. \A i \in 1..k : s + i - 1 \in Nat /\ s <= s + i - 1 /\ s + i - 1 < woff
  BY <1>1
<1>4. \A i \in 1..k : data[s + i - 1] = 0
  BY <1>3
<1> QED BY <1>2, <1>4

\* The receiver that begins to read a field is there, reads it at once or goes on, and
\* gives the right answer.
LEMMA ReadFieldReads ==
  ASSUME StreamConsistent, StreamConsistent', ReadField, ReadsBack, AbsentIsNothing,
         NEW at, Placed(at), Follows(at)
  PROVE  Follows(at)' /\ ReadsBack' /\ AbsentIsNothing'
<1> DEFINE g == Len(got)
           n == Len(fields)
<1>1. /\ ~copy /\ ~copy' /\ woff' = woff /\ fields' = fields /\ Planned' = Planned
  BY ReceiverPlaces
<1>2. PICK f \in Expected : \/ f.op = "bit" /\ ReadBit
                            \/ f.op = "bits" /\ ReadBits(Len(f.value))
                            \/ f.op = "compressed" /\ ReadCompressed(Len(f.value))
  BY DEF ReadField
<1>3. asked = NotAsked /\ g <= n
  BY <1>2 DEF ReadField, ReadBit, ReadBits, ReadCompressed
<1>4. /\ g \in Nat /\ n \in Nat /\ at[g + 1] \in Nat
      /\ g < n => /\ fields[g + 1] \in Field /\ at[g + 2] \in Nat
                  /\ Holds(Planned, fields[g + 1], at[g + 1], at[g + 2])
      /\ g >= n => /\ woff < at[g + 1] + 8
                   /\ \A i \in Nat : at[g + 1] <= i /\ i < woff => data[i] = 0
  BY <1>1, <1>3, NextField
<1>5. roff = at[g + 1] /\ roff \in Nat
  BY <1>3, <1>4 DEF Follows
<1>6. f \in Field /\ (g < n => f = fields[g + 1])
  BY <1>2, <1>4 DEF Expected
<1>7. /\ f.value \in Bits /\ Len(f.value) \in Nat /\ Len(f.value) > 0
      /\ f.op = "bit" => Len(f.value) = 1
  BY <1>6, ValueIs
<1>8. /\ woff \in Nat /\ woff <= MaxBits /\ MaxBits \in Nat /\ data \in [Memory -> BIT]
      /\ <<>> \in Bits
  BY <1>1, ReceivedIs DEF Bits
<1>9. g < n /\ f.op # "compressed" =>
        /\ roff + Len(f.value) <= woff /\ At(roff, Len(f.value)) = f.value
        /\ at[g + 2] = roff + Len(f.value)
  <2> SUFFICES ASSUME g < n, f.op # "compressed"
               PROVE  /\ roff + Len(f.value) <= woff /\ At(roff, Len(f.value)) = f.value
                      /\ at[g + 2] = roff + Len(f.value)
    OBVIOUS
  <2>1. Holds(Planned, f, roff, at[g + 2])
    BY <1>4, <1>5, <1>6
  <2>2. Has(Planned, roff, f.value) /\ at[g + 2] = roff + Len(f.value)
    BY <2>1 DEF Holds
  <2> QED BY <1>1, <1>5, <1>7, <2>2, AtHas
<1>10. ASSUME asked' = NotAsked, RightAnswer, g < n => roff' = at[g + 2]
       PROVE  Follows(at)' /\ ReadsBack' /\ AbsentIsNothing'
  <2>1. ReadsBack' /\ AbsentIsNothing' /\ Len(got') = g + 1
    BY <1>1, <1>3, <1>10, RightlyRead
  <2>2. g + 1 <= n => roff' = at[g + 1 + 1]
    BY <1>4, <1>10
  <2> HIDE DEF g, n
  <2>3. Follows(at)'
    BY <1>1, <1>10, <2>1, <2>2 DEF Follows, n
  <2> QED BY <2>1, <2>3
<1>11. CASE f.op = "bit" /\ ReadBit
  <2>1. /\ roff < MaxBits /\ roff' = roff + 1 /\ Answer(TRUE, At(roff, 1)) /\ asked' = NotAsked
    BY <1>3, <1>11 DEF ReadBit
  <2>2. /\ At(roff, 1) \in Bits /\ Len(At(roff, 1)) = 1
    <3>1. roff + 1 <= MaxBits
      BY <1>5, <1>8, <2>1
    <3> QED BY <1>5, <1>8, <3>1, AtType
  <2>3. g < n => At(roff, 1) = f.value /\ roff' = at[g + 2]
    BY <1>7, <1>9, <1>11, <2>1
  <2>4. g >= n => \/ \A j \in DOMAIN At(roff, 1) : At(roff, 1)[j] = 0
                  \/ Len(At(roff, 1)) = 1 /\ roff' > woff
    <3>1. CASE roff + 1 <= woff
      BY <1>1, <1>4, <1>5, <3>1, ZerosRead
    <3>2. CASE ~(roff + 1 <= woff)
      BY <1>5, <1>8, <2>1, <2>2, <3>2
    <3> QED BY <3>1, <3>2
  <2>5. RightAnswer
    <3>1. TRUE \in BOOLEAN
      OBVIOUS
    <3> DEFINE v == At(roff, 1)
    <3> HIDE DEF v
    <3>2. /\ Answer(TRUE, v) /\ v \in Bits
          /\ g < n => TRUE /\ v = fields[g + 1].value
          /\ g >= n /\ TRUE => \/ \A j \in DOMAIN v : v[j] = 0
                               \/ Len(v) = 1 /\ roff' > woff
      BY <1>6, <2>1, <2>2, <2>3, <2>4 DEF v
    <3> QED BY <3>1, <3>2 DEF RightAnswer
  <2> QED BY <1>10, <2>1, <2>3, <2>5
<1>12. CASE f.op = "bits" /\ ReadBits(Len(f.value))
  <2> DEFINE k == Len(f.value)
             v == At(roff, k)
  <2>1. CASE HasBits(k)
    <3>1. roff' = roff + k /\ Answer(TRUE, v) /\ asked' = NotAsked /\ roff + k <= woff
      BY <1>3, <1>12, <2>1 DEF ReadBits, HasBits
    <3>2. g < n => v = fields[g + 1].value /\ roff' = at[g + 2]
      BY <1>6, <1>9, <1>12, <3>1
    <3>3. g >= n => v \in Bits /\ \A j \in DOMAIN v : v[j] = 0
      BY <1>1, <1>4, <1>5, <1>7, <3>1, ZerosRead
    <3>4. v \in Bits
      BY <1>4, <1>6, <1>7, <3>2, <3>3
    <3>5. RightAnswer
      <4>1. TRUE \in BOOLEAN
        OBVIOUS
      <4> HIDE DEF v
      <4> QED BY <3>1, <3>2, <3>3, <3>4, <4>1 DEF RightAnswer
    <3> QED BY <1>10, <3>1, <3>2, <3>5
  <2>2. CASE ~HasBits(k)
    <3>1. Answer(FALSE, <<>>) /\ asked' = NotAsked
      BY <1>3, <1>12, <2>2 DEF ReadBits
    <3>2. ~(g < n)
      BY <1>7, <1>9, <1>12, <2>2 DEF HasBits
    <3>3. FALSE \in BOOLEAN
      OBVIOUS
    <3>4. RightAnswer
      BY <1>8, <3>1, <3>2, <3>3 DEF RightAnswer
    <3> QED BY <1>10, <3>1, <3>2, <3>4
  <2> QED BY <2>1, <2>2
<1>13. CASE f.op = "compressed" /\ ReadCompressed(Len(f.value))
  <2>1. /\ asked' = [bytes |-> Bytes(f.value), current |-> Bytes(f.value) - 1]
        /\ roff' = roff /\ got' = got
    BY <1>13 DEF ReadCompressed, Bytes
  <2>2. Bytes(f.value) \in Nat \ {0}
    BY <1>6, <1>13, ValueIs
  <2>3. asked'.bytes = Bytes(f.value) /\ asked'.current = Bytes(f.value) - 1
    BY <2>1
  <2>4. asked' # NotAsked
    <3>1. NotAsked.bytes = 0
      BY DEF NotAsked
    <3> QED BY <2>2, <2>3, <3>1
  <2>5. ReadsBack' /\ AbsentIsNothing'
    BY <1>1, <2>1 DEF ReadsBack, AbsentIsNothing
  <2>6. ASSUME g < n
        PROVE  /\ fields[g + 1].op = "compressed" /\ asked'.bytes = Bytes(fields[g + 1].value)
               /\ roff' = at[g + 1] + 8 * (asked'.bytes - 1 - asked'.current)
               /\ \A c \in Nat :
                    Packs(Planned, fields[g + 1].value, c, at[g + 1], at[g + 2])
                      => c <= asked'.current
    <3>1. f = fields[g + 1]
      BY <1>6, <2>6
    <3>2. \A c \in Nat : Packs(Planned, f.value, c, at[g + 1], at[g + 2]) => c <= Bytes(f.value) - 1
      BY <2>2 DEF Packs
    <3>3. roff' = at[g + 1] + 8 * (Bytes(f.value) - 1 - (Bytes(f.value) - 1))
      BY <1>4, <1>5, <2>1, <2>2
    <3> QED BY <1>13, <2>3, <3>1, <3>2, <3>3
  <2>7. ASSUME g >= n
        PROVE  g = n /\ roff' = at[g + 1]
    BY <1>3, <1>4, <1>5, <2>1, <2>7
  <2> HIDE DEF g, n
  <2>8. Follows(at)'
    BY <1>1, <2>1, <2>4, <2>6, <2>7 DEF Follows, g, n
  <2> QED BY <2>5, <2>8
<1> QED BY <1>2, <1>11, <1>12, <1>13


\* What the flag at bit t says of byte k of the value v, of which the bytes from c down are
\* packed up to bit e.
FlagSays(v, c, k, t, e) ==
  LET L == LastCalls(v, c)[2] IN
  /\ t \in Nat /\ t + 8 <= woff
  /\ k > c => IsSet(t)
  /\ k = c => /\ L \in Bits /\ At(t + 8, Len(L)) = L /\ t + 8 + Len(L) = e /\ e <= woff
              /\ c > 0 => ~IsSet(t) /\ Len(L) = 8 * (c + 1)
              /\ c = 0 => Len(L) = IF IsSet(t) THEN 4 ELSE 8

\* The flag at byte k of a packed value is there and says so.
LEMMA FlagThere ==
  ASSUME StreamConsistent, ~copy, NEW v \in Bits, 8 * Bytes(v) = Len(v), Bytes(v) \in Nat,
         NEW s \in Nat, NEW e \in Nat, NEW c \in Nat, Packs(Planned, v, c, s, e),
         NEW k \in c..Bytes(v) - 1, NEW t, t = s + 8 * (Bytes(v) - 1 - k)
  PROVE  FlagSays(v, c, k, t, e)
<1> DEFINE L == LastCalls(v, c)
<1>1. /\ c \in 0..Bytes(v) - 1 /\ Flags(Planned, v, c, s)
      /\ Has(Planned, s + 8 * (Bytes(v) - 1 - c), L[1])
      /\ Has(Planned, s + 8 * (Bytes(v) - 1 - c) + 8, L[2])
      /\ e = s + 8 * (Bytes(v) - 1 - c) + 8 + Len(L[2])
  BY DEF Packs
<1>2. t \in Nat /\ t + 8 \in Nat
  BY SMTT(30)
<1>3. CASE k > c
  <2>1. k \in c + 1..Bytes(v) - 1
    BY <1>3
  <2>2. Has(Planned, t, Flag(1))
    BY <1>1, <2>1 DEF Flags
  <2>3. t + 8 <= woff /\ IsSet(t)
    BY <1>2, <2>2, IsSetHas DEF BIT
  <2> QED BY <1>2, <1>3, <2>3 DEF FlagSays
<1>4. CASE k = c
  <2>1. 8 * c + 8 <= Len(v)
    BY <1>1
  <2>2. /\ L[1] \in {Flag(0), Flag(1)} /\ L[2] \in Bits /\ (c > 0 => L[1] = Flag(0))
        /\ Len(L[2]) = IF c = 0 /\ L[1] = Flag(1) THEN 4 ELSE 8 * c + 8
    BY <2>1, LastCallsAre
  <2>3. Has(Planned, t, L[1]) /\ Has(Planned, t + 8, L[2]) /\ e = t + 8 + Len(L[2])
    BY <1>1, <1>4
  <2>4. PICK b \in BIT : L[1] = Flag(b)
    BY <2>2 DEF BIT
  <2> HIDE DEF L
  <2>5. t + 8 <= woff /\ (IsSet(t) <=> b = 1)
    BY <1>2, <2>3, <2>4, IsSetHas
  <2>6. Flag(0) # Flag(1)
    <3>1. Flag(0)[8] = 0 /\ Flag(1)[8] = 1
      BY FlagIs DEF BIT
    <3> QED BY <3>1
  <2>7. IsSet(t) <=> L[1] = Flag(1)
    <3>1. b = 0 \/ b = 1
      BY DEF BIT
    <3> QED BY <2>4, <2>5, <2>6, <3>1
  <2>8. c > 0 => ~IsSet(t)
    BY <2>2, <2>6, <2>7
  <2>9. /\ t + 8 + Len(L[2]) <= woff /\ At(t + 8, Len(L[2])) = L[2]
    BY <1>2, <2>2, <2>3, AtHas
  <2>10. /\ c > 0 => Len(L[2]) = 8 * (c + 1)
         /\ c = 0 => Len(L[2]) = IF IsSet(t) THEN 4 ELSE 8
    <3>1. CASE c > 0
      <4>1. Len(L[2]) = 8 * c + 8
        BY SMTT(30), <2>2, <3>1
      <4>2. 8 * c + 8 = 8 * (c + 1) /\ ~(c = 0)
        BY <3>1
      <4> QED BY <4>1, <4>2
    <3>2. CASE c = 0
      <4>1. 8 * c + 8 = 8
        BY <3>2
      <4> QED BY <2>2, <2>7, <3>2, <4>1
    <3> QED BY <3>1, <3>2
  <2>11. /\ t \in Nat /\ t + 8 <= woff /\ ~(k > c) /\ L[2] \in Bits
         /\ At(t + 8, Len(L[2])) = L[2] /\ t + 8 + Len(L[2]) = e /\ e <= woff
    BY <1>2, <1>4, <2>2, <2>3, <2>5, <2>9
  <2> QED BY <2>8, <2>10, <2>11 DEF FlagSays, L
<1> QED BY <1>3, <1>4

\* The receiver that reads a flag goes on to the next one, or gives the right answer.
LEMMA ReadCompressedFlagReads ==
  ASSUME StreamConsistent, StreamConsistent', ReadCompressedFlag, ReadsBack, AbsentIsNothing,
         NEW at, Placed(at), Follows(at)
  PROVE  Follows(at)' /\ ReadsBack' /\ AbsentIsNothing'
<1> DEFINE g == Len(got)
           n == Len(fields)
<1>1. /\ ~copy /\ ~copy' /\ woff' = woff /\ fields' = fields /\ Planned' = Planned
  BY ReceiverPlaces
<1>2. asked # NotAsked
  BY DEF ReadCompressedFlag
<1>3. /\ g \in Nat /\ n \in Nat /\ g <= n
      /\ asked.bytes \in Nat /\ asked.current \in Nat /\ asked.current < asked.bytes
      /\ woff \in Nat /\ <<>> \in Bits
  <2>1. g \in Nat /\ n \in Nat
    BY LenProperties DEF StreamConsistent, TypeOK
  <2>2. g >= n => g = n
    BY <1>2 DEF Follows
  <2>3. /\ asked.bytes \in Nat /\ asked.current \in Nat /\ asked.current < asked.bytes
        /\ <<>> \in Bits
    BY <1>2 DEF StreamConsistent, TypeOK, Underway, Bits
  <2> QED BY <1>1, <2>1, <2>2, <2>3, ReceivedIs
<1>4. /\ at[g + 1] \in Nat
      /\ g < n => /\ fields[g + 1] \in Field /\ at[g + 2] \in Nat
                  /\ Holds(Planned, fields[g + 1], at[g + 1], at[g + 2])
      /\ g >= n => woff < at[g + 1] + 8
  BY <1>1, <1>3, NextField
<1>5. ASSUME asked' = NotAsked, RightAnswer, g < n => roff' = at[g + 2]
      PROVE  Follows(at)' /\ ReadsBack' /\ AbsentIsNothing'
  <2>1. ReadsBack' /\ AbsentIsNothing' /\ Len(got') = g + 1
    BY <1>1, <1>3, <1>5, RightlyRead
  <2>2. g + 1 <= n => roff' = at[g + 1 + 1]
    BY <1>3, <1>5
  <2> HIDE DEF g, n
  <2>3. Follows(at)'
    BY <1>1, <1>5, <2>1, <2>2 DEF Follows, n
  <2> QED BY <2>1, <2>3
<1>6. CASE g >= n
  <2>1. roff = at[g + 1]
    BY <1>2, <1>6 DEF Follows
  <2>2. ~HasBits(8)
    BY <1>3, <1>4, <1>6, <2>1 DEF HasBits
  <2>3. asked' = NotAsked /\ Answer(FALSE, <<>>)
    BY <2>2 DEF ReadCompressedFlag
  <2>4. ~(g < n) /\ FALSE \in BOOLEAN
    BY <1>3, <1>6
  <2>5. RightAnswer
    BY <1>3, <2>3, <2>4 DEF RightAnswer
  <2> QED BY <1>5, <2>3, <2>4, <2>5
<1>7. CASE g < n
  <2> DEFINE f == fields[g + 1]
             v == f.value
             B == Bytes(v)
             k == asked.current
  <2>1. /\ f.op = "compressed" /\ asked.bytes = B /\ roff = at[g + 1] + 8 * (B - 1 - k)
        /\ \A c \in Nat : Packs(Planned, v, c, at[g + 1], at[g + 2]) => c <= k
    BY <1>2, <1>7 DEF Follows
  <2>2. v \in Bits /\ B \in Nat \ {0} /\ 8 * B = Len(v)
    BY <1>4, <1>7, <2>1, ValueIs
  <2>3. PICK c \in Nat : Packs(Planned, v, c, at[g + 1], at[g + 2])
    BY <1>4, <1>7, <2>1 DEF Holds
  <2>4. c <= k /\ k \in c..B - 1
    BY <1>3, <2>1, <2>3
  <2> DEFINE L == LastCalls(v, c)
  <2>5. FlagSays(v, c, k, roff, at[g + 2])
    <3>1. B \in Nat /\ at[g + 1] \in Nat /\ at[g + 2] \in Nat
      BY <1>4, <1>7, <2>2
    <3> HIDE DEF v, k, g
    <3> QED BY <1>1, <2>1, <2>2, <2>3, <2>4, <3>1, FlagThere
  <2>6. HasBits(8)
    BY <2>5 DEF HasBits, FlagSays
  <2>7. CASE UpperZero
    <3>1. k > 0 /\ IsSet(roff)
      BY <2>7 DEF UpperZero
    <3>2. /\ asked' = [asked EXCEPT !.current = @ - 1] /\ roff' = roff + 8 /\ got' = got
      BY <2>6, <2>7 DEF ReadCompressedFlag
    <3>3. asked'.bytes = B /\ asked'.current = k - 1
      <4>1. asked \in [bytes : Nat, current : Nat]
        BY DEF StreamConsistent, TypeOK
      <4> QED BY <2>1, <3>2, <4>1
    <3>4. asked' # NotAsked
      <4>1. NotAsked.bytes = 0
        BY DEF NotAsked
      <4> QED BY <2>2, <3>3, <4>1
    <3>5. ASSUME NEW d \in Nat, Packs(Planned, v, d, at[g + 1], at[g + 2])
          PROVE  d <= k - 1
      <4>1. d <= k
        BY <2>1, <3>5
      <4>2. CASE d = k
        <5>1. k \in d..B - 1 /\ d > 0
          BY <2>4, <3>1, <4>2
        <5>2. B \in Nat /\ at[g + 1] \in Nat /\ at[g + 2] \in Nat
          BY <1>4, <1>7, <2>2
        <5>3. FlagSays(v, d, k, roff, at[g + 2])
          <6> HIDE DEF v, k, g
          <6> QED BY <1>1, <2>1, <2>2, <3>5, <5>1, <5>2, FlagThere
        <5> QED BY <3>1, <4>2, <5>1, <5>3 DEF FlagSays
      <4> QED BY <1>3, <4>1, <4>2
    <3>6. roff' = at[g + 1] + 8 * (B - 1 - (k - 1))
      <4>1. /\ roff' = roff + 8 /\ roff = at[g + 1] + 8 * (B - 1 - k)
            /\ k \in Nat /\ B \in Nat /\ at[g + 1] \in Nat
        BY <1>3, <1>4, <2>1, <2>2, <3>2
      <4> HIDE DEF B, k, g
      <4> QED BY <4>1
    <3>7. ReadsBack' /\ AbsentIsNothing'
      <4>1. ReadsBack'
        BY <1>1, <3>2 DEF ReadsBack
      <4>2. \A i \in 1..Len(got') : ~(i > Len(fields'))
        BY <1>1, <1>3, <3>2
      <4>3. AbsentIsNothing'
        BY <4>2 DEF AbsentIsNothing
      <4> QED BY <4>1, <4>3
    <3>8. Len(got') < Len(fields') /\ ~(Len(got') >= Len(fields'))
      BY <1>1, <1>3, <1>7, <3>2
    <3>9. /\ f.op = "compressed" /\ asked'.bytes = B
          /\ roff' = at[g + 1] + 8 * (asked'.bytes - 1 - asked'.current)
          /\ \A d \in Nat :
               Packs(Planned, v, d, at[g + 1], at[g + 2]) => d <= asked'.current
      BY <2>1, <3>3, <3>5, <3>6
    <3>10. Follows(at)'
      <4>1. fields'[Len(got') + 1] = f /\ Len(got') = g
        BY <1>1, <3>2
      <4> HIDE DEF g
      <4> QED BY <1>1, <3>4, <3>8, <3>9, <4>1 DEF Follows
    <3> QED BY <3>7, <3>10
  <2>8. CASE ~UpperZero
    <3>1. k = c
      <4>1. ~(k > c)
        BY <1>3, <2>5, <2>8 DEF UpperZero, FlagSays
      <4> QED BY <1>3, <2>4, <4>1
    <3> DEFINE m == Rest(IsSet(roff))
    <3>2. /\ m = Len(L[2]) /\ roff \in Nat /\ L[2] \in Bits
          /\ At(roff + 8, Len(L[2])) = L[2]
          /\ roff + 8 + Len(L[2]) = at[g + 2] /\ at[g + 2] <= woff
      <4>1. /\ L[2] \in Bits /\ At(roff + 8, Len(L[2])) = L[2] /\ roff \in Nat
            /\ roff + 8 + Len(L[2]) = at[g + 2] /\ at[g + 2] <= woff
            /\ c > 0 => ~IsSet(roff) /\ Len(L[2]) = 8 * (c + 1)
            /\ c = 0 => Len(L[2]) = IF IsSet(roff) THEN 4 ELSE 8
        BY <2>5, <3>1 DEF FlagSays
      <4>2. m = Len(L[2])
        <5>1. CASE c > 0
          BY <3>1, <4>1, <5>1 DEF Rest
        <5>2. CASE c = 0
          BY <3>1, <4>1, <5>2 DEF Rest
        <5> QED BY <5>1, <5>2
      <4> QED BY <4>1, <4>2
    <3>3. HasBits(8 + m)
      <4>1. m \in Nat /\ roff + 8 + m <= woff
        <5>1. Len(L[2]) \in Nat
          BY <3>2, LenProperties DEF Bits
        <5> QED BY <3>2, <5>1
      <4>2. 8 + m > 0 /\ roff + (8 + m) <= woff
        <5>1. m \in Nat /\ roff \in Nat /\ woff \in Nat /\ roff + 8 + m <= woff
          BY <1>3, <3>2, <4>1
        <5> HIDE DEF m
        <5> QED BY <5>1
      <4> QED BY <4>2 DEF HasBits
    <3> DEFINE w == LastBits(At(roff + 8, m)) \o Zeros(8 * (asked.bytes - asked.current - 1))
    <3>4. asked' = NotAsked /\ roff' = roff + 8 + m /\ Answer(TRUE, w)
      BY <2>6, <2>8, <3>3 DEF ReadCompressedFlag
    <3>5. roff' = at[g + 2]
      BY <3>2, <3>4
    <3>6. w = v
      <4>1. w = LastBits(L[2]) \o Zeros(8 * (B - c - 1))
        BY <2>1, <3>1, <3>2
      <4>2. c \in 0..B - 1 /\ \A j \in c + 1..B - 1 : ByteOf(v, j) = Zeros(8)
        BY <2>3 DEF Packs, Flags
      <4>3. LastBits(L[2]) \o Zeros(8 * (B - c - 1)) = v
        BY <2>2, <4>2, Unpacked
      <4> QED BY <4>1, <4>3
    <3>7. RightAnswer
      <4>1. /\ TRUE \in BOOLEAN /\ Answer(TRUE, v) /\ v \in Bits /\ v = fields[g + 1].value
            /\ ~(g >= n)
        <5>1. Answer(TRUE, w) /\ w = v
          BY <3>4, <3>6
        <5> HIDE DEF w
        <5>2. Answer(TRUE, v)
          BY <5>1
        <5>3. ~(g >= n) /\ v = fields[g + 1].value /\ TRUE \in BOOLEAN
          BY <1>3, <1>7
        <5> QED BY <2>2, <5>2, <5>3
      <4> HIDE DEF v
      <4> QED BY <4>1 DEF RightAnswer
    <3> QED BY <1>5, <3>4, <3>5, <3>7
  <2> QED BY <2>7, <2>8
<1> QED BY <1>3, <1>6, <1>7

\* In the beginning nothing is written and nothing read.
LEMMA InitReads ==
  ASSUME Init
  PROVE  ReadInvariant
<1>1. /\ copy = TRUE /\ todo = <<>> /\ calls = <<>> /\ packed = NotPacked /\ fields = <<>>
      /\ got = <<>> /\ asked = NotAsked /\ roff = 0 /\ woff = 0
      /\ Len(fields) = 0 /\ Len(got) = 0 /\ Len(calls) = 0
  BY DEF Init
<1>2. ReadsBack /\ AbsentIsNothing
  BY <1>1 DEF ReadsBack, AbsentIsNothing
<1>3. Len(Planned) = 0
  <2>1. Written(data, 0) = <<>> /\ Flat(<<>>) = <<>>
    BY DEF Written, Flat
  <2>2. Planned = <<>> \o (<<>> \o <<>>)
    BY <1>1, <2>1 DEF Planned
  <2> QED BY <2>2
<1> DEFINE at == [i \in 1..1 |-> 0]
<1>4. at \in [1..Len(fields) + 1 -> Nat] /\ at[1] = 0 /\ at[Len(fields) + 1] = 0
  BY <1>1
<1> HIDE DEF at
<1>5. FieldsAt(at) /\ NothingBehind(at) /\ FlagsAt(at)
  BY <1>1, <1>3, <1>4 DEF FieldsAt, NothingBehind, FlagsAt
<1>6. Follows(at)
  BY <1>1, <1>4 DEF Follows
<1> QED BY <1>1, <1>2, <1>4, <1>5, <1>6 DEF ReadInvariant, Placed

\* A step of the sender reads nothing.
LEMMA SenderFollows ==
  ASSUME NEW at, Follows(at), NEW bt, Placed(bt)', copy, UNCHANGED reader, ReadsBack
  PROVE  Follows(bt)' /\ ReadsBack' /\ AbsentIsNothing'
<1>1. /\ got = <<>> /\ asked = NotAsked /\ roff = 0
      /\ roff' = roff /\ asked' = asked /\ got' = got
  BY DEF Follows, reader
<1>2. Len(got') = 0 /\ asked' = NotAsked /\ roff' = 0 /\ bt[1] = 0
  BY <1>1 DEF Placed
<1>3. ReadsBack' /\ AbsentIsNothing'
  BY <1>2 DEF ReadsBack, AbsentIsNothing
<1>4. Follows(bt)'
  BY <1>1, <1>2 DEF Follows
<1> QED BY <1>3, <1>4

\* Every step keeps it so.
LEMMA ReadStep ==
  ASSUME StreamConsistent, StreamConsistent', ReadInvariant, [Next]_vars
  PROVE  ReadInvariant'
<1>1. PICK at : Placed(at) /\ Follows(at)
  BY DEF ReadInvariant
<1>2. Len(calls) <= 2 /\ ReadsBack /\ AbsentIsNothing
  BY DEF ReadInvariant
<1>3. ASSUME NEW f \in Field, WriteField(f)
      PROVE  ReadInvariant'
  <2>1. PICK bt : Placed(bt)'
    BY <1>1, <1>3, WriteFieldPlaces
  <2>2. Len(calls') <= 2 /\ copy /\ UNCHANGED reader
    BY <1>3, WriteFieldPlans DEF WriteField
  <2> QED BY <1>1, <1>2, <2>1, <2>2, SenderFollows DEF ReadInvariant
<1>4. CASE WriteCompressedRound
  <2>1. Len(calls') <= 2 /\ \E bt : Placed(bt)'
    BY <1>1, <1>2, <1>4, RoundPlaces
  <2>2. PICK bt : Placed(bt)'
    BY <2>1
  <2>3. copy /\ UNCHANGED reader
    BY <1>4 DEF WriteCompressedRound, StreamConsistent, Underway, Writing
  <2> QED BY <1>1, <1>2, <2>1, <2>2, <2>3, SenderFollows DEF ReadInvariant
<1>5. CASE BeginWriteBits \/ WriteBitsLoop
  <2>1. Planned' = Planned /\ Len(calls') <= 2
    BY <1>2, <1>5, BeginWriteBitsPlans, WriteBitsLoopPlans
  <2>2. /\ copy' = copy /\ packed' = packed /\ fields' = fields /\ UNCHANGED reader
    BY <1>5 DEF BeginWriteBits, WriteBitsLoop
  <2>3. copy
    BY <1>5, WriteBitsLoopStep DEF BeginWriteBits
  <2>4. Placed(at)'
    BY <1>1, <2>1, <2>2 DEF Placed, FieldsAt, NothingBehind, FlagsAt
  <2> QED BY <1>1, <1>2, <2>1, <2>2, <2>3, <2>4, SenderFollows DEF ReadInvariant
<1>6. CASE Send
  <2>1. Len(calls') <= 2 /\ Placed(at)'
    BY <1>1, <1>6, SendPlaces
  <2>2. copy /\ UNCHANGED reader
    BY <1>6 DEF Send
  <2> QED BY <1>1, <1>2, <2>1, <2>2, SenderFollows DEF ReadInvariant
<1>7. CASE ReadField \/ ReadCompressedFlag
  <2>1. calls' = calls /\ Placed(at)'
    BY <1>1, <1>7, ReceiverPlaces
  <2>2. Follows(at)' /\ ReadsBack' /\ AbsentIsNothing'
    BY <1>1, <1>2, <1>7, ReadFieldReads, ReadCompressedFlagReads
  <2> QED BY <1>2, <2>1, <2>2 DEF ReadInvariant
<1>8. CASE UNCHANGED vars
  <2>1. /\ data' = data /\ woff' = woff /\ roff' = roff /\ copy' = copy /\ todo' = todo
        /\ packed' = packed /\ calls' = calls /\ asked' = asked /\ fields' = fields /\ got' = got
    BY <1>8 DEF vars
  <2>2. Planned' = Planned
    BY <2>1 DEF Planned
  <2>3. Placed(at)' /\ Follows(at)'
    BY <1>1, <2>1, <2>2 DEF Placed, FieldsAt, NothingBehind, FlagsAt, Follows
  <2>4. ReadsBack' /\ AbsentIsNothing'
    BY <1>2, <2>1 DEF ReadsBack, AbsentIsNothing
  <2> QED BY <1>2, <2>1, <2>3, <2>4 DEF ReadInvariant
<1> QED BY <1>3, <1>4, <1>5, <1>6, <1>7, <1>8 DEF Next

\* Whatever fields are written, in whatever order and through however many rounds of the
\* loops, the receiver that reads them in that order gets the values written.
THEOREM AlwaysReadsBack == Spec => []ReadsBack
<1>1. StreamConsistent /\ StreamConsistent' /\ ReadInvariant /\ [Next]_vars => ReadInvariant'
  BY ReadStep
<1>2. ReadInvariant => ReadsBack
  BY DEF ReadInvariant
<1> QED BY InitReads, <1>1, <1>2, AlwaysConsistent, PTL DEF Spec

\* And a field that was not written is read as zeros, from the padding, or not at all,
\* unless it is a bit behind the last byte.
THEOREM AbsentIsAlwaysNothing == Spec => []AbsentIsNothing
<1>1. StreamConsistent /\ StreamConsistent' /\ ReadInvariant /\ [Next]_vars => ReadInvariant'
  BY ReadStep
<1>2. ReadInvariant => AbsentIsNothing
  BY DEF ReadInvariant
<1> QED BY InitReads, <1>1, <1>2, AlwaysConsistent, PTL DEF Spec

=============================================================================
