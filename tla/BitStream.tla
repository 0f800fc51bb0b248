------------------------------- MODULE BitStream -------------------------------
(***************************************************************************)
(* CBitStream, which every RPC is written to and read from: fields of any  *)
(* number of bits one after the other in a buffer that grows.              *)
(*                                                                         *)
(* One stream is followed from the constructor to its last read.  It is    *)
(* written, its bytes go to a peer, and the peer reads them in place, with *)
(* CBitStream(pData, uiLength, false).  Each round of the loops is a step. *)
(* The bits of a byte are numbered from its highest one on, so that bit i  *)
(* of the buffer is the mask 0x80 >> (i & 7) of byte i >> 3; in memory the *)
(* bytes of a value have the lowest first.  What nobody in src/ calls      *)
(* (Reset, PadWithZeroToByteLength, ...) is left out.                      *)
(***************************************************************************)
EXTENDS Integers, Sequences

CONSTANTS
  StackBytes,  \* BUFFER_STACK_ALLOCATION_SIZE
  MaxGrowth,   \* the 1048576 bits a buffer grows by at most
  Field,       \* bound: the fields a sender may write
  MaxFields,   \* bound: how many it writes
  MaxBits      \* bound: the bits of memory that are modelled

BIT == {0, 1}
Bits == Seq(BIT)

ASSUME BitStreamAssumption ==
  /\ StackBytes \in Nat \ {0} /\ MaxGrowth \in Nat
  /\ MaxFields \in Nat /\ MaxBits \in Nat /\ MaxBits % 8 = 0
  /\ Field \subseteq [op : {"bit", "bits", "compressed"}, value : Bits]
  /\ \A f \in Field : f.op = "bit" => Len(f.value) = 1
  \* a field of no bits is written and read as nothing: Write(String) leaves it out
  /\ \A f \in Field : Len(f.value) > 0 /\ (f.op = "compressed" => Len(f.value) % 8 = 0)

Memory == 0..MaxBits - 1

VARIABLES
  data,    \* what m_pData points to
  heap,    \* m_pData # m_stackData, as long as the stream is written
  size,    \* m_uiBufferSizeInBits
  woff,    \* m_uiWriteOffsetInBits
  roff,    \* m_uiReadOffsetInBits
  copy,    \* m_bCopyData: the stream is the sender's
  todo,    \* WriteBits: the bits its loop has still to write
  packed,  \* WriteCompressed: the value and its byte that is looked at next
  calls,   \* the calls of WriteBits to come
  asked,   \* ReadCompressed: the bytes of the value and the current one
  out,     \* the bits the last successful read gave
  fields,  \* history: the fields written
  got      \* history: what the receiver read

vars == <<data, heap, size, woff, roff, copy, todo, packed, calls, asked, out, fields, got>>
buffer == <<data, heap, size>>
writer == <<todo, packed, calls, fields>>
reader == <<roff, asked, out, got>>

NotPacked == [value |-> <<>>, current |-> 0]
NotAsked == [bytes |-> 0, current |-> 0]

\* A new stream; what the memory on the stack held before is in it.
Init ==
  /\ \E junk \in BIT : data = [i \in Memory |-> junk]
  /\ heap = FALSE /\ size = 8 * StackBytes
  /\ woff = 0 /\ roff = 0 /\ copy = TRUE
  /\ todo = <<>> /\ packed = NotPacked /\ calls = <<>> /\ asked = NotAsked /\ out = <<>>
  /\ fields = <<>> /\ got = <<>>

BitsToBytes(n) == (n + 7) \div 8
BytesUsed == BitsToBytes(woff)
Zeros(n) == [i \in 1..n |-> 0]

-----------------------------------------------------------------------------
(* The buffer *)

MoreBytes_OffByOne(n) == size \div 8 < (n + woff - 1) \div 8
MoreBytes(n) == (size - 1) \div 8 < (n + woff - 1) \div 8

Doubled(used) == IF used * 2 - used > MaxGrowth THEN used + MaxGrowth ELSE used * 2
NewSize(n) == IF MoreBytes(n) THEN Doubled(n + woff) ELSE n + woff

Larger(new, old) == IF new > old THEN new ELSE old

Moved(n) == MoreBytes(n) /\ (heap \/ BitsToBytes(NewSize(n)) > StackBytes)

\* The memory after AddBitsAndReallocate(n): what it held stays, the rest is new.
Added(n, junk) ==
  [i \in Memory |-> IF Moved(n) /\ i >= 8 * BitsToBytes(size) THEN junk ELSE data[i]]

\* What happens to the buffer before n > 0 bits are written to Added(n, junk).
AddBitsAndReallocate(n) ==
  /\ heap' = (heap \/ Moved(n))
  /\ size' = Larger(NewSize(n), size)

-----------------------------------------------------------------------------
(* Writing *)

BitOr(a, b) == IF a = 1 \/ b = 1 THEN 1 ELSE 0

\* memcpy, to a byte boundary.
Copied(d, s) == [i \in Memory |-> IF woff <= i /\ i < woff + Len(s) THEN s[i - woff + 1] ELSE d[i]]

\* A round of the loop of WriteBits with the bits s, at most a byte.  A whole
\* dataByte is moved to its place, with zeros behind s.
DataByte(s, i) == IF woff <= i /\ i < woff + Len(s) THEN s[i - woff + 1] ELSE 0
FirstHalf_Assigned(old, s, i) == DataByte(s, i)
FirstHalf(old, s, i) == IF woff % 8 = 0 THEN DataByte(s, i) ELSE BitOr(old, DataByte(s, i))
SecondHalf(s) == woff % 8 > 0 /\ 8 - (woff % 8) < Len(s)
ByteWritten(d, s) ==
  [i \in Memory |->
     CASE i \div 8 = woff \div 8                      -> FirstHalf(d[i], s, i)
       [] i \div 8 = woff \div 8 + 1 /\ SecondHalf(s) -> DataByte(s, i)
       [] OTHER                                       -> d[i]]

\* Write0 and Write1.
ZeroWritten(d) ==
  IF woff % 8 = 0 THEN [i \in Memory |-> IF i \div 8 = woff \div 8 THEN 0 ELSE d[i]] ELSE d
OneWritten(d) ==
  [i \in Memory |-> IF i = woff THEN 1
                    ELSE IF woff % 8 = 0 /\ i \div 8 = woff \div 8 THEN 0 ELSE d[i]]

WriteBit(b) ==
  /\ woff < MaxBits
  /\ AddBitsAndReallocate(1)
  /\ \E junk \in BIT :
       data' = IF b = 1 THEN OneWritten(Added(1, junk)) ELSE ZeroWritten(Added(1, junk))
  /\ woff' = woff + 1

\* The bits of byte i of a value, and of the bool that WriteCompressed writes.
ByteOf(v, i) == SubSeq(v, 8 * i + 1, 8 * i + 8)
Flag(b) == Zeros(7) \o <<b>>

Writing == packed # NotPacked \/ calls # <<>> \/ todo # <<>>

\* A field is written, or its call begins.
WriteField(f) ==
  /\ copy /\ ~Writing /\ Len(fields) < MaxFields
  /\ fields' = Append(fields, f)
  /\ UNCHANGED <<copy, todo>> /\ UNCHANGED reader
  /\ CASE f.op = "bit"  -> WriteBit(f.value[1]) /\ UNCHANGED <<packed, calls>>
       [] f.op = "bits" -> calls' = <<f.value>> /\ UNCHANGED <<woff, packed, buffer>>
       [] OTHER         ->
            /\ packed' = [value |-> f.value, current |-> Len(f.value) \div 8 - 1]
            /\ UNCHANGED <<woff, calls, buffer>>

\* A round of the loop of WriteCompressed, for unsigned values: a flag for each
\* upper byte that is zero, and a flag before what is left.
LastCalls(v, c) ==
  IF c > 0 THEN <<Flag(0), SubSeq(v, 1, 8 * c + 8)>>
  ELSE IF SubSeq(v, 1, 4) = Zeros(4) THEN <<Flag(1), SubSeq(v, 5, 8)>>
  ELSE <<Flag(0), SubSeq(v, 1, 8)>>
WriteCompressedRound ==
  /\ packed # NotPacked /\ calls = <<>> /\ todo = <<>>
  /\ UNCHANGED <<buffer, woff, copy, todo, fields>> /\ UNCHANGED reader
  /\ IF packed.current > 0 /\ ByteOf(packed.value, packed.current) = Zeros(8)
     THEN /\ packed' = [packed EXCEPT !.current = @ - 1]
          /\ calls' = <<Flag(1)>>
     ELSE packed' = NotPacked /\ calls' = LastCalls(packed.value, packed.current)

\* A call of WriteBits, or of Write with an array, up to its loop.
BeginWriteBits ==
  /\ copy /\ calls # <<>> /\ todo = <<>>
  /\ woff + Len(calls[1]) <= MaxBits
  /\ calls' = Tail(calls)
  /\ UNCHANGED <<copy, packed, fields>> /\ UNCHANGED reader
  /\ IF calls[1] = <<>> THEN UNCHANGED <<woff, todo, buffer>>
     ELSE /\ AddBitsAndReallocate(Len(calls[1]))
          /\ \E junk \in BIT :
               IF woff % 8 = 0 /\ Len(calls[1]) % 8 = 0
               THEN /\ data' = Copied(Added(Len(calls[1]), junk), calls[1])
                    /\ woff' = woff + Len(calls[1])
                    /\ UNCHANGED todo
               ELSE /\ data' = Added(Len(calls[1]), junk)
                    /\ todo' = calls[1]
                    /\ UNCHANGED woff

Chunk == IF Len(todo) >= 8 THEN 8 ELSE Len(todo)
WriteBitsLoop ==
  /\ todo # <<>>
  /\ data' = ByteWritten(data, SubSeq(todo, 1, Chunk))
  /\ woff' = woff + Chunk
  /\ todo' = SubSeq(todo, Chunk + 1, Len(todo))
  /\ UNCHANGED <<heap, size, copy, packed, calls, fields>> /\ UNCHANGED reader

\* The bytes used are sent; the receiver's stream is put around the packet.
Send ==
  /\ copy /\ ~Writing
  /\ copy' = FALSE
  /\ size' = 8 * BytesUsed /\ woff' = 8 * BytesUsed
  /\ \E junk \in BIT :
       data' = [i \in Memory |-> IF i < 8 * BytesUsed THEN data[i] ELSE junk]
  /\ UNCHANGED <<heap, writer, reader>>

-----------------------------------------------------------------------------
(* Reading *)

\* Handlers give up when a read fails.
Failed == got # <<>> /\ ~got[Len(got)].ok
Reading == ~copy /\ ~Failed
Answer(ok, v) == got' = Append(got, [ok |-> ok, value |-> v])

HasBits_HasOne(n) == n > 0 /\ roff + 1 <= woff
HasBits(n) == n > 0 /\ roff + n <= woff
At(from, n) == [i \in 1..n |-> data[from + i - 1]]

\* ReadBit, which looks at no offset.
ReadBit ==
  /\ Reading /\ asked = NotAsked
  /\ roff < MaxBits
  /\ roff' = roff + 1
  /\ out' = At(roff, 1)
  /\ Answer(TRUE, At(roff, 1))
  /\ UNCHANGED <<buffer, woff, copy, writer, asked>>

\* ReadBits of n bits, or Read of an array, as a field of its own.
ReadBits(n) ==
  /\ Reading /\ asked = NotAsked
  /\ IF HasBits(n) THEN roff' = roff + n /\ out' = At(roff, n) /\ Answer(TRUE, At(roff, n))
     ELSE UNCHANGED <<roff, out>> /\ Answer(FALSE, <<>>)
  /\ UNCHANGED <<buffer, woff, copy, writer, asked>>

ReadCompressed(n) ==
  /\ Reading /\ asked = NotAsked
  /\ asked' = [bytes |-> n \div 8, current |-> n \div 8 - 1]
  /\ UNCHANGED <<buffer, woff, copy, writer, roff, out, got>>

\* A flag is read, and what it tells to read.
IsSet(from) == \E i \in 0..7 : data[from + i] = 1
UpperZero == asked.current > 0 /\ IsSet(roff)
Rest(set) == IF asked.current > 0 THEN 8 * (asked.current + 1) ELSE IF set THEN 4 ELSE 8
LastBits_Lower(s) == s \o Zeros(8 - Len(s))
LastBits(s) == Zeros(IF Len(s) < 8 THEN 8 - Len(s) ELSE 0) \o s
ReadCompressedFlag ==
  /\ Reading /\ asked # NotAsked
  /\ UNCHANGED <<buffer, woff, copy, writer>>
  /\ CASE ~HasBits(8) ->
            asked' = NotAsked /\ UNCHANGED <<roff, out>> /\ Answer(FALSE, <<>>)
       [] HasBits(8) /\ UpperZero ->
            /\ asked' = [asked EXCEPT !.current = @ - 1]
            /\ roff' = roff + 8 /\ out' = At(roff, 8)
            /\ UNCHANGED got
       [] OTHER ->
            LET n == Rest(IsSet(roff))
            IN /\ asked' = NotAsked
               /\ IF HasBits(8 + n)
                  THEN /\ roff' = roff + 8 + n /\ out' = At(roff, 8 + n)
                       /\ Answer(TRUE, LastBits(At(roff + 8, n))
                                       \o Zeros(8 * (asked.bytes - asked.current - 1)))
                  ELSE roff' = roff + 8 /\ out' = At(roff, 8) /\ Answer(FALSE, <<>>)

\* A receiver reads what the sender wrote, and may go on to read one more field.
Expected == IF Len(got) < Len(fields) THEN {fields[Len(got) + 1]} ELSE Field
ReadField ==
  /\ Len(got) <= Len(fields)
  /\ \E f \in Expected :
       \/ f.op = "bit" /\ ReadBit
       \/ f.op = "bits" /\ ReadBits(Len(f.value))
       \/ f.op = "compressed" /\ ReadCompressed(Len(f.value))

Next ==
  \/ \E f \in Field : WriteField(f)
  \/ WriteCompressedRound \/ BeginWriteBits \/ WriteBitsLoop \/ Send
  \/ ReadField \/ ReadCompressedFlag

Spec == Init /\ [][Next]_vars

-----------------------------------------------------------------------------
(* Properties *)

TypeOK ==
  /\ data \in [Memory -> BIT] /\ heap \in BOOLEAN
  /\ size \in Nat /\ (copy => size >= 8 * StackBytes)
  /\ woff \in 0..MaxBits /\ roff \in 0..MaxBits
  /\ copy \in BOOLEAN /\ todo \in Bits /\ calls \in Seq(Bits)
  /\ packed \in [value : Bits, current : Nat]
  /\ asked \in [bytes : Nat, current : Nat] /\ out \in Bits
  /\ fields \in Seq(Field) /\ got \in Seq([ok : BOOLEAN, value : Bits])

\* Whatever was in the memory, the bits behind the last one written are zero up
\* to the end of its byte: the next write may or its bits into that byte.
PaddingIsZero ==
  \A i \in Memory : i >= woff /\ woff % 8 # 0 /\ i \div 8 = woff \div 8 => data[i] = 0

\* The writes under way stay inside the buffer, and the destructor frees the
\* memory if and only if it was allocated.
WritesInBounds ==
  copy => /\ woff + Len(todo) <= size
          /\ heap <=> size > 8 * StackBytes

\* What the padding and the bounds need: a stream that is read has whole bytes
\* and nothing under way, what the loop has still to write fits the memory, and
\* the bytes the compressed values are at are theirs.
Underway ==
  /\ ~copy => woff % 8 = 0 /\ ~Writing
  /\ woff + Len(todo) <= MaxBits
  /\ packed # NotPacked => 8 * packed.current + 8 <= Len(packed.value)
  /\ asked # NotAsked => asked.current < asked.bytes

\* The buffer, the padding and the writes and reads under way fit one another,
\* whatever the memory held and however often the buffer has grown.
StreamConsistent == TypeOK /\ PaddingIsZero /\ WritesInBounds /\ Underway

\* The receiver that reads the fields in order gets the values written.
ReadsBack ==
  \A i \in 1..Len(got) : i <= Len(fields) => got[i].ok /\ got[i].value = fields[i].value

\* A field that was not written is read as zeros, from the padding, or not at
\* all, unless it is a bit behind the last byte.
AbsentIsNothing ==
  \A i \in 1..Len(got) :
    i > Len(fields) /\ got[i].ok =>
      \/ \A j \in DOMAIN got[i].value : got[i].value[j] = 0
      \/ Len(got[i].value) = 1 /\ roff > woff

\* The bits that are next to be written are the next of the stream afterwards.
\* They are or-ed into a byte that may have been another's.
WritesItsBits ==
  [][WriteBitsLoop => \A j \in 1..Chunk : data'[woff + j - 1] = todo[j]]_vars

\* Through the loops, the growing buffer and the packet, the stream is a queue of bits.
Queue == INSTANCE BitQueue WITH
  bits <- At(0, woff), sealed <- ~copy, taken <- roff, out <- out
ImplementsQueue == Queue!Spec
=============================================================================
