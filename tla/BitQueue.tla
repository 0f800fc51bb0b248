-------------------------------- MODULE BitQueue --------------------------------
(***************************************************************************)
(* What a bit stream promises: bits are put in at the end, once and for    *)
(* all, sealed with zeros up to a whole byte when they are sent, and taken *)
(* out from the front in the order they were put in.                       *)
(***************************************************************************)
EXTENDS Integers, Sequences

VARIABLES
  bits,    \* the bits put in
  sealed,  \* no more bits will come
  taken,   \* how many have been taken
  out      \* the bits taken last

vars == <<bits, sealed, taken, out>>

Init == bits = <<>> /\ sealed = FALSE /\ taken = 0 /\ out = <<>>

\* The bits so far stay at the front.
Extended ==
  /\ bits' \in Seq({0, 1})
  /\ Len(bits) <= Len(bits')
  /\ \A i \in 1..Len(bits) : bits'[i] = bits[i]

Put ==
  /\ ~sealed /\ Extended
  /\ UNCHANGED <<sealed, taken, out>>

Seal ==
  /\ ~sealed /\ sealed' = TRUE /\ Extended
  /\ Len(bits') % 8 = 0 /\ Len(bits') < Len(bits) + 8
  /\ \A i \in Len(bits) + 1..Len(bits') : bits'[i] = 0
  /\ UNCHANGED <<taken, out>>

Take ==
  /\ sealed /\ taken <= taken' /\ taken' <= Len(bits)
  /\ Len(out') = taken' - taken
  /\ \A i \in 1..Len(out') : out'[i] = bits[taken + i]
  /\ UNCHANGED <<bits, sealed>>

\* A bit more than there are is nobody's.
Overrun ==
  /\ sealed /\ Len(bits) < taken'
  /\ UNCHANGED <<bits, sealed>>

Next == Put \/ Seal \/ Take \/ Overrun

Spec == Init /\ [][Next]_vars
=============================================================================
