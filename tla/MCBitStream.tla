----------------------------- MODULE MCBitStream -----------------------------
(* Bit streams with a handful of values of each kind of field. *)
EXTENDS BitStream

Byte(upper, lower) == <<0, 0, upper, upper, 0, lower, lower, lower>>
Low  == Byte(0, 1)
High == Byte(1, 1)
Zero == Byte(0, 0)

MCField ==
  [op : {"bit"}, value : {<<0>>, <<1>>}]
  \cup [op : {"bits"}, value : {<<1, 0, 1>>, High, High \o <<1, 1>>}]
  \cup [op : {"compressed"}, value : {Low, High, High \o Zero, Zero \o High}]
=============================================================================
