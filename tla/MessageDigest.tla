--------------------------- MODULE MessageDigest ---------------------------
(***************************************************************************)
(* What the digests of lib/md5.c promise about a message, however it is    *)
(* cut into portions: the blocks that are compressed are the message, one  *)
(* bit, zeros up to the end of a block less eight bytes, and the message's *)
(* length in bits.  The compression itself is in module Compression.       *)
(***************************************************************************)
EXTENDS Integers, Sequences

CONSTANTS
  Text,           \* the bytes that a caller gives away, portion by portion
  LengthBytes(_)  \* the eight bytes that tell the length of n bytes

VARIABLES
  pos,   \* how many bytes of the text were given
  out    \* the bytes compressed for the digest, or <<>> while there is none

Zeros(n) == [i \in 1 .. n |-> 0]

(* The least number of zeros that lets the length end a block of 64.       *)
Padded(msg) ==
  msg \o <<128>> \o Zeros((55 - Len(msg)) % 64) \o LengthBytes(Len(msg))

Init == pos = 0 /\ out = <<>>

Give == \E n \in 1 .. Len(Text) - pos :
  out = <<>> /\ pos' = pos + n /\ UNCHANGED out

Finish ==
  out = <<>> /\ out' = Padded(SubSeq(Text, 1, pos)) /\ UNCHANGED pos

Next == Give \/ Finish

Spec == Init /\ [][Next]_<<pos, out>>
=============================================================================
