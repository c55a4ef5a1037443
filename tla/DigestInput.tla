---------------------------- MODULE DigestInput ----------------------------
(***************************************************************************)
(* What the contexts of MD5 and SHA1 in lib/md5.c have in common: the      *)
(* bytes they are given and the words they count them in.                  *)
(***************************************************************************)
EXTENDS Integers, Sequences

CONSTANTS
  Text,   \* the bytes that are there to be digested
  Word    \* one more than the largest unsigned int: 2^32

ASSUME DigestAssumption ==
  /\ Text \in Seq(0 .. 255)
  /\ Word \in Nat \ {0} /\ Word % 512 = 0

(* A byte of a context's block that nobody has written: the contexts lie   *)
(* on the stacks of wa_md5 and wa_sha1.                                    *)
Junk == 256
Cell == 0 .. Junk
=============================================================================
