------------------------------ MODULE HexDigest ------------------------------
(***************************************************************************)
(* What wa_md5 and wa_sha1 of lib/md5.c write to the caller's dst: the     *)
(* digest's bytes, two digits each, one strcat after the other, and a zero *)
(* at a fixed place.  The digest itself is in the modules of the contexts. *)
(***************************************************************************)
EXTENDS Integers, FiniteSetsExt

(* The bytes of a digest, and where the last zero goes.                    *)
HashSize == [wa_md5 |-> 16, wa_sha1 |-> 20]
EndAt == [wa_md5 |-> 32, wa_sha1 |-> 41]

(* How many bytes walib.h asks a caller to have.                           *)
Room == [wa_md5 |-> 33, wa_sha1 |-> 41]

D == 1  \* stands for any digit

VARIABLES
  fn,    \* which of the two is called
  src,   \* whether it is given a text or NULL
  i,     \* how many bytes of the digest are written; -1 before the call
  dst    \* what was written where: 0 or a digit, D

vars == <<fn, src, i, dst>>

Written(at, values) ==
  [k \in DOMAIN dst \union {at + j - 1 : j \in DOMAIN values} |->
    IF k - at + 1 \in DOMAIN values THEN values[k - at + 1] ELSE dst[k]]

Enter ==
  /\ i = -1
  /\ dst' = Written(0, <<0>>)
  /\ i' = IF src = "NULL" THEN 21 ELSE 0
  /\ UNCHANGED <<fn, src>>

(* strcat: over the first zero, and a new one behind. *)
AppendByte ==
  /\ i \in 0 .. HashSize[fn] - 1
  /\ LET end == Min({k \in DOMAIN dst : dst[k] = 0})
     IN dst' = Written(end, <<D, D, 0>>)
  /\ i' = i + 1
  /\ UNCHANGED <<fn, src>>

Leave ==
  /\ i = HashSize[fn]
  /\ dst' = Written(EndAt[fn], <<0>>) /\ i' = 21
  /\ UNCHANGED <<fn, src>>

Init ==
  /\ fn \in DOMAIN HashSize /\ src \in {"text", "NULL"}
  /\ i = -1 /\ dst = [k \in {} |-> 0]

Next == Enter \/ AppendByte \/ Leave

Spec == Init /\ [][Next]_vars

(* Nothing is written beyond the bytes that walib.h asks for.              *)
DstInRoom == \A k \in DOMAIN dst : k < Room[fn]
=============================================================================
