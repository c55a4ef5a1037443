----------------------------- MODULE Md5Context -----------------------------
(***************************************************************************)
(* MD5_CTX of lib/md5.c: how a message is collected into blocks of 64      *)
(* bytes.  MD5Transform is represented by what it is given: `fed' is all   *)
(* bytes it has compressed, in order.  A caller gives the bytes of Text in *)
(* portions of any size to MD5Update (wa_md5 gives them as one, MD5Final   *)
(* adds two of its own) and ends with MD5Final.                            *)
(***************************************************************************)
EXTENDS DigestInput

VARIABLES
  md5,       \* the context: count (lo, hi), buffer, and what was compressed
  given,     \* how many bytes of the text MD5Update was given
  digested   \* whether MD5Final was called

md5vars == <<md5, given, digested>>

MD5Init == [lo |-> 0, hi |-> 0, buffer |-> [i \in 1 .. 64 |-> Junk], fed |-> <<>>]

(* memcpy(&buffer[at], bytes, Len(bytes)) *)
PutAt(buffer, at, bytes) ==
  [i \in 1 .. 64 |-> IF i > at /\ i <= at + Len(bytes) THEN bytes[i - at] ELSE buffer[i]]

(* MD5Update's own counter of bits: two words and the carry between them.  *)
Counted(c, inputlen) ==
  LET bits == (8 * inputlen) % Word
      lo   == (c.lo + bits) % Word
      carry == IF lo < bits THEN 1 ELSE 0
  IN [c EXCEPT !.lo = lo, !.hi = (@ + carry + (8 * inputlen) \div Word) % Word]

(* (count[0] >> 3) & 0x3F *)
Index(c) == (c.lo \div 8) % 64

(* Fill the buffer up, compress it and then every whole block of the       *)
(* input, and keep the rest; or, if the buffer is not filled, keep all.    *)
Collect(c, input, fills) ==
  LET partlen == 64 - Index(c)
      i       == partlen + 64 * ((Len(input) - partlen) \div 64)
      counted == Counted(c, Len(input))
      filled  == PutAt(c.buffer, Index(c), SubSeq(input, 1, partlen))
  IN IF fills
     THEN [counted EXCEPT
            !.fed = @ \o filled \o SubSeq(input, partlen + 1, i),
            !.buffer = PutAt(filled, 0, SubSeq(input, i + 1, Len(input)))]
     ELSE [counted EXCEPT !.buffer = PutAt(@, Index(c), input)]

(* Mutation of MD5Update: input that just fills the buffer waits for more. *)
MD5UpdateLate(c, input) == Collect(c, input, Len(input) > 64 - Index(c))

MD5Update(c, input) == Collect(c, input, Len(input) >= 64 - Index(c))

(* MD5Encode of one word: the low byte first. *)
LittleEndian(w) ==
  <<w % 256, (w \div 256) % 256, (w \div 65536) % 256, (w \div 16777216) % 256>>

PADDING(n) == [i \in 1 .. n |-> IF i = 1 THEN 128 ELSE 0]

(* Mutation of PadLen: 56 bytes in the buffer count as room for the length. *)
PadLenShort(index) == IF index <= 56 THEN 56 - index ELSE 120 - index

PadLen(index) == IF index < 56 THEN 56 - index ELSE 120 - index

(* The length's bytes are those before the padding was counted.            *)
MD5Final(c) ==
  LET bits == LittleEndian(c.lo) \o LittleEndian(c.hi)
  IN MD5Update(MD5Update(c, PADDING(PadLen(Index(c)))), bits)

Md5Start == md5 = MD5Init /\ given = 0 /\ digested = FALSE

Update(n) ==
  /\ ~digested
  /\ md5' = MD5Update(md5, SubSeq(Text, given + 1, given + n))
  /\ given' = given + n
  /\ UNCHANGED digested

Final ==
  /\ ~digested
  /\ md5' = MD5Final(md5)
  /\ digested' = TRUE
  /\ UNCHANGED given

Md5Next == (\E n \in 0 .. Len(Text) - given : Update(n)) \/ Final

Md5Spec == Md5Start /\ [][Md5Next]_md5vars

-----------------------------------------------------------------------------
Md5Contexts ==
  [lo : 0 .. Word - 1, hi : 0 .. Word - 1, buffer : [1 .. 64 -> Cell], fed : Seq(Cell)]

Md5TypeOK ==
  md5 \in Md5Contexts /\ given \in 0 .. Len(Text) /\ digested \in BOOLEAN

(* Nothing of the message is lost, doubled or compressed before its block  *)
(* is whole: what MD5Transform was given is the message up to its last     *)
(* whole block, and the buffer's used part is the rest.  The index, read   *)
(* off a counter of bits that may have wrapped, is the length modulo 64.   *)
Md5Absorbed ==
  ~digested =>
    LET rest == given % 64
    IN /\ Index(md5) = rest
       /\ md5.fed = SubSeq(Text, 1, given - rest)
       /\ \A i \in 1 .. rest : md5.buffer[i] = Text[given - rest + i]

(* count[] in its two words. *)
Md5Length(n) ==
  LittleEndian((8 * n) % Word) \o LittleEndian(((8 * n) \div Word) % Word)

Md5Promise == INSTANCE MessageDigest WITH
  pos <- given, out <- IF digested THEN md5.fed ELSE <<>>,
  LengthBytes <- Md5Length

(* MD5 compresses exactly the padded message, for any cut into portions.   *)
Md5ImplementsDigest == Md5Promise!Spec
=============================================================================
