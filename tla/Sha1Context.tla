---------------------------- MODULE Sha1Context ----------------------------
(***************************************************************************)
(* SHA1Context of lib/md5.c: the message is collected byte by byte, and    *)
(* SHA1ProcessMessageBlock is represented by what it is given, `fed'.  A   *)
(* caller gives the bytes of Text in portions to SHA1Input and calls       *)
(* SHA1Result, also again, or goes on with SHA1Input after it, which the   *)
(* context refuses (shaStateError).  wa_sha1 is one such caller.           *)
(***************************************************************************)
EXTENDS DigestInput

shaSuccess == 0
shaInputTooLong == 1   \* the value the code stores, not the enum's 2
shaStateError == 3

VARIABLES
  sha,   \* the context: Low, High, Index, Block, Computed, Corrupted, fed
  todo,  \* how many bytes of its portion SHA1Input has yet to take
  taken, \* how many bytes of the text were taken
  ret,   \* what the last call returned
  got    \* the bytes compressed for the digest SHA1Result last gave, or <<>>

sha1vars == <<sha, todo, taken, ret, got>>

SHA1Reset ==
  [Low |-> 0, High |-> 0, Index |-> 0, Block |-> [i \in 1 .. 64 |-> Junk],
   Computed |-> FALSE, Corrupted |-> 0, fed |-> <<>>]

SHA1ProcessMessageBlock(c) == [c EXCEPT !.fed = @ \o c.Block, !.Index = 0]

Put(c, byte) == [c EXCEPT !.Block[c.Index + 1] = byte, !.Index = @ + 1]

(* The counter of bits; both words wrapped to zero: the message is too long. *)
CountByte(c) ==
  LET low  == (c.Low + 8) % Word
      high == IF low = 0 THEN (c.High + 1) % Word ELSE c.High
  IN [c EXCEPT !.Low = low, !.High = high,
               !.Corrupted = IF low = 0 /\ high = 0 THEN shaInputTooLong ELSE @]

(* Mutation of TakeByte: a full block is compressed when the next byte comes. *)
TakeByteLate(c, byte) ==
  IF c.Index = 64 THEN CountByte(Put(SHA1ProcessMessageBlock(c), byte))
  ELSE CountByte(Put(c, byte))

(* The body of SHA1Input's loop. *)
TakeByte(c, byte) ==
  LET d == CountByte(Put(c, byte))
  IN IF d.Index = 64 THEN SHA1ProcessMessageBlock(d) ELSE d

(* `while (Message_Block_Index < n)' with zeros *)
ZerosUpTo(c, n) ==
  [c EXCEPT !.Block = [i \in 1 .. 64 |-> IF i > c.Index /\ i <= n THEN 0 ELSE @[i]],
            !.Index = n]

BigEndian(w) ==
  <<(w \div 16777216) % 256, (w \div 65536) % 256, (w \div 256) % 256, w % 256>>

LengthAtEnd(c) ==
  LET bytes == BigEndian(c.High) \o BigEndian(c.Low)
  IN [c EXCEPT !.Block = [i \in 1 .. 64 |-> IF i > 56 THEN bytes[i - 56] ELSE @[i]]]

(* The bit, zeros, and the length in this block, if no more than `room'    *)
(* bytes are in it, or else in the next one.                               *)
PadFrom(c, room) ==
  LET marked == Put(c, 128)
      padded == IF c.Index > room
                THEN ZerosUpTo(SHA1ProcessMessageBlock(ZerosUpTo(marked, 64)), 56)
                ELSE ZerosUpTo(marked, 56)
  IN SHA1ProcessMessageBlock(LengthAtEnd(padded))

(* Mutation of SHA1PadMessage: 56 bytes leave room for bit and length.     *)
SHA1PadMessageShort(c) == PadFrom(c, 56)

SHA1PadMessage(c) == PadFrom(c, 55)

Sha1Start ==
  sha = SHA1Reset /\ todo = 0 /\ taken = 0 /\ ret = shaSuccess /\ got = <<>>

(* Mutation of SHA1Input: a context whose digest was given takes more.     *)
SHA1InputAnyTime(n) ==
  /\ todo = 0
  /\ todo' = n /\ ret' = shaSuccess
  /\ UNCHANGED <<sha, taken, got>>

(* SHA1Input up to its loop. *)
SHA1Input(n) ==
  /\ todo = 0
  /\ LET c == IF sha.Computed THEN [sha EXCEPT !.Corrupted = shaStateError] ELSE sha
     IN /\ sha' = c
        /\ todo' = IF c.Corrupted = 0 THEN n ELSE 0
        /\ ret' = c.Corrupted
  /\ UNCHANGED <<taken, got>>

(* One turn of the loop, which ends early when the message is too long.    *)
InputByte ==
  /\ todo > 0
  /\ sha' = TakeByte(sha, Text[taken + 1])
  /\ taken' = taken + 1
  /\ todo' = IF sha'.Corrupted = 0 THEN todo - 1 ELSE 0
  /\ UNCHANGED <<ret, got>>

(* The digest is computed once; its block and length are cleared then.     *)
SHA1Result ==
  /\ todo = 0
  /\ ret' = sha.Corrupted
  /\ sha' = IF sha.Corrupted = 0 /\ ~sha.Computed
            THEN [SHA1PadMessage(sha) EXCEPT
                   !.Block = [i \in 1 .. 64 |-> 0], !.Low = 0, !.High = 0,
                   !.Computed = TRUE]
            ELSE sha
  /\ got' = IF sha.Corrupted = 0 THEN sha'.fed ELSE got
  /\ UNCHANGED <<todo, taken>>

Sha1Next ==
  \/ \E n \in 1 .. Len(Text) - taken : SHA1Input(n)
  \/ InputByte
  \/ SHA1Result

Sha1Spec == Sha1Start /\ [][Sha1Next]_sha1vars

-----------------------------------------------------------------------------
Sha1Contexts ==
  [Low : 0 .. Word - 1, High : 0 .. Word - 1, Index : 0 .. 64, Block : [1 .. 64 -> Cell],
   Computed : BOOLEAN, Corrupted : {0, shaInputTooLong, shaStateError}, fed : Seq(Cell)]

Sha1TypeOK ==
  /\ sha \in Sha1Contexts /\ sha.Index < 64
  /\ taken \in 0 .. Len(Text)
  /\ todo \in 0 .. Len(Text) - taken
  /\ ret \in {0, shaInputTooLong, shaStateError}

(* Until the digest is made, the compressed blocks and the used part of    *)
(* the block are the bytes taken so far.                                   *)
Sha1Absorbed ==
  ~sha.Computed =>
    LET rest == taken % 64
    IN /\ sha.Index = rest
       /\ sha.fed = SubSeq(Text, 1, taken - rest)
       /\ \A i \in 1 .. rest : sha.Block[i] = Text[taken - rest + i]

(* High before Low, the high byte of each first. *)
Sha1Length(n) ==
  BigEndian(((8 * n) \div Word) % Word) \o BigEndian((8 * n) % Word)

Sha1Promise == INSTANCE MessageDigest WITH
  pos <- taken, out <- got, LengthBytes <- Sha1Length

(* SHA1Result gives the digest of the padded message, once and for all:    *)
(* repeated calls give the same one, and input that comes later is refused *)
(* and never changes it.                                                   *)
Sha1ImplementsDigest == Sha1Promise!Spec
=============================================================================
