---------------------------- MODULE DigestProofs ----------------------------
(***************************************************************************)
(* The digest contexts of lib/md5.c hold their message, for any text, any  *)
(* cut into portions and any size of the counters that is a multiple of    *)
(* 512.                                                                    *)
(***************************************************************************)
EXTENDS Md5Context, Sha1Context, SequenceTheorems, TLAPS

(* Reducing a number modulo Word takes multiples of 512 away.              *)
LEMMA WordSteps ==
  ASSUME NEW a \in Nat
  PROVE  /\ a % Word \in 0 .. Word - 1
         /\ \E m \in Nat : a = (a % Word) + 512 * m
<1>1. Word \in Nat /\ Word > 0 /\ Word % 512 = 0
  BY DigestAssumption
<1> DEFINE K == Word \div 512
<1>2. K \in Nat /\ Word = 512 * K
  BY <1>1
<1> DEFINE q == a \div Word
<1>3. q \in Nat /\ a % Word \in 0 .. Word - 1 /\ a = Word * q + (a % Word)
  BY <1>1
<1>4. K * q \in Nat /\ Word * q = 512 * (K * q)
  BY <1>2, <1>3
<1> QED
  BY <1>3, <1>4

(* A counter of bits that lost multiples of 512 still tells the length     *)
(* modulo 64.                                                              *)
LEMMA IndexIsRest ==
  ASSUME NEW lo \in Nat, NEW n \in Nat, NEW m \in Nat, 8 * n = lo + 512 * m
  PROVE  (lo \div 8) % 64 = n % 64
<1>1. lo \div 8 = n - 64 * m
  OBVIOUS
<1> QED
  BY <1>1

-----------------------------------------------------------------------------
(* A block is a sequence of 64 bytes.                                      *)
LEMMA SeqOfBlock ==
  ASSUME NEW b \in [1 .. 64 -> Cell]
  PROVE  b \in Seq(Cell) /\ Len(b) = 64
<1>1. 64 \in Nat
  OBVIOUS
<1>2. b \in Seq(Cell)
  BY <1>1, SeqDef
<1> QED
  BY <1>2, LenProperties

(* SHA1: what the parts of one turn of the loop do to a context.           *)
LEMMA PutContext ==
  ASSUME NEW c \in Sha1Contexts, c.Index < 64, NEW byte \in Cell
  PROVE  /\ Put(c, byte) \in Sha1Contexts
         /\ Put(c, byte).Index = c.Index + 1
         /\ Put(c, byte).Computed = c.Computed
         /\ Put(c, byte).fed = c.fed
         /\ Put(c, byte).Block = [c.Block EXCEPT ![c.Index + 1] = byte]
<1> DEFINE b == [c.Block EXCEPT ![c.Index + 1] = byte]
           d == [c EXCEPT !.Block = b, !.Index = c.Index + 1]
<1>1. b \in [1 .. 64 -> Cell]
  BY DEF Sha1Contexts
<1>0. c.Index \in 0 .. 64
  BY DEF Sha1Contexts
<1>2. c.Index + 1 \in 0 .. 64
  BY <1>0
<1>3. Put(c, byte) = d
  BY DEF Put, Sha1Contexts
<1> HIDE DEF b
<1>4. d \in Sha1Contexts
  BY <1>1, <1>2 DEF Sha1Contexts
<1>5. d.Index = c.Index + 1 /\ d.Computed = c.Computed /\ d.fed = c.fed /\ d.Block = b
  BY DEF Sha1Contexts
<1> QED
  BY <1>3, <1>4, <1>5 DEF b

LEMMA CountContext ==
  ASSUME NEW c \in Sha1Contexts
  PROVE  /\ CountByte(c) \in Sha1Contexts
         /\ CountByte(c).Index = c.Index
         /\ CountByte(c).Computed = c.Computed
         /\ CountByte(c).fed = c.fed
         /\ CountByte(c).Block = c.Block
<1>1. Word \in Nat /\ Word > 0
  BY DigestAssumption
<1>0. c.Low \in 0 .. Word - 1 /\ c.High \in 0 .. Word - 1
  BY DEF Sha1Contexts
<1>2. c.Low + 8 \in Nat /\ c.High + 1 \in Nat
  BY <1>0, <1>1
<1>3. (c.Low + 8) % Word \in 0 .. Word - 1 /\ (c.High + 1) % Word \in 0 .. Word - 1
  BY <1>2, WordSteps
<1> QED
  BY <1>3 DEF CountByte, Sha1Contexts

(* A context stays one of its record type when its block is compressed.    *)
LEMMA FedContext ==
  ASSUME NEW W, NEW X, NEW B, NEW R, NEW F,
         NEW c \in [Low : W, High : W, Index : X, Block : B, Computed : BOOLEAN,
                    Corrupted : R, fed : F],
         NEW f \in F, NEW x \in X
  PROVE  [c EXCEPT !.fed = f, !.Index = x] \in
           [Low : W, High : W, Index : X, Block : B, Computed : BOOLEAN,
            Corrupted : R, fed : F]
OBVIOUS

LEMMA ProcessContext ==
  ASSUME NEW c \in Sha1Contexts
  PROVE  /\ SHA1ProcessMessageBlock(c) \in Sha1Contexts
         /\ SHA1ProcessMessageBlock(c).Index = 0
         /\ SHA1ProcessMessageBlock(c).Computed = c.Computed
         /\ SHA1ProcessMessageBlock(c).fed = c.fed \o c.Block
         /\ SHA1ProcessMessageBlock(c).Block = c.Block
<1>1. c.Block \in Seq(Cell) /\ c.fed \in Seq(Cell)
  BY SeqOfBlock DEF Sha1Contexts
<1> DEFINE f == c.fed \o c.Block
           d == [c EXCEPT !.fed = f, !.Index = 0]
<1>2. f \in Seq(Cell)
  BY <1>1
<1>3. SHA1ProcessMessageBlock(c) = d
  BY DEF SHA1ProcessMessageBlock, Sha1Contexts
<1> HIDE DEF f
<1>0. 0 \in 0 .. 64
  OBVIOUS
<1>4. d \in Sha1Contexts
  BY <1>0, <1>2, FedContext DEF Sha1Contexts
<1>5. d.Index = 0 /\ d.Computed = c.Computed /\ d.fed = f /\ d.Block = c.Block
  BY DEF Sha1Contexts
<1> QED
  BY <1>3, <1>4, <1>5 DEF f

(* The text is bytes.                                                      *)
LEMMA TextBytes ==
  /\ Text \in Seq(Cell) /\ Len(Text) \in Nat
  /\ \A i \in 1 .. Len(Text) : Text[i] \in Cell
<1>1. Len(Text) \in Nat /\ \A i \in 1 .. Len(Text) : Text[i] \in 0 .. 255
  BY DigestAssumption, LenProperties, ElementOfSeq
<1>2. 0 .. 255 \subseteq Cell
  BY DEF Cell, Junk
<1>3. Text \in [1 .. Len(Text) -> Cell]
  BY <1>1, <1>2, DigestAssumption, LenProperties
<1> QED
  BY <1>1, <1>2, <1>3, SeqDef

LEMMA BytesOf ==
  ASSUME NEW M \in Seq(Cell)
  PROVE  Len(M) \in Nat /\ \A i \in 1 .. Len(M) : M[i] \in Cell
BY LenProperties, ElementOfSeq

(* Positions of a piece of a sequence of l elements.                       *)
LEMMA PieceBounds ==
  ASSUME NEW l \in Nat, NEW n \in Nat, NEW k \in Nat, n + k <= l
  PROVE  /\ \A i \in n + 1 .. n + k : i \in 1 .. l
         /\ 1 \in 1 .. l + 1 /\ n \in 0 .. l /\ n + k \in n .. l
OBVIOUS

(* A piece of the text followed by a block that holds the next 64 bytes.   *)
LEMMA BlockAppended ==
  ASSUME NEW M \in Seq(Cell), NEW n \in Nat, n + 64 <= Len(M), NEW b \in [1 .. 64 -> Cell],
         \A i \in 1 .. 64 : b[i] = M[n + i]
  PROVE  SubSeq(M, 1, n) \o b = SubSeq(M, 1, n + 64)
<1> DEFINE t == SubSeq(M, n + 1, n + 64)
<1>1. /\ t \in Seq(Cell) /\ Len(t) = 64
      /\ \A i \in 1 .. 64 : t[i] = M[n + i]
  <2>1. \A i \in n + 1 .. n + 64 : M[i] \in Cell
    <3>0. Len(M) \in Nat
      BY BytesOf
    <3>1. \A i \in n + 1 .. n + 64 : i \in 1 .. Len(M)
      BY <3>0, PieceBounds
    <3> QED
      BY <3>1, BytesOf
  <2>2. /\ t \in Seq(Cell) /\ Len(t) = IF n + 1 <= n + 64 THEN (n + 64) - (n + 1) + 1 ELSE 0
        /\ \A i \in 1 .. (n + 64) - (n + 1) + 1 : t[i] = M[(n + 1) + i - 1]
    BY <2>1, SubSeqProperties
  <2> QED
    BY <2>2
<1> HIDE DEF t
<1>2. b \in Seq(Cell) /\ Len(b) = 64
  BY SeqOfBlock
<1>3. t = b
  <2>1. Len(t) = Len(b) /\ \A i \in 1 .. Len(t) : t[i] = b[i]
    BY <1>1, <1>2
  <2> QED
    BY <1>1, <1>2, <2>1, SeqEqual
<1>4. SubSeq(M, 1, n) \o t = SubSeq(M, 1, n + 64)
  <2>0. Len(M) \in Nat
    BY BytesOf
  <2>a. 1 \in 1 .. Len(M) + 1
    BY <2>0
  <2>b. n \in 0 .. Len(M)
    BY <2>0
  <2>1. 1 \in 1 .. Len(M) + 1 /\ n \in 0 .. Len(M)
    BY <2>a, <2>b
  <2>2. n \in (1 - 1) .. Len(M) /\ n + 64 \in n .. Len(M)
    BY <2>0, <2>1
  <2> QED
    BY <2>1, <2>2, BytesOf, ConcatAdjacentSubSeq DEF t
<1> QED
  BY <1>3, <1>4

(* `c' holds the first n bytes of the text.                                *)
Sha1Holds(c, n) ==
  /\ c.Index = n % 64
  /\ c.fed = SubSeq(Text, 1, n - (n % 64))
  /\ \A i \in 1 .. n % 64 : c.Block[i] = Text[n - (n % 64) + i]

(* One turn of SHA1Input's loop takes one byte.                            *)
LEMMA TakeByteAbsorbs ==
  ASSUME NEW c \in Sha1Contexts, NEW n \in Nat, n < Len(Text), Sha1Holds(c, n)
  PROVE  /\ TakeByte(c, Text[n + 1]) \in Sha1Contexts
         /\ TakeByte(c, Text[n + 1]).Computed = c.Computed
         /\ Sha1Holds(TakeByte(c, Text[n + 1]), n + 1)
<1> DEFINE r == n % 64
           byte == Text[n + 1]
           p == Put(c, byte)
           d == CountByte(p)
           e == TakeByte(c, byte)
<1>0. r \in 0 .. 63 /\ r <= n
  OBVIOUS
<1>1. r \in 0 .. 63 /\ c.Index = r /\ r <= n
  BY <1>0 DEF Sha1Holds
<1>2. byte \in Cell
  BY TextBytes
<1>3. /\ p \in Sha1Contexts /\ p.Index = r + 1 /\ p.Computed = c.Computed
      /\ p.fed = c.fed /\ p.Block = [c.Block EXCEPT ![r + 1] = byte]
  BY <1>1, <1>2, PutContext
<1>4. /\ d \in Sha1Contexts /\ d.Index = r + 1 /\ d.Computed = c.Computed
      /\ d.fed = c.fed /\ d.Block = [c.Block EXCEPT ![r + 1] = byte]
  <2> HIDE DEF p
  <2> QED
    BY <1>3, CountContext
<1>5. e = IF d.Index = 64 THEN SHA1ProcessMessageBlock(d) ELSE d
  BY DEF TakeByte
<1>6. \A i \in 1 .. r + 1 : d.Block[i] = Text[n - r + i]
  <2>1. \A i \in 1 .. r : c.Block[i] = Text[n - r + i]
    BY DEF Sha1Holds
  <2>2. c.Block \in [1 .. 64 -> Cell]
    BY DEF Sha1Contexts
  <2>3. n + 1 = n - r + (r + 1) /\ r + 1 \in 1 .. 64
    BY <1>1
  <2>4. d.Block[r + 1] = Text[n - r + (r + 1)]
    BY <1>4, <2>2, <2>3
  <2> HIDE DEF d, r
  <2>5. \A i \in 1 .. r : d.Block[i] = c.Block[i]
    <3>1. \A i \in 1 .. r : i \in 1 .. 64 /\ i # r + 1
      BY <1>1
    <3>2. \A i \in 1 .. 64 : i # r + 1 => d.Block[i] = c.Block[i]
      BY <1>4, <2>2
    <3> QED
      BY <3>1, <3>2
  <2>6. \A i \in 1 .. r + 1 : i \in 1 .. r \/ i = r + 1
    BY <1>1
  <2> QED
    BY <2>1, <2>4, <2>5, <2>6
<1> HIDE DEF d, e
<1>7. CASE r = 63
  <2>1. (n + 1) % 64 = 0 /\ n - r \in Nat /\ (n - r) + 64 = n + 1
    BY <1>1, <1>7
  <2>2. e = SHA1ProcessMessageBlock(d)
    BY <1>4, <1>5, <1>7
  <2>3. /\ e \in Sha1Contexts /\ e.Index = 0 /\ e.Computed = c.Computed
        /\ e.fed = c.fed \o d.Block
    BY <1>4, <2>2, ProcessContext
  <2>a. d.Block \in [1 .. 64 -> Cell]
    BY <1>4 DEF Sha1Contexts
  <2>b. r + 1 = 64
    BY <1>7
  <2>4. d.Block \in [1 .. 64 -> Cell] /\ \A i \in 1 .. 64 : d.Block[i] = Text[(n - r) + i]
    BY <2>a, <2>b, <1>6
  <2>5. SubSeq(Text, 1, n - r) \o d.Block = SubSeq(Text, 1, (n - r) + 64)
    <3>1. (n - r) + 64 <= Len(Text)
      BY <2>1, TextBytes
    <3> HIDE DEF r
    <3> QED
      BY <2>1, <2>4, <3>1, TextBytes, BlockAppended
  <2>6. e.fed = SubSeq(Text, 1, n + 1)
    BY <2>1, <2>3, <2>5 DEF Sha1Holds
  <2>7. (n + 1) - ((n + 1) % 64) = n + 1 /\ 1 .. (n + 1) % 64 = {}
    BY <2>1
  <2> QED
    BY <2>1, <2>3, <2>6, <2>7 DEF e, Sha1Holds
<1>8. CASE r # 63
  <2>1. (n + 1) % 64 = r + 1 /\ (n + 1) - ((n + 1) % 64) = n - r
    BY <1>1, <1>8
  <2>2. e = d
    BY <1>1, <1>4, <1>5, <1>8
  <2>3. e.fed = SubSeq(Text, 1, n - r)
    BY <2>2, <1>4 DEF Sha1Holds
  <2> QED
    BY <2>1, <2>2, <2>3, <1>4, <1>6 DEF e, Sha1Holds
<1> QED
  BY <1>7, <1>8

(* The inductive invariant: a digest is not made while bytes are taken.    *)
Sha1IInv ==
  Sha1TypeOK /\ (sha.Computed => todo = 0) /\ (~sha.Computed => Sha1Holds(sha, taken))

LEMMA Sha1StartOK ==
  Sha1Start => Sha1IInv
<1> SUFFICES ASSUME Sha1Start PROVE Sha1IInv
  OBVIOUS
<1> USE DEF Sha1Start
<1>1. Word \in Nat /\ Word > 0 /\ Len(Text) \in Nat
  BY DigestAssumption, TextBytes
<1>2. SHA1Reset \in Sha1Contexts
  <2>1. Junk \in Cell
    BY DEF Cell, Junk
  <2>2. [i \in 1 .. 64 |-> Junk] \in [1 .. 64 -> Cell]
    BY <2>1
  <2>3. 0 \in 0 .. Word - 1 /\ 0 \in 0 .. 64 /\ <<>> \in Seq(Cell)
    BY <1>1
  <2> QED
    BY <2>2, <2>3 DEF SHA1Reset, Sha1Contexts
<1>3. sha.Index = 0 /\ sha.Computed = FALSE /\ sha.fed = <<>> /\ taken = 0
  BY DEF SHA1Reset
<1>4. Sha1Holds(sha, taken)
  <2>1. taken % 64 = 0 /\ taken - (taken % 64) = 0
    BY <1>3
  <2>2. SubSeq(Text, 1, 0) = <<>>
    BY SubSeqEmpty
  <2> QED
    BY <1>3, <2>1, <2>2 DEF Sha1Holds
<1>5. Sha1TypeOK
  BY <1>1, <1>2, <1>3 DEF Sha1TypeOK, shaSuccess
<1> QED
  BY <1>3, <1>4, <1>5 DEF Sha1IInv

LEMMA InputStep ==
  ASSUME Sha1IInv, NEW n \in 1 .. Len(Text) - taken, SHA1Input(n)
  PROVE  Sha1IInv'
<1> USE DEF Sha1IInv
<1> DEFINE c == IF sha.Computed THEN [sha EXCEPT !.Corrupted = shaStateError] ELSE sha
<1>1. /\ sha' = c /\ taken' = taken /\ ret' = c.Corrupted
      /\ todo' = IF c.Corrupted = 0 THEN n ELSE 0
  BY DEF SHA1Input
<1>2. c \in Sha1Contexts /\ c.Index = sha.Index /\ c.Computed = sha.Computed
  BY DEF Sha1TypeOK, Sha1Contexts
<1>3. /\ sha.Computed => c.Corrupted = shaStateError
      /\ ~sha.Computed => c = sha
  BY DEF Sha1TypeOK, Sha1Contexts
<1>4. c.Corrupted \in {0, shaInputTooLong, shaStateError}
  BY <1>2 DEF Sha1Contexts
<1> HIDE DEF c
<1>5. todo' \in 0 .. Len(Text) - taken
  BY <1>1, TextBytes DEF Sha1TypeOK
<1>6. Sha1TypeOK'
  BY <1>1, <1>2, <1>4, <1>5 DEF Sha1TypeOK
<1>7. (sha.Computed => todo = 0)'
  BY <1>1, <1>2, <1>3 DEF shaStateError
<1> QED
  BY <1>1, <1>2, <1>3, <1>6, <1>7

LEMMA InputByteStep ==
  ASSUME Sha1IInv, InputByte
  PROVE  Sha1IInv'
<1> USE DEF Sha1IInv
<1>1. /\ todo > 0 /\ sha' = TakeByte(sha, Text[taken + 1]) /\ taken' = taken + 1
      /\ todo' = (IF sha'.Corrupted = 0 THEN todo - 1 ELSE 0) /\ ret' = ret
  BY DEF InputByte
<1>2. sha \in Sha1Contexts /\ taken \in Nat /\ ~sha.Computed /\ Sha1Holds(sha, taken)
  BY <1>1, TextBytes DEF Sha1TypeOK
<1>3. taken < Len(Text)
  BY <1>1, TextBytes DEF Sha1TypeOK
<1>4. sha' \in Sha1Contexts /\ ~sha'.Computed /\ Sha1Holds(sha', taken')
  BY <1>1, <1>2, <1>3, TakeByteAbsorbs
<1>5. sha'.Index < 64
  BY <1>1, <1>2, <1>4 DEF Sha1Holds
<1>6. taken' \in 0 .. Len(Text) /\ todo' \in 0 .. Len(Text) - taken'
  BY <1>1, <1>3, TextBytes DEF Sha1TypeOK
<1> QED
  BY <1>1, <1>4, <1>5, <1>6 DEF Sha1TypeOK

(* Padding leaves a context of its type, with nothing in its block.        *)
LEMMA FilledContext ==
  ASSUME NEW c \in Sha1Contexts, NEW b \in [1 .. 64 -> Cell], NEW x \in 0 .. 64
  PROVE  /\ [c EXCEPT !.Block = b] \in Sha1Contexts
         /\ [c EXCEPT !.Block = b, !.Index = x] \in Sha1Contexts
BY DEF Sha1Contexts

LEMMA ZerosContext ==
  ASSUME NEW c \in Sha1Contexts, NEW n \in 0 .. 64
  PROVE  ZerosUpTo(c, n) \in Sha1Contexts /\ ZerosUpTo(c, n).Index = n
<1> DEFINE b == [i \in 1 .. 64 |-> IF i > c.Index /\ i <= n THEN 0 ELSE c.Block[i]]
<1>1. 0 \in Cell /\ c.Block \in [1 .. 64 -> Cell]
  BY DEF Cell, Junk, Sha1Contexts
<1>2. b \in [1 .. 64 -> Cell]
  BY <1>1
<1>3. ZerosUpTo(c, n) = [c EXCEPT !.Block = b, !.Index = n]
  BY DEF ZerosUpTo, Sha1Contexts
<1> HIDE DEF b
<1>4. [c EXCEPT !.Block = b, !.Index = n].Index = n
  BY DEF Sha1Contexts
<1>5. [c EXCEPT !.Block = b, !.Index = n] \in Sha1Contexts
  BY <1>2, FilledContext
<1> QED
  BY <1>3, <1>4, <1>5

LEMMA LengthContext ==
  ASSUME NEW c \in Sha1Contexts
  PROVE  LengthAtEnd(c) \in Sha1Contexts
<1>1. c.High \in Nat /\ c.Low \in Nat
  BY DigestAssumption DEF Sha1Contexts
<1> DEFINE bytes == BigEndian(c.High) \o BigEndian(c.Low)
           b == [i \in 1 .. 64 |-> IF i > 56 THEN bytes[i - 56] ELSE c.Block[i]]
<1>2. \A w \in Nat : BigEndian(w) \in Seq(Cell) /\ Len(BigEndian(w)) = 4
  <2> TAKE w \in Nat
  <2>1. \A a \in Nat : a % 256 \in Cell
    BY DEF Cell, Junk
  <2>2. w \div 16777216 \in Nat /\ w \div 65536 \in Nat /\ w \div 256 \in Nat
    OBVIOUS
  <2> QED
    BY <2>1, <2>2 DEF BigEndian
<1>3. Len(bytes) = 8 /\ \A i \in 1 .. 8 : bytes[i] \in Cell
  <2> DEFINE hi == BigEndian(c.High)
             lo == BigEndian(c.Low)
  <2>1. hi \in Seq(Cell) /\ lo \in Seq(Cell) /\ Len(hi) = 4 /\ Len(lo) = 4
    BY <1>1, <1>2
  <2> HIDE DEF hi, lo
  <2>a. hi \o lo \in Seq(Cell) /\ Len(hi \o lo) = Len(hi) + Len(lo)
    BY <2>1, ConcatProperties
  <2>2. hi \o lo \in Seq(Cell) /\ Len(hi \o lo) = 8
    BY <2>1, <2>a
  <2>3. \A i \in 1 .. 8 : (hi \o lo)[i] \in Cell
    BY <2>2, ElementOfSeq
  <2> QED
    BY <2>2, <2>3 DEF hi, lo
<1> HIDE DEF bytes
<1>4. b \in [1 .. 64 -> Cell]
  <2>1. \A i \in 1 .. 64 : i > 56 => i - 56 \in 1 .. 8
    OBVIOUS
  <2> QED
    BY <1>3, <2>1 DEF Sha1Contexts
<1>5. LengthAtEnd(c) = [c EXCEPT !.Block = b]
  BY DEF LengthAtEnd, bytes, Sha1Contexts
<1> HIDE DEF b
<1>6. [c EXCEPT !.Block = b] \in Sha1Contexts
  <2>1. 0 \in 0 .. 64
    OBVIOUS
  <2> QED
    BY <1>4, <2>1, FilledContext
<1> QED
  BY <1>5, <1>6

LEMMA PadContext ==
  ASSUME NEW c \in Sha1Contexts, c.Index < 64
  PROVE  SHA1PadMessage(c) \in Sha1Contexts /\ SHA1PadMessage(c).Index = 0
<1> DEFINE marked == Put(c, 128)
           full == ZerosUpTo(marked, 64)
           padded == IF c.Index > 55
                     THEN ZerosUpTo(SHA1ProcessMessageBlock(full), 56)
                     ELSE ZerosUpTo(marked, 56)
<1>0. 128 \in Cell /\ 64 \in 0 .. 64 /\ 56 \in 0 .. 64
  BY DEF Cell, Junk
<1>1. marked \in Sha1Contexts
  BY <1>0, PutContext
<1> HIDE DEF marked
<1>2. full \in Sha1Contexts
  BY <1>1, ZerosContext
<1> HIDE DEF full
<1>3. padded \in Sha1Contexts
  <2>1. SHA1ProcessMessageBlock(full) \in Sha1Contexts
    BY <1>2, ProcessContext
  <2>2. /\ ZerosUpTo(SHA1ProcessMessageBlock(full), 56) \in Sha1Contexts
        /\ ZerosUpTo(marked, 56) \in Sha1Contexts
    BY <1>0, <1>1, <2>1, ZerosContext
  <2> QED
    BY <2>2
<1>4. SHA1PadMessage(c) = SHA1ProcessMessageBlock(LengthAtEnd(padded))
  BY DEF SHA1PadMessage, PadFrom, marked, full
<1> HIDE DEF padded
<1>5. LengthAtEnd(padded) \in Sha1Contexts
  BY <1>3, LengthContext
<1> QED
  BY <1>4, <1>5, ProcessContext

LEMMA ResultStep ==
  ASSUME Sha1IInv, SHA1Result
  PROVE  Sha1IInv'
<1> USE DEF Sha1IInv
<1> DEFINE p == SHA1PadMessage(sha)
           z == [i \in 1 .. 64 |-> 0]
<1>1. todo' = todo /\ taken' = taken /\ ret' = sha.Corrupted
  BY DEF SHA1Result
<1>2. sha \in Sha1Contexts /\ sha.Index < 64 /\ sha.Corrupted \in {0, shaInputTooLong, shaStateError}
  BY DEF Sha1TypeOK, Sha1Contexts
<1>3. CASE sha.Corrupted = 0 /\ ~sha.Computed
  <2>1. p \in Sha1Contexts /\ p.Index = 0
    BY <1>2, PadContext
  <2>2. sha' = [p EXCEPT !.Block = z, !.Low = 0, !.High = 0, !.Computed = TRUE] /\ todo = 0
    BY <1>3 DEF SHA1Result
  <2>3. z \in [1 .. 64 -> Cell] /\ 0 \in 0 .. Word - 1
    BY DigestAssumption DEF Cell, Junk
  <2> HIDE DEF p, z
  <2>4. sha' \in Sha1Contexts /\ sha'.Index = 0 /\ sha'.Computed
    BY <2>1, <2>2, <2>3 DEF Sha1Contexts
  <2> QED
    BY <1>1, <1>2, <2>2, <2>4 DEF Sha1TypeOK
<1>4. CASE ~(sha.Corrupted = 0 /\ ~sha.Computed)
  <2>1. sha' = sha
    BY <1>4 DEF SHA1Result
  <2> QED
    BY <1>1, <1>2, <2>1 DEF Sha1TypeOK
<1> QED
  BY <1>3, <1>4

LEMMA Sha1Inductive ==
  Sha1IInv /\ [Sha1Next]_sha1vars => Sha1IInv'
<1> SUFFICES ASSUME Sha1IInv, [Sha1Next]_sha1vars PROVE Sha1IInv'
  OBVIOUS
<1>1. ASSUME NEW n \in 1 .. Len(Text) - taken, SHA1Input(n) PROVE Sha1IInv'
  BY <1>1, InputStep
<1>2. CASE InputByte
  BY <1>2, InputByteStep
<1>3. CASE SHA1Result
  BY <1>3, ResultStep
<1>4. CASE UNCHANGED sha1vars
  BY <1>4 DEF sha1vars, Sha1IInv, Sha1TypeOK, Sha1Holds
<1> QED
  BY <1>1, <1>2, <1>3, <1>4 DEF Sha1Next

(* A SHA1 context stays of its type: no byte is written behind the block,  *)
(* whose index stays below 64 between the calls.                           *)
THEOREM Sha1TypeCorrect == Sha1Spec => []Sha1TypeOK
<1>1. Sha1IInv => Sha1TypeOK
  BY DEF Sha1IInv
<1> QED
  BY <1>1, Sha1StartOK, Sha1Inductive, PTL DEF Sha1Spec

(* However a message is cut into portions, SHA1's blocks and the used part *)
(* of its last one are the bytes it took.                                  *)
THEOREM Sha1AbsorbedAlways == Sha1Spec => []Sha1Absorbed
<1>1. Sha1IInv => Sha1Absorbed
  BY DEF Sha1IInv, Sha1Holds, Sha1Absorbed
<1> QED
  BY <1>1, Sha1StartOK, Sha1Inductive, PTL DEF Sha1Spec

(***************************************************************************)
(* MD5Update (md5.c:64) takes a portion whole: what the context holds      *)
(* after it, and what MD5Final leaves.                                     *)
(***************************************************************************)
(* A piece of the text, and a piece of that.                               *)
LEMMA PieceOfText ==
  ASSUME NEW M \in Seq(Cell), NEW n \in Nat, NEW k \in Nat, n + k <= Len(M)
  PROVE  /\ SubSeq(M, n + 1, n + k) \in Seq(Cell)
         /\ Len(SubSeq(M, n + 1, n + k)) = k
         /\ \A j \in 1 .. k : SubSeq(M, n + 1, n + k)[j] = M[n + j]
<1> DEFINE t == SubSeq(M, n + 1, n + k)
<1>0. Len(M) \in Nat
  BY BytesOf
<1>1. \A i \in n + 1 .. n + k : M[i] \in Cell
  <2>1. \A i \in n + 1 .. n + k : i \in 1 .. Len(M)
    BY <1>0, PieceBounds
  <2> QED
    BY <2>1, BytesOf
<1>2. /\ t \in Seq(Cell) /\ Len(t) = IF n + 1 <= n + k THEN (n + k) - (n + 1) + 1 ELSE 0
      /\ \A i \in 1 .. (n + k) - (n + 1) + 1 : t[i] = M[(n + 1) + i - 1]
  <2>1. n + 1 \in Int /\ n + k \in Int
    OBVIOUS
  <2> QED
    BY <1>1, <2>1, SubSeqProperties
<1>3. (n + k) - (n + 1) + 1 = k /\ (n + 1 <= n + k <=> k # 0)
  OBVIOUS
<1>4. \A i \in 1 .. k : (n + 1) + i - 1 = n + i
  OBVIOUS
<1> QED
  BY <1>2, <1>3, <1>4

LEMMA PieceOfPiece ==
  ASSUME NEW M \in Seq(Cell), NEW n \in Nat, NEW k \in Nat, n + k <= Len(M),
         NEW a \in Nat, NEW b \in Nat, a <= b, b <= k
  PROVE  SubSeq(SubSeq(M, n + 1, n + k), a + 1, b) = SubSeq(M, (n + a) + 1, n + b)
<1> DEFINE t == SubSeq(M, n + 1, n + k)
           u == SubSeq(t, a + 1, b)
           v == SubSeq(M, (n + a) + 1, (n + a) + (b - a))
<1>1. t \in Seq(Cell) /\ Len(t) = k /\ \A j \in 1 .. k : t[j] = M[n + j]
  BY PieceOfText
<1> HIDE DEF t
<1>2. u \in Seq(Cell) /\ Len(u) = b - a /\ \A j \in 1 .. b - a : u[j] = M[n + (a + j)]
  <2>1. \A i \in a + 1 .. b : i \in 1 .. k
    OBVIOUS
  <2>2. \A i \in a + 1 .. b : t[i] \in Cell
    BY <1>1, <2>1, ElementOfSeq
  <2>3. /\ u \in Seq(Cell) /\ Len(u) = IF a + 1 <= b THEN b - (a + 1) + 1 ELSE 0
        /\ \A i \in 1 .. b - (a + 1) + 1 : u[i] = t[(a + 1) + i - 1]
    BY <2>2, SubSeqProperties
  <2>4. b - (a + 1) + 1 = b - a /\ (a + 1 <= b <=> b - a # 0)
    OBVIOUS
  <2>5. \A i \in 1 .. b - a : (a + 1) + i - 1 = a + i /\ a + i \in 1 .. k
    OBVIOUS
  <2> QED
    BY <1>1, <2>3, <2>4, <2>5
<1>3. v \in Seq(Cell) /\ Len(v) = b - a /\ \A j \in 1 .. b - a : v[j] = M[(n + a) + j]
  <2>1. n + a \in Nat /\ b - a \in Nat /\ (n + a) + (b - a) <= Len(M)
    BY BytesOf
  <2> QED
    BY <2>1, PieceOfText
<1>4. u = v
  <2> HIDE DEF u, v
  <2>1. \A j \in 1 .. b - a : (n + a) + j = n + (a + j)
    OBVIOUS
  <2> QED
    BY <1>2, <1>3, <2>1, SeqEqual
<1>5. (n + a) + (b - a) = n + b
  OBVIOUS
<1> QED
  BY <1>4, <1>5 DEF t

(* The whole blocks of len bytes, after the first p.                       *)
LEMMA WholeBlocks ==
  ASSUME NEW p \in Nat, NEW len \in Nat, len >= p
  PROVE  p + 64 * ((len - p) \div 64) \in p .. len
OBVIOUS

(* What is copied into a block.                                            *)
LEMMA PutBlock ==
  ASSUME NEW buffer \in [1 .. 64 -> Cell], NEW at \in Nat, NEW bytes \in Seq(Cell)
  PROVE  /\ PutAt(buffer, at, bytes) \in [1 .. 64 -> Cell]
         /\ \A i \in 1 .. 64 : i <= at => PutAt(buffer, at, bytes)[i] = buffer[i]
         /\ \A i \in 1 .. 64 : i > at /\ i <= at + Len(bytes) =>
              PutAt(buffer, at, bytes)[i] = bytes[i - at]
<1>1. Len(bytes) \in Nat
  BY LenProperties
<1>2. \A i \in 1 .. 64 : i > at /\ i <= at + Len(bytes) => i - at \in 1 .. Len(bytes)
  BY <1>1
<1>3. \A i \in 1 .. Len(bytes) : bytes[i] \in Cell
  BY ElementOfSeq
<1> DEFINE b == [i \in 1 .. 64 |-> IF i > at /\ i <= at + Len(bytes) THEN bytes[i - at] ELSE buffer[i]]
<1>4. PutAt(buffer, at, bytes) = b
  BY DEF PutAt
<1>5. ASSUME NEW i \in 1 .. 64
      PROVE  /\ b[i] \in Cell
             /\ i <= at => b[i] = buffer[i]
             /\ i > at /\ i <= at + Len(bytes) => b[i] = bytes[i - at]
  <2>1. CASE i > at /\ i <= at + Len(bytes)
    <3>1. b[i] = bytes[i - at]
      BY <2>1
    <3>2. ~(i <= at)
      BY <2>1
    <3> QED
      BY <3>1, <3>2, <2>1, <1>2, <1>3
  <2>2. CASE ~(i > at /\ i <= at + Len(bytes))
    <3>1. b[i] = buffer[i]
      BY <2>2
    <3> QED
      BY <3>1, <2>2
  <2> QED
    BY <2>1, <2>2
<1>6. b \in [1 .. 64 -> Cell]
  BY <1>5
<1> QED
  BY <1>4, <1>5, <1>6

(* Two counts of bits that differ by whole blocks.                         *)
BlocksPast(more, less) == \E m \in Nat : more = less + 512 * m

(* Both words of the counter are words, and it counts eight bits a byte.   *)
LEMMA CountedContext ==
  ASSUME NEW c \in Md5Contexts, NEW k \in Nat
  PROVE  /\ Counted(c, k) \in Md5Contexts
         /\ Counted(c, k).fed = c.fed /\ Counted(c, k).buffer = c.buffer
         /\ BlocksPast(c.lo + 8 * k, Counted(c, k).lo)
<1> DEFINE bits == (8 * k) % Word
           lo == (c.lo + bits) % Word
           carry == IF lo < bits THEN 1 ELSE 0
           high == c.hi + carry + (8 * k) \div Word
           hi == high % Word
<1>0. Word \in Nat /\ Word > 0
  BY DigestAssumption
<1>1. c.lo \in 0 .. Word - 1 /\ c.hi \in 0 .. Word - 1
  BY DEF Md5Contexts
<1>2. c.lo \in Nat /\ c.hi \in Nat /\ 8 * k \in Nat
  BY <1>0, <1>1
<1>3. bits \in 0 .. Word - 1 /\ \E m \in Nat : 8 * k = bits + 512 * m
  BY <1>2, WordSteps
<1>4. PICK m1 \in Nat : 8 * k = bits + 512 * m1
  BY <1>3
<1>5. bits \in Nat
  BY <1>0, <1>3
<1> HIDE DEF bits
<1>6. c.lo + bits \in Nat
  BY <1>2, <1>5
<1>7. lo \in 0 .. Word - 1 /\ \E m \in Nat : c.lo + bits = lo + 512 * m
  BY <1>6, WordSteps
<1>8. PICK m2 \in Nat : c.lo + bits = lo + 512 * m2
  BY <1>7
<1>9. high \in Nat
  <2>1. (8 * k) \div Word \in Nat
    BY <1>0, <1>2
  <2> QED
    BY <1>2, <2>1
<1>10. hi \in 0 .. Word - 1
  BY <1>9, WordSteps
<1>11. Counted(c, k) = [c EXCEPT !.lo = lo, !.hi = hi]
  BY DEF Counted, bits, Md5Contexts
<1>12. lo \in Nat
  BY <1>0, <1>7
<1> HIDE DEF lo, hi, high, carry
<1>13. Counted(c, k) \in Md5Contexts
  BY <1>7, <1>10, <1>11 DEF Md5Contexts
<1>14. /\ Counted(c, k).fed = c.fed /\ Counted(c, k).buffer = c.buffer
       /\ Counted(c, k).lo = lo
  BY <1>11 DEF Md5Contexts
<1>15. c.lo + 8 * k = lo + 512 * (m1 + m2) /\ m1 + m2 \in Nat
  BY <1>2, <1>4, <1>5, <1>8, <1>12
<1>16. BlocksPast(c.lo + 8 * k, lo)
  BY <1>15 DEF BlocksPast
<1> QED
  BY <1>13, <1>14, <1>16

(* MD5Update keeps a context of its type, whatever it is given.            *)
LEMMA CollectContext ==
  ASSUME NEW c \in Md5Contexts, NEW input \in Seq(Cell)
  PROVE  MD5Update(c, input) \in Md5Contexts
<1> DEFINE at == Index(c)
           len == Len(input)
           partlen == 64 - at
           i == partlen + 64 * ((len - partlen) \div 64)
           counted == Counted(c, len)
           filled == PutAt(c.buffer, at, SubSeq(input, 1, partlen))
           fed == c.fed \o filled \o SubSeq(input, partlen + 1, i)
           rest == PutAt(filled, 0, SubSeq(input, i + 1, len))
           kept == PutAt(c.buffer, at, input)
<1>1. len \in Nat /\ c.lo \in Nat
  BY DigestAssumption, LenProperties DEF Md5Contexts
<1>2. at \in 0 .. 63 /\ at \in Nat
  <2>1. c.lo \div 8 \in Nat
    BY <1>1
  <2>2. \A x \in Nat : x % 64 \in 0 .. 63 /\ x % 64 \in Nat
    OBVIOUS
  <2> QED
    BY <2>1, <2>2 DEF Index
<1>3. /\ counted \in Md5Contexts /\ counted.fed = c.fed /\ counted.buffer = c.buffer
  BY <1>1, CountedContext
<1>4. c.buffer \in [1 .. 64 -> Cell] /\ c.fed \in Seq(Cell)
  BY DEF Md5Contexts
<1>5. MD5Update(c, input) =
        IF len >= partlen THEN [counted EXCEPT !.fed = fed, !.buffer = rest]
        ELSE [counted EXCEPT !.buffer = kept]
  BY <1>3 DEF MD5Update, Collect, Md5Contexts
<1>6. \A j \in 1 .. len : input[j] \in Cell
  BY ElementOfSeq
<1>7. CASE len >= partlen
  <2>0. partlen \in Nat /\ partlen \in 1 .. len
    <3> HIDE DEF at, len
    <3> QED
      BY <1>1, <1>2, <1>7
  <2>1. partlen \in 1 .. len /\ i \in partlen .. len
    <3> HIDE DEF partlen, len
    <3> QED
      BY <1>1, <1>7, <2>0, WholeBlocks
  <2> HIDE DEF i, partlen, at
  <2>2. /\ SubSeq(input, 1, partlen) \in Seq(Cell)
        /\ SubSeq(input, partlen + 1, i) \in Seq(Cell)
        /\ SubSeq(input, i + 1, len) \in Seq(Cell)
    <3>1. /\ \A j \in 1 .. partlen : j \in 1 .. len
          /\ \A j \in partlen + 1 .. i : j \in 1 .. len
          /\ \A j \in i + 1 .. len : j \in 1 .. len
      BY <2>1, <1>1
    <3> HIDE DEF len
    <3>2. partlen \in Int /\ i \in Int /\ len \in Int /\ partlen + 1 \in Int /\ i + 1 \in Int
      BY <2>1, <1>1
    <3>3. SubSeq(input, 1, partlen) \in Seq(Cell)
      BY <1>6, <3>1, <3>2, SubSeqProperties
    <3>4. SubSeq(input, partlen + 1, i) \in Seq(Cell)
      BY <1>6, <3>1, <3>2, SubSeqProperties
    <3>5. SubSeq(input, i + 1, len) \in Seq(Cell)
      BY <1>6, <3>1, <3>2, SubSeqProperties
    <3> QED
      BY <3>3, <3>4, <3>5
  <2>3. filled \in [1 .. 64 -> Cell]
    BY <1>2, <1>4, <2>2, PutBlock
  <2> HIDE DEF filled
  <2>4. rest \in [1 .. 64 -> Cell] /\ filled \in Seq(Cell)
    BY <2>2, <2>3, PutBlock, SeqOfBlock
  <2>5. fed \in Seq(Cell)
    BY <1>4, <2>2, <2>4, ConcatProperties
  <2> HIDE DEF fed, rest, counted
  <2>6. [counted EXCEPT !.fed = fed, !.buffer = rest] \in Md5Contexts
    BY <1>3, <2>4, <2>5 DEF Md5Contexts
  <2> QED
    BY <1>5, <1>7, <2>6 DEF partlen, at
<1>8. CASE ~(len >= partlen)
  <2>1. kept \in [1 .. 64 -> Cell]
    BY <1>2, <1>4, PutBlock
  <2> HIDE DEF kept, counted
  <2>2. [counted EXCEPT !.buffer = kept] \in Md5Contexts
    BY <1>3, <2>1 DEF Md5Contexts
  <2> QED
    BY <1>5, <1>8, <2>2
<1> QED
  BY <1>7, <1>8

(* `c' holds the first n bytes of the message M.                           *)
Md5Holds(M, c, n) ==
  /\ \E m \in Nat : 8 * n = c.lo + 512 * m
  /\ c.fed = SubSeq(M, 1, n - (n % 64))
  /\ \A i \in 1 .. n % 64 : c.buffer[i] = M[n - (n % 64) + i]

(* One call of MD5Update takes a portion of any size.                      *)
LEMMA CollectAbsorbs ==
  ASSUME NEW M \in Seq(Cell), NEW c \in Md5Contexts, NEW n \in Nat, NEW k \in Nat, n + k <= Len(M),
         Md5Holds(M, c, n)
  PROVE  Md5Holds(M, MD5Update(c, SubSeq(M, n + 1, n + k)), n + k)
<1> DEFINE input == SubSeq(M, n + 1, n + k)
           r == n % 64
           partlen == 64 - r
           i == partlen + 64 * ((k - partlen) \div 64)
           counted == Counted(c, k)
           filled == PutAt(c.buffer, r, SubSeq(input, 1, partlen))
           fed == c.fed \o filled \o SubSeq(input, partlen + 1, i)
           rest == PutAt(filled, 0, SubSeq(input, i + 1, k))
           kept == PutAt(c.buffer, r, input)
           d == MD5Update(c, input)
<1>1. /\ input \in Seq(Cell) /\ Len(input) = k
      /\ \A j \in 1 .. k : input[j] = M[n + j]
  BY PieceOfText
<1>2. /\ counted \in Md5Contexts /\ counted.fed = c.fed /\ counted.buffer = c.buffer
      /\ BlocksPast(c.lo + 8 * k, counted.lo)
  <2>1. counted \in Md5Contexts /\ counted.fed = c.fed /\ counted.buffer = c.buffer
    BY CountedContext
  <2>2. BlocksPast(c.lo + 8 * k, counted.lo)
    BY CountedContext
  <2> QED
    BY <2>1, <2>2
<1>3. c.lo \in Nat /\ counted.lo \in Nat
  BY <1>2, DigestAssumption DEF Md5Contexts
<1>4. Index(c) = r
  BY <1>3, IndexIsRest DEF Md5Holds, Index
<1>5. r \in 0 .. 63 /\ r <= n /\ partlen \in 1 .. 64
  OBVIOUS
<1>6. \E m \in Nat : 8 * (n + k) = counted.lo + 512 * m
  <2>1. PICK m1 \in Nat : 8 * n = c.lo + 512 * m1
    BY DEF Md5Holds
  <2>2. PICK m2 \in Nat : c.lo + 8 * k = counted.lo + 512 * m2
    BY <1>2 DEF BlocksPast
  <2> HIDE DEF counted
  <2>3. 8 * (n + k) = counted.lo + 512 * (m1 + m2) /\ m1 + m2 \in Nat
    BY <1>3, <2>1, <2>2
  <2> QED
    BY <2>3
<1>7. c.buffer \in [1 .. 64 -> Cell] /\ c.fed \in Seq(Cell)
  BY DEF Md5Contexts
<1>8. d = IF k >= partlen THEN [counted EXCEPT !.fed = fed, !.buffer = rest]
          ELSE [counted EXCEPT !.buffer = kept]
  <2> HIDE DEF input, r
  <2> QED
    BY <1>1, <1>2, <1>4 DEF MD5Update, Collect, Md5Contexts
<1>9. /\ c.fed = SubSeq(M, 1, n - r)
      /\ \A j \in 1 .. r : c.buffer[j] = M[n - r + j]
  BY DEF Md5Holds
<1> HIDE DEF counted, d
<1>10. CASE k >= partlen
  <2>1. /\ i \in partlen .. k /\ partlen \in 0 .. k /\ i \in Nat /\ partlen \in Nat
        /\ (n + k) % 64 = k - i /\ (n + k) - (k - i) = n + i /\ k - i \in 0 .. 63
    BY <1>5, <1>10
  <2>a. n + partlen = (n - r) + 64 /\ n - r \in Nat
    BY <1>5
  <2> HIDE DEF i, r, partlen
  <2>2. d = [counted EXCEPT !.fed = fed, !.buffer = rest]
    BY <1>8, <1>10
  <2>3. d.lo = counted.lo /\ d.fed = fed /\ d.buffer = rest
    BY <1>2, <2>2 DEF Md5Contexts
  <2>4. /\ SubSeq(input, 1, partlen) \in Seq(Cell) /\ Len(SubSeq(input, 1, partlen)) = partlen
        /\ \A j \in 1 .. partlen : SubSeq(input, 1, partlen)[j] = M[n + j]
    <3>1. n + partlen <= Len(M) /\ 0 <= partlen /\ partlen <= k /\ 0 \in Nat
      BY <2>1, BytesOf
    <3>2. SubSeq(input, 0 + 1, partlen) = SubSeq(M, (n + 0) + 1, n + partlen)
      BY <2>1, <3>1, PieceOfPiece
    <3>3. 0 + 1 = 1 /\ n + 0 = n
      OBVIOUS
    <3>4. SubSeq(input, 1, partlen) = SubSeq(M, n + 1, n + partlen)
      BY <3>2, <3>3
    <3> HIDE DEF input
    <3>5. /\ SubSeq(M, n + 1, n + partlen) \in Seq(Cell)
          /\ Len(SubSeq(M, n + 1, n + partlen)) = partlen
          /\ \A j \in 1 .. partlen : SubSeq(M, n + 1, n + partlen)[j] = M[n + j]
      BY <2>1, <3>1, PieceOfText
    <3> QED
      BY <3>4, <3>5
  <2>5. filled \in [1 .. 64 -> Cell] /\ \A j \in 1 .. 64 : filled[j] = M[(n - r) + j]
    <3> DEFINE first == SubSeq(input, 1, partlen)
    <3>0. first \in Seq(Cell) /\ Len(first) = partlen /\ \A j \in 1 .. partlen : first[j] = M[n + j]
      BY <2>4
    <3> HIDE DEF first
    <3>1. r \in Nat /\ r + partlen = 64
      BY <1>5 DEF partlen
    <3>a. filled = PutAt(c.buffer, r, first)
      BY DEF first
    <3>b. /\ PutAt(c.buffer, r, first) \in [1 .. 64 -> Cell]
          /\ \A j \in 1 .. 64 : j <= r => PutAt(c.buffer, r, first)[j] = c.buffer[j]
          /\ \A j \in 1 .. 64 : j > r /\ j <= r + Len(first)
               => PutAt(c.buffer, r, first)[j] = first[j - r]
      <4> DEFINE buffer == c.buffer
      <4>1. buffer \in [1 .. 64 -> Cell] /\ r \in Nat /\ first \in Seq(Cell)
        BY <1>7, <3>0, <3>1
      <4> HIDE DEF buffer
      <4>2. /\ PutAt(buffer, r, first) \in [1 .. 64 -> Cell]
            /\ \A j \in 1 .. 64 : j <= r => PutAt(buffer, r, first)[j] = buffer[j]
            /\ \A j \in 1 .. 64 : j > r /\ j <= r + Len(first)
                 => PutAt(buffer, r, first)[j] = first[j - r]
        BY <4>1, PutBlock
      <4> QED
        BY <4>2 DEF buffer
    <3> HIDE DEF filled
    <3>2. /\ filled \in [1 .. 64 -> Cell]
          /\ \A j \in 1 .. 64 : j <= r => filled[j] = c.buffer[j]
          /\ \A j \in 1 .. 64 : j > r /\ j <= r + Len(first) => filled[j] = first[j - r]
      BY <3>a, <3>b
    <3>3. ASSUME NEW j \in 1 .. 64, j <= r PROVE filled[j] = M[(n - r) + j]
      <4>1. j \in 1 .. r
        BY <3>1, <3>3
      <4> QED
        BY <1>9, <3>2, <3>3, <4>1
    <3>4. ASSUME NEW j \in 1 .. 64, ~(j <= r) PROVE filled[j] = M[(n - r) + j]
      <4>1. j > r /\ j - r \in 1 .. partlen /\ n + (j - r) = (n - r) + j
        BY <3>1, <3>4, <2>1
      <4>2. j <= r + Len(first)
        BY <3>0, <3>1
      <4> QED
        BY <3>0, <3>2, <4>1, <4>2
    <3> QED
      BY <3>2, <3>3, <3>4
  <2> HIDE DEF filled
  <2>6. SubSeq(M, 1, n - r) \o filled = SubSeq(M, 1, n + partlen)
    <3>1. (n - r) + 64 <= Len(M)
      BY <2>1, <2>a, BytesOf
    <3> QED
      <4> DEFINE start == n - r
      <4>1. start \in Nat /\ start + 64 <= Len(M) /\ \A j \in 1 .. 64 : filled[j] = M[start + j]
        BY <2>5, <2>a, <3>1
      <4>2. start + 64 = n + partlen
        BY <2>a
      <4> HIDE DEF start
      <4>3. SubSeq(M, 1, start) \o filled = SubSeq(M, 1, start + 64)
        BY <2>5, <4>1, BlockAppended
      <4> QED
        BY <4>2, <4>3 DEF start
  <2>7. fed = SubSeq(M, 1, n + i)
    <3>1. SubSeq(input, partlen + 1, i) = SubSeq(M, (n + partlen) + 1, n + i)
      <4>1. partlen <= i /\ i <= k
        BY <2>1
      <4> QED
        BY <2>1, <4>1, PieceOfPiece
    <3>2. 1 \in 1 .. Len(M) + 1 /\ n + partlen \in 0 .. Len(M) /\ n + i \in (n + partlen) .. Len(M)
      BY <2>1, BytesOf
    <3>3. SubSeq(M, 1, n + partlen) \o SubSeq(M, (n + partlen) + 1, n + i)
            = SubSeq(M, 1, n + i)
      <4>1. n + partlen \in (1 - 1) .. Len(M)
        BY <3>2
      <4> QED
        BY <3>2, <4>1, BytesOf, ConcatAdjacentSubSeq
    <3> QED
      BY <1>9, <2>6, <3>1, <3>3
  <2>8. \A j \in 1 .. k - i : rest[j] = M[n + i + j]
    <3> DEFINE last == SubSeq(input, i + 1, k)
    <3>1. /\ last = SubSeq(M, (n + i) + 1, (n + i) + (k - i))
      <4>1. i <= k
        BY <2>1
      <4>2. last = SubSeq(M, (n + i) + 1, n + k)
        BY <2>1, <4>1, PieceOfPiece
      <4> QED
        BY <2>1, <4>2
    <3> DEFINE from == n + i
               rem == k - i
    <3>a. from \in Nat /\ rem \in Nat /\ from + rem <= Len(M)
      BY <2>1, BytesOf
    <3>b. last = SubSeq(M, from + 1, from + rem)
      BY <3>1
    <3>2. last \in Seq(Cell) /\ Len(last) = k - i /\ \A j \in 1 .. k - i : last[j] = M[(n + i) + j]
      <4> HIDE DEF from, rem, last
      <4>1. last \in Seq(Cell) /\ Len(last) = rem /\ \A j \in 1 .. rem : last[j] = M[from + j]
        BY <3>a, <3>b, PieceOfText
      <4> QED
        BY <4>1 DEF from, rem
    <3> HIDE DEF last
    <3>3. \A j \in 1 .. 64 : j > 0 /\ j <= 0 + Len(last) => rest[j] = last[j - 0]
      BY <2>5, <3>2, PutBlock DEF last
    <3>4. \A j \in 1 .. k - i : j \in 1 .. 64 /\ j > 0 /\ j <= 0 + Len(last) /\ j - 0 = j
      BY <2>1, <3>2
    <3> QED
      BY <3>2, <3>3, <3>4
  <2> HIDE DEF fed, rest, input
  <2>9. Md5Holds(M, d, n + k)
    <3>1. \E m \in Nat : 8 * (n + k) = d.lo + 512 * m
      BY <1>6, <2>3
    <3>2. (n + k) - ((n + k) % 64) = n + i
      BY <2>1
    <3>3. d.fed = SubSeq(M, 1, (n + k) - ((n + k) % 64))
      BY <2>3, <2>7, <3>2
    <3>4. \A j \in 1 .. (n + k) % 64 :
            d.buffer[j] = M[(n + k) - ((n + k) % 64) + j]
      BY <2>1, <2>3, <2>8, <3>2
    <3> QED
      BY <3>1, <3>3, <3>4 DEF Md5Holds
  <2> QED
    BY <2>9 DEF d, input
<1>11. CASE ~(k >= partlen)
  <2>1. (n + k) % 64 = r + k /\ (n + k) - ((n + k) % 64) = n - r /\ r + k \in 0 .. 63
    BY <1>5, <1>11
  <2> HIDE DEF r
  <2>2. d = [counted EXCEPT !.buffer = kept]
    BY <1>8, <1>11
  <2>3. d.lo = counted.lo /\ d.fed = c.fed /\ d.buffer = kept
    BY <1>2, <2>2 DEF Md5Contexts
  <2>4. /\ \A j \in 1 .. 64 : j <= r => kept[j] = c.buffer[j]
        /\ \A j \in 1 .. 64 : j > r /\ j <= r + k => kept[j] = input[j - r]
    <3>1. r \in Nat
      BY <1>5
    <3> HIDE DEF input
    <3> QED
      BY <1>1, <1>7, <3>1, PutBlock
  <2> HIDE DEF kept, input
  <2>5. ASSUME NEW j \in 1 .. r + k PROVE kept[j] = M[n - r + j]
    <3>1. j \in 1 .. 64 /\ r \in Nat
      BY <1>5, <2>1
    <3>2. CASE j <= r
      <4>1. j \in 1 .. r
        BY <3>1, <3>2
      <4> QED
        BY <1>9, <2>4, <3>1, <3>2, <4>1
    <3>3. CASE ~(j <= r)
      <4>1. j > r /\ j <= r + k /\ j - r \in 1 .. k /\ n + (j - r) = n - r + j
        BY <3>1, <3>3
      <4> QED
        BY <1>1, <2>4, <3>1, <4>1
    <3> QED
      BY <3>2, <3>3
  <2>6. Md5Holds(M, d, n + k)
    <3>1. \E m \in Nat : 8 * (n + k) = d.lo + 512 * m
      BY <1>6, <2>3
    <3>2. d.fed = SubSeq(M, 1, (n + k) - ((n + k) % 64))
      BY <1>9, <2>1, <2>3
    <3>3. \A j \in 1 .. (n + k) % 64 :
            d.buffer[j] = M[(n + k) - ((n + k) % 64) + j]
      BY <2>1, <2>3, <2>5
    <3> QED
      BY <3>1, <3>2, <3>3 DEF Md5Holds
  <2> QED
    BY <2>6 DEF d, input
<1> QED
  BY <1>10, <1>11

(* The inductive invariant of the MD5 context.                             *)
Md5IInv == Md5TypeOK /\ (~digested => Md5Holds(Text, md5, given))

LEMMA Md5StartOK ==
  Md5Start => Md5IInv
<1> SUFFICES ASSUME Md5Start PROVE Md5IInv
  OBVIOUS
<1>1. md5 = MD5Init /\ given = 0 /\ digested = FALSE
  BY DEF Md5Start
<1>2. MD5Init \in Md5Contexts
  <2>1. Junk \in Cell /\ 0 \in 0 .. Word - 1 /\ <<>> \in Seq(Cell)
    BY DigestAssumption DEF Cell, Junk
  <2>2. [i \in 1 .. 64 |-> Junk] \in [1 .. 64 -> Cell]
    BY <2>1
  <2> QED
    BY <2>1, <2>2 DEF MD5Init, Md5Contexts
<1>3. md5.lo = 0 /\ md5.fed = <<>>
  BY <1>1 DEF MD5Init
<1>4. Md5Holds(Text, md5, given)
  <2>1. given % 64 = 0 /\ given - (given % 64) = 0 /\ 8 * given = md5.lo + 512 * 0
    BY <1>1, <1>3
  <2>2. SubSeq(Text, 1, 0) = <<>>
    BY SubSeqEmpty
  <2> QED
    BY <1>3, <2>1, <2>2 DEF Md5Holds
<1>5. given \in 0 .. Len(Text) /\ digested \in BOOLEAN
  <2>1. Len(Text) \in Nat
    BY TextBytes
  <2>2. 0 \in 0 .. Len(Text)
    BY <2>1
  <2> QED
    BY <1>1, <2>2
<1> QED
  BY <1>1, <1>2, <1>4, <1>5 DEF Md5IInv, Md5TypeOK

(* What MD5Final feeds: padding and the length, which are bytes.           *)
LEMMA FinalContext ==
  ASSUME NEW c \in Md5Contexts
  PROVE  MD5Final(c) \in Md5Contexts
<1> DEFINE bits == LittleEndian(c.lo) \o LittleEndian(c.hi)
           pad == PADDING(PadLen(Index(c)))
<1>1. c.lo \in Nat /\ c.hi \in Nat
  BY DigestAssumption DEF Md5Contexts
<1>2. \A w \in Nat : LittleEndian(w) \in Seq(Cell)
  <2> TAKE w \in Nat
  <2>1. \A a \in Nat : a % 256 \in Cell
    BY DEF Cell, Junk
  <2>2. w \div 16777216 \in Nat /\ w \div 65536 \in Nat /\ w \div 256 \in Nat
    OBVIOUS
  <2> QED
    BY <2>1, <2>2 DEF LittleEndian
<1>3. bits \in Seq(Cell)
  BY <1>1, <1>2, ConcatProperties
<1>4. pad \in Seq(Cell)
  <2>1. Index(c) \in 0 .. 63
    BY <1>1 DEF Index
  <2>2. PadLen(Index(c)) \in Nat
    BY <2>1 DEF PadLen
  <2>3. 128 \in Cell /\ 0 \in Cell
    BY DEF Cell, Junk
  <2>4. pad \in [1 .. PadLen(Index(c)) -> Cell]
    BY <2>3 DEF PADDING
  <2> QED
    BY <2>2, <2>4, SeqDef
<1> HIDE DEF bits, pad
<1>5. MD5Update(MD5Update(c, pad), bits) \in Md5Contexts
  BY <1>3, <1>4, CollectContext
<1> QED
  BY <1>5 DEF MD5Final, bits, pad

LEMMA Md5Inductive ==
  Md5IInv /\ [Md5Next]_md5vars => Md5IInv'
<1> SUFFICES ASSUME Md5IInv, [Md5Next]_md5vars PROVE Md5IInv'
  OBVIOUS
<1>0. md5 \in Md5Contexts /\ given \in 0 .. Len(Text) /\ given \in Nat /\ digested \in BOOLEAN
  BY TextBytes DEF Md5IInv, Md5TypeOK
<1>1. ASSUME NEW n \in 0 .. Len(Text) - given, Update(n) PROVE Md5IInv'
  <2> DEFINE input == SubSeq(Text, given + 1, given + n)
  <2>1. ~digested /\ md5' = MD5Update(md5, input) /\ given' = given + n /\ digested' = digested
    BY <1>1 DEF Update
  <2>2. n \in Nat /\ given + n <= Len(Text) /\ given + n \in 0 .. Len(Text)
    BY <1>0, TextBytes
  <2>3. Md5Holds(Text, md5, given)
    BY <2>1 DEF Md5IInv
  <2>4. input \in Seq(Cell)
    BY <1>0, <2>2, TextBytes, PieceOfText
  <2>5. md5' \in Md5Contexts
    BY <1>0, <2>1, <2>4, CollectContext
  <2>6. Md5Holds(Text, md5', given')
    BY <1>0, <2>1, <2>2, <2>3, TextBytes, CollectAbsorbs
  <2> QED
    BY <1>0, <2>1, <2>2, <2>5, <2>6 DEF Md5IInv, Md5TypeOK
<1>2. CASE Final
  <2>1. md5' = MD5Final(md5) /\ given' = given /\ digested' = TRUE
    BY <1>2 DEF Final
  <2>2. md5' \in Md5Contexts
    BY <1>0, <2>1, FinalContext
  <2> QED
    BY <1>0, <2>1, <2>2 DEF Md5IInv, Md5TypeOK
<1>3. CASE UNCHANGED md5vars
  BY <1>3 DEF md5vars, Md5IInv, Md5TypeOK, Md5Holds
<1> QED
  BY <1>1, <1>2, <1>3 DEF Md5Next

(* A MD5 context stays of its type: no byte is written behind the block.   *)
THEOREM Md5TypeCorrect == Md5Spec => []Md5TypeOK
<1>1. Md5IInv => Md5TypeOK
  BY DEF Md5IInv
<1> QED
  BY <1>1, Md5StartOK, Md5Inductive, PTL DEF Md5Spec

(* However a message is cut into portions, what MD5Transform was given and *)
(* the used part of the buffer are the bytes MD5Update took, also after    *)
(* the counter of bits has wrapped.                                        *)
THEOREM Md5AbsorbedAlways == Md5Spec => []Md5Absorbed
<1>1. Md5IInv => Md5Absorbed
  <2> SUFFICES ASSUME Md5IInv, ~digested PROVE Md5Absorbed
    BY DEF Md5Absorbed
  <2>1. given \in Nat /\ md5.lo \in Nat /\ Md5Holds(Text, md5, given)
    BY TextBytes, DigestAssumption DEF Md5IInv, Md5TypeOK, Md5Contexts
  <2>2. Index(md5) = given % 64
    BY <2>1, IndexIsRest DEF Md5Holds, Index
  <2> QED
    BY <2>1, <2>2 DEF Md5Absorbed, Md5Holds
<1> QED
  BY <1>1, Md5StartOK, Md5Inductive, PTL DEF Md5Spec

(***************************************************************************)
(* What MD5Final compresses is the padded message: the context holds the   *)
(* message, and MD5Final gives it the bytes that pad it.                   *)
(***************************************************************************)
(* A quotient and its rest are the only ones.                              *)
LEMMA DivisionIs ==
  ASSUME NEW w \in Nat, w > 0, NEW x \in Nat, NEW y \in 0 .. w - 1
  PROVE  (w * x + y) \div w = x /\ (w * x + y) % w = y
<1> DEFINE a == w * x + y
           q == a \div w
           r == a % w
<1>1. a \in Nat
  OBVIOUS
<1>2. q \in Int /\ r \in 0 .. w - 1 /\ a = w * q + r
  <2> HIDE DEF a
  <2> QED
    BY <1>1
<1> HIDE DEF q, r
<1>3. w * x + y = w * q + r
  BY <1>2
<1>4. x = q
  <2>1. w * (x - q) = r - y
    BY <1>2, <1>3
  <2>2. r - y < w /\ y - r < w
    BY <1>2
  <2>3. CASE x - q >= 1
    <3>1. w * (x - q) >= w
      BY <1>2, <2>3
    <3> QED
      BY <1>2, <2>1, <2>2, <3>1
  <2>4. CASE q - x >= 1
    <3>1. w * (q - x) >= w
      BY <1>2, <2>4
    <3>2. w * (q - x) = y - r
      BY <1>2, <2>1
    <3> QED
      BY <1>2, <2>2, <3>1, <3>2
  <2> QED
    BY <1>2, <2>3, <2>4
<1>5. y = r
  BY <1>2, <1>3, <1>4
<1> QED
  BY <1>4, <1>5 DEF q, r

(* The count in two words, of bits n = w * x + y.                          *)
LEMMA RestOfSum ==
  ASSUME NEW w \in Nat, w > 0, NEW x \in Nat, NEW e \in Nat
  PROVE  ((x % w) + e) % w = (x + e) % w
<1> DEFINE r == x % w
           q == x \div w
<1>1. r \in 0 .. w - 1 /\ q \in Nat /\ x = w * q + r
  OBVIOUS
<1> HIDE DEF r, q
<1> DEFINE s == (r + e) % w
           p == (r + e) \div w
<1>2. r + e \in Nat
  BY <1>1
<1>3. s \in 0 .. w - 1 /\ p \in Nat /\ r + e = w * p + s
  <2> DEFINE t == r + e
  <2> HIDE DEF t
  <2>1. t \in Nat
    BY <1>2 DEF t
  <2>2. t % w \in 0 .. w - 1 /\ t \div w \in Nat /\ t = w * (t \div w) + (t % w)
    BY <2>1
  <2> QED
    BY <2>2 DEF t
<1> HIDE DEF s, p
<1>4. x + e = w * (q + p) + s /\ q + p \in Nat
  <2>1. w * (q + p) = w * q + w * p
    BY <1>1, <1>3
  <2> QED
    BY <1>1, <1>3, <2>1
<1>5. (x + e) % w = s
  BY <1>3, <1>4, DivisionIs
<1> QED
  BY <1>5 DEF r, s

(* Both words of a context count the bits of n bytes.                      *)
Md5Counts(c, n) == c.lo = (8 * n) % Word /\ c.hi = ((8 * n) \div Word) % Word

LEMMA CountsOn ==
  ASSUME NEW c \in Md5Contexts, NEW n \in Nat, NEW k \in Nat, Md5Counts(c, n)
  PROVE  Md5Counts(Counted(c, k), n + k)
<1> DEFINE bits == (8 * k) % Word
           p == (8 * k) \div Word
           q == (8 * n) \div Word
           lo == (c.lo + bits) % Word
           carry == IF lo < bits THEN 1 ELSE 0
<1>0. Word \in Nat /\ Word > 0
  BY DigestAssumption
<1>1. \A a \in Nat : a % Word \in 0 .. Word - 1 /\ a \div Word \in Nat /\ a = Word * (a \div Word) + (a % Word)
  BY <1>0
<1>2. bits \in 0 .. Word - 1 /\ p \in Nat /\ 8 * k = Word * p + bits
  <2>1. 8 * k \in Nat
    OBVIOUS
  <2> QED
    BY <1>1, <2>1
<1>3. c.lo \in 0 .. Word - 1 /\ q \in Nat /\ 8 * n = Word * q + c.lo /\ c.hi = q % Word
  <2>1. 8 * n \in Nat
    OBVIOUS
  <2> QED
    BY <1>1, <2>1 DEF Md5Counts
<1>4. /\ Counted(c, k).lo = lo
      /\ Counted(c, k).hi = (c.hi + carry + p) % Word
  BY DEF Counted, Md5Contexts
<1> HIDE DEF bits, p, q
<1>5. lo \in 0 .. Word - 1 /\ carry \in {0, 1} /\ c.lo + bits = Word * carry + lo
  <2>1. CASE c.lo + bits < Word
    <3>1. c.lo + bits = Word * 0 + (c.lo + bits) /\ c.lo + bits \in 0 .. Word - 1
      BY <1>0, <1>2, <1>3, <2>1
    <3>2. lo = c.lo + bits
      BY <1>0, <3>1, DivisionIs
    <3>3. carry = 0
      BY <1>0, <1>2, <1>3, <3>2
    <3> QED
      BY <3>1, <3>2, <3>3
  <2>2. CASE ~(c.lo + bits < Word)
    <3> DEFINE y == c.lo + bits - Word
    <3>1. c.lo + bits = Word * 1 + y /\ y \in 0 .. Word - 1
      BY <1>0, <1>2, <1>3, <2>2
    <3>2. lo = y
      BY <1>0, <3>1, DivisionIs
    <3>3. carry = 1
      BY <1>0, <1>2, <1>3, <3>1, <3>2
    <3> QED
      BY <3>1, <3>2, <3>3
  <2> QED
    BY <2>1, <2>2
<1> HIDE DEF lo, carry
<1>6. 8 * (n + k) = Word * (q + p + carry) + lo /\ q + p + carry \in Nat
  <2>1. Word * (q + p + carry) = Word * q + Word * p + Word * carry
    BY <1>0, <1>2, <1>3, <1>5
  <2>2. Word * q \in Nat /\ Word * p \in Nat /\ Word * carry \in Nat
    BY <1>0, <1>2, <1>3, <1>5
  <2> QED
    BY <1>0, <1>2, <1>3, <1>5, <2>1, <2>2
<1>7. (8 * (n + k)) \div Word = q + p + carry /\ (8 * (n + k)) % Word = lo
  BY <1>0, <1>5, <1>6, DivisionIs
<1>8. (c.hi + carry + p) % Word = (q + p + carry) % Word
  <2>1. carry + p \in Nat /\ q + (carry + p) = q + p + carry
    BY <1>2, <1>3, <1>5
  <2>2. ((q % Word) + (carry + p)) % Word = (q + (carry + p)) % Word
    BY <1>0, <1>3, <2>1, RestOfSum
  <2>3. (q % Word) + (carry + p) = c.hi + carry + p
    BY <1>1, <1>2, <1>3, <1>5
  <2> QED
    BY <2>1, <2>2, <2>3
<1> QED
  BY <1>4, <1>7, <1>8 DEF Md5Counts

LEMMA UpdateCounts ==
  ASSUME NEW c \in Md5Contexts, NEW n \in Nat, NEW input \in Seq(Cell), Md5Counts(c, n)
  PROVE  Md5Counts(MD5Update(c, input), n + Len(input))
<1>1. Len(input) \in Nat
  BY LenProperties
<1> DEFINE d == Counted(c, Len(input))
<1>2. d \in Md5Contexts /\ Md5Counts(d, n + Len(input))
  BY <1>1, CountsOn, CountedContext
<1>3. MD5Update(c, input).lo = d.lo /\ MD5Update(c, input).hi = d.hi
  <2> HIDE DEF d
  <2>1. d.lo = d.lo
    OBVIOUS
  <2> QED
    BY <1>2 DEF MD5Update, Collect, d, Md5Contexts
<1> QED
  BY <1>2, <1>3 DEF Md5Counts

(* A padded message, and what it has at which place.                       *)
PaddedWith(msg, zeros, length) == msg \o <<128>> \o [i \in 1 .. zeros |-> 0] \o length

IsPadded(M, msg, z, L) ==
  /\ M \in Seq(Cell) /\ Len(M) = Len(msg) + z + 9
  /\ \A i \in 1 .. Len(msg) : M[i] = msg[i]
  /\ M[Len(msg) + 1] = 128
  /\ \A i \in 1 .. z : M[Len(msg) + 1 + i] = 0
  /\ \A i \in 1 .. 8 : M[Len(msg) + 1 + z + i] = L[i]

LEMMA Joined ==
  ASSUME NEW s \in Seq(Cell), NEW t \in Seq(Cell)
  PROVE  /\ s \o t \in Seq(Cell) /\ Len(s \o t) = Len(s) + Len(t)
         /\ \A i \in 1 .. Len(s) : (s \o t)[i] = s[i]
         /\ \A i \in 1 .. Len(t) : (s \o t)[Len(s) + i] = t[i]
<1> DEFINE u == s \o t
<1>0. Len(s) \in Nat /\ Len(t) \in Nat
  BY LenProperties
<1>1. /\ u \in Seq(Cell) /\ Len(u) = Len(s) + Len(t)
      /\ \A i \in 1 .. Len(s) + Len(t) : u[i] = IF i <= Len(s) THEN s[i] ELSE t[i - Len(s)]
  BY ONLY s \in Seq(Cell), t \in Seq(Cell), ConcatProperties
<1> HIDE DEF u
<1>3. ASSUME NEW i \in 1 .. Len(s) PROVE u[i] = s[i]
  <2>1. i \in 1 .. Len(s) + Len(t) /\ i <= Len(s)
    BY <1>0
  <2> QED
    BY <1>1, <2>1
<1>4. ASSUME NEW i \in 1 .. Len(t) PROVE u[Len(s) + i] = t[i]
  <2>1. Len(s) + i \in 1 .. Len(s) + Len(t) /\ ~(Len(s) + i <= Len(s)) /\ (Len(s) + i) - Len(s) = i
    BY <1>0
  <2>2. u[Len(s) + i] = t[(Len(s) + i) - Len(s)]
    BY <1>1, <2>1
  <2> QED
    BY <2>1, <2>2
<1> QED
  BY <1>1, <1>3, <1>4 DEF u

LEMMA PaddedParts ==
  ASSUME NEW msg \in Seq(Cell), NEW z, z \in Nat, NEW L \in Seq(Cell), Len(L) = 8
  PROVE  IsPadded(PaddedWith(msg, z, L), msg, z, L)
<1> DEFINE n == Len(msg)
           one == <<128>>
           zeros == [i \in 1 .. z |-> 0]
           a == msg \o one
           b == a \o zeros
           c == b \o L
<1>1. n \in Nat /\ Len(msg) = n
  BY LenProperties
<1> HIDE DEF n
<1>2. one \in Seq(Cell) /\ Len(one) = 1 /\ one[1] = 128
  BY DEF Cell, Junk
<1>3. zeros \in Seq(Cell) /\ Len(zeros) = z /\ \A i \in 1 .. z : zeros[i] = 0
  <2>1. zeros \in [1 .. z -> Cell]
    BY DEF Cell, Junk
  <2>2. zeros \in Seq(Cell)
    BY <2>1, SeqDef
  <2> QED
    BY <2>1, <2>2, LenProperties
<1> HIDE DEF one, zeros
<1>4. /\ a \in Seq(Cell) /\ Len(a) = n + 1
      /\ \A i \in 1 .. n : a[i] = msg[i]
      /\ a[n + 1] = 128
  <2>1. /\ a \in Seq(Cell) /\ Len(a) = n + 1
        /\ \A i \in 1 .. n : a[i] = msg[i]
        /\ \A i \in 1 .. 1 : a[n + i] = one[i]
    <3>1. Len(msg) = n /\ Len(one) = 1 /\ msg \in Seq(Cell) /\ one \in Seq(Cell)
      BY <1>1, <1>2
    <3>2. /\ msg \o one \in Seq(Cell) /\ Len(msg \o one) = Len(msg) + Len(one)
          /\ \A i \in 1 .. Len(msg) : (msg \o one)[i] = msg[i]
          /\ \A i \in 1 .. Len(one) : (msg \o one)[Len(msg) + i] = one[i]
      BY <3>1, Joined
    <3> QED
      BY <3>1, <3>2
  <2>2. 1 \in 1 .. 1
    OBVIOUS
  <2>3. a[n + 1] = one[1]
    BY <2>1, <2>2
  <2> HIDE DEF a
  <2> QED
    BY <1>2, <2>1, <2>3
<1> HIDE DEF a
<1>5. /\ b \in Seq(Cell) /\ Len(b) = n + 1 + z
      /\ \A i \in 1 .. n + 1 : b[i] = a[i]
      /\ \A i \in 1 .. z : b[n + 1 + i] = 0
  <2>1. n + 1 \in Nat
    BY <1>1
  <2>2. /\ b \in Seq(Cell) /\ Len(b) = n + 1 + z
        /\ \A i \in 1 .. n + 1 : b[i] = a[i]
        /\ \A i \in 1 .. z : b[n + 1 + i] = zeros[i]
    <3>1. Len(a) = n + 1 /\ Len(zeros) = z /\ a \in Seq(Cell) /\ zeros \in Seq(Cell)
      BY <1>3, <1>4
    <3>2. /\ a \o zeros \in Seq(Cell) /\ Len(a \o zeros) = Len(a) + Len(zeros)
          /\ \A i \in 1 .. Len(a) : (a \o zeros)[i] = a[i]
          /\ \A i \in 1 .. Len(zeros) : (a \o zeros)[Len(a) + i] = zeros[i]
      BY <3>1, Joined
    <3> QED
      BY <3>1, <3>2
  <2> QED
    BY <1>3, <2>2
<1> HIDE DEF b
<1>6. /\ c \in Seq(Cell) /\ Len(c) = n + 1 + z + 8
      /\ \A i \in 1 .. n + 1 + z : c[i] = b[i]
      /\ \A i \in 1 .. 8 : c[n + 1 + z + i] = L[i]
  <2>1. n + 1 + z \in Nat /\ 8 \in Nat
    BY <1>1
  <2> QED
    <3>1. Len(b) = n + 1 + z /\ b \in Seq(Cell) /\ Len(L) = 8 /\ L \in Seq(Cell)
      BY <1>5
    <3>2. /\ b \o L \in Seq(Cell) /\ Len(b \o L) = Len(b) + Len(L)
          /\ \A i \in 1 .. Len(b) : (b \o L)[i] = b[i]
          /\ \A i \in 1 .. Len(L) : (b \o L)[Len(b) + i] = L[i]
      BY <3>1, Joined
    <3> QED
      BY <3>1, <3>2
<1> HIDE DEF c
<1>7. PaddedWith(msg, z, L) = c
  BY DEF PaddedWith, c, b, a, one, zeros
<1>8. ASSUME NEW i \in 1 .. n PROVE c[i] = msg[i]
  <2>1. i \in 1 .. n + 1 + z /\ i \in 1 .. n + 1
    BY <1>1
  <2> QED
    BY <1>4, <1>5, <1>6, <2>1
<1>9. c[n + 1] = 128
  <2>1. n + 1 \in 1 .. n + 1 + z /\ n + 1 \in 1 .. n + 1
    BY <1>1
  <2> QED
    BY <1>4, <1>5, <1>6, <2>1
<1>10. ASSUME NEW i \in 1 .. z PROVE c[n + 1 + i] = 0
  <2>1. n + 1 + i \in 1 .. n + 1 + z
    BY <1>1
  <2> QED
    BY <1>5, <1>6, <2>1
<1>12. n + 1 + z + 8 = n + z + 9
  BY <1>1
<1> QED
  BY <1>1, <1>6, <1>7, <1>8, <1>9, <1>10, <1>12 DEF IsPadded

(* A sequence that is, place by place, a piece of another.                 *)
LEMMA IsPiece ==
  ASSUME NEW M \in Seq(Cell), NEW n \in Nat, NEW s \in Seq(Cell), n + Len(s) <= Len(M),
         \A i \in 1 .. Len(s) : s[i] = M[n + i]
  PROVE  s = SubSeq(M, n + 1, n + Len(s))
<1> DEFINE k == Len(s)
           t == SubSeq(M, n + 1, n + k)
<1>1. k \in Nat
  BY LenProperties
<1> HIDE DEF k
<1>2. t \in Seq(Cell) /\ Len(t) = k /\ \A j \in 1 .. k : t[j] = M[n + j]
  BY <1>1, PieceOfText DEF k
<1> HIDE DEF t
<1>3. Len(s) = Len(t) /\ \A i \in 1 .. Len(s) : s[i] = t[i]
  BY <1>2 DEF k
<1> QED
  BY <1>2, <1>3, SeqEqual DEF t, k

(* The zeros that pad a message of n bytes.                                *)
LEMMA PadRest ==
  ASSUME NEW n \in Nat, NEW z, z = (55 - n) % 64
  PROVE  /\ z \in 0 .. 63 /\ (n + z + 9) % 64 = 0
         /\ n % 64 <= 55 => z = 55 - (n % 64)
         /\ n % 64 > 55 => z = 119 - (n % 64)
OBVIOUS

LEMMA LengthIsBytes ==
  ASSUME NEW w \in Nat
  PROVE  /\ LittleEndian(w) \in Seq(Cell) /\ Len(LittleEndian(w)) = 4
         /\ BigEndian(w) \in Seq(Cell) /\ Len(BigEndian(w)) = 4
<1>1. \A a \in Nat : a % 256 \in Cell
  BY DEF Cell, Junk
<1>2. w \div 16777216 \in Nat /\ w \div 65536 \in Nat /\ w \div 256 \in Nat
  OBVIOUS
<1> QED
  BY <1>1, <1>2 DEF LittleEndian, BigEndian

(* A context that holds the text's first n bytes and has counted them      *)
(* gives MD5Transform the padded message.                                  *)
LEMMA FinalFeeds ==
  ASSUME NEW c \in Md5Contexts, NEW n \in 0 .. Len(Text), Md5Holds(Text, c, n), Md5Counts(c, n)
  PROVE  MD5Final(c).fed = PaddedWith(SubSeq(Text, 1, n), (55 - n) % 64, Md5Length(n))
<1> DEFINE msg == SubSeq(Text, 1, n)
           z == (55 - n) % 64
           L == Md5Length(n)
           M == PaddedWith(msg, z, L)
           r == n % 64
           pad == PADDING(z + 1)
           d == MD5Update(c, pad)
           e == MD5Update(d, L)
<1>0. n \in Nat /\ n <= Len(Text) /\ Len(Text) \in Nat
  BY TextBytes
<1>1. msg \in Seq(Cell) /\ Len(msg) = n /\ \A i \in 1 .. n : msg[i] = Text[i]
  <2>1. 0 + n <= Len(Text) /\ 0 \in Nat
    BY <1>0
  <2>2. /\ SubSeq(Text, 0 + 1, 0 + n) \in Seq(Cell) /\ Len(SubSeq(Text, 0 + 1, 0 + n)) = n
        /\ \A i \in 1 .. n : SubSeq(Text, 0 + 1, 0 + n)[i] = Text[0 + i]
    BY <1>0, <2>1, TextBytes, PieceOfText
  <2>3. 0 + 1 = 1 /\ 0 + n = n /\ \A i \in 1 .. n : 0 + i = i
    BY <1>0
  <2> QED
    BY <2>2, <2>3
<1>2. c.lo \in Nat /\ c.hi \in Nat /\ L = LittleEndian(c.lo) \o LittleEndian(c.hi)
  BY DigestAssumption DEF Md5Counts, Md5Length, Md5Contexts
<1>3. L \in Seq(Cell) /\ Len(L) = 8
  <2> HIDE DEF L
  <2>1. /\ LittleEndian(c.lo) \in Seq(Cell) /\ Len(LittleEndian(c.lo)) = 4
        /\ LittleEndian(c.hi) \in Seq(Cell) /\ Len(LittleEndian(c.hi)) = 4
    BY <1>2, LengthIsBytes
  <2> QED
    <3> DEFINE a == LittleEndian(c.lo)
               b == LittleEndian(c.hi)
    <3>1. a \in Seq(Cell) /\ b \in Seq(Cell) /\ Len(a) = 4 /\ Len(b) = 4 /\ L = a \o b
      BY <1>2, <2>1
    <3> HIDE DEF a, b
    <3>2. Len(a \o b) = Len(a) + Len(b) /\ a \o b \in Seq(Cell)
      BY ONLY <3>1, Joined
    <3> QED
      BY <3>1, <3>2
<1>4. /\ z \in 0 .. 63 /\ (n + z + 9) % 64 = 0
      /\ r <= 55 => z = 55 - r
      /\ r > 55 => z = 119 - r
  BY <1>0, PadRest
<1>5. Index(c) = r /\ PadLen(Index(c)) = z + 1
  <2>1. Index(c) = r
    BY <1>0, <1>2, IndexIsRest DEF Md5Holds, Index
  <2>2. r \in 0 .. 63
    BY <1>0
  <2> HIDE DEF r, z
  <2> QED
    BY <1>4, <2>1, <2>2 DEF PadLen
<1>6. MD5Final(c) = e
  BY <1>2, <1>5 DEF MD5Final
<1> HIDE DEF msg, z, L
<1>7. /\ M \in Seq(Cell) /\ Len(M) = n + z + 9
      /\ \A i \in 1 .. n : M[i] = msg[i]
      /\ M[n + 1] = 128
      /\ \A i \in 1 .. z : M[n + 1 + i] = 0
      /\ \A i \in 1 .. 8 : M[n + 1 + z + i] = L[i]
  <2>1. msg \in Seq(Cell) /\ z \in Nat /\ L \in Seq(Cell) /\ Len(L) = 8 /\ n = Len(msg)
    BY <1>1, <1>3, <1>4
  <2>2. M = PaddedWith(msg, z, L)
    OBVIOUS
  <2> HIDE DEF M
  <2> QED
    <3>1. IsPadded(PaddedWith(msg, z, L), msg, z, L)
      BY ONLY <2>1, PaddedParts
    <3> QED
      BY <2>1, <2>2, <3>1 DEF IsPadded
<1> HIDE DEF M
<1>a. M \in Seq(Cell)
  BY <1>7
<1>8. Md5Holds(M, c, n)
  <2>1. SubSeq(Text, 1, n - r) = SubSeq(M, 1, n - r)
    <3> DEFINE h == n - r
               s == SubSeq(Text, 0 + 1, 0 + h)
    <3>1. h \in Nat /\ h <= n /\ 0 + h <= Len(Text) /\ 0 + h <= Len(M) /\ 0 \in Nat
      <4>1. r \in 0 .. 63 /\ r <= n
        BY <1>0
      <4> HIDE DEF r
      <4> QED
        BY <1>0, <1>4, <1>7, <4>1
    <3> HIDE DEF h
    <3>2. s \in Seq(Cell) /\ Len(s) = h /\ \A i \in 1 .. h : s[i] = Text[0 + i]
      BY <3>1, TextBytes, PieceOfText
    <3>3. \A i \in 1 .. h : i \in 1 .. n /\ 0 + i = i
      BY <1>0, <3>1
    <3>4. \A i \in 1 .. h : s[i] = M[0 + i]
      BY <1>1, <1>7, <3>2, <3>3
    <3> HIDE DEF s
    <3>5. s = SubSeq(M, 0 + 1, 0 + h)
      BY <1>7, <3>1, <3>2, <3>4, IsPiece
    <3>6. 0 + 1 = 1 /\ 0 + h = h
      BY <3>1
    <3> QED
      BY <3>5, <3>6 DEF s, h
  <2>2. \A i \in 1 .. r : n - r + i \in 1 .. n
    BY <1>0
  <2>3. \A i \in 1 .. r : Text[n - r + i] = M[n - r + i]
    <3> HIDE DEF r
    <3> QED
      BY <1>1, <1>7, <2>2
  <2> QED
    BY <2>1, <2>3 DEF Md5Holds
<1>9. pad \in Seq(Cell) /\ Len(pad) = z + 1 /\ pad = SubSeq(M, n + 1, n + (z + 1))
  <2>0. z + 1 \in Nat /\ z \in Nat
    BY <1>4
  <2>1. pad = [i \in 1 .. z + 1 |-> IF i = 1 THEN 128 ELSE 0]
    BY DEF PADDING
  <2>2. pad \in [1 .. z + 1 -> Cell]
    <3>1. 128 \in Cell /\ 0 \in Cell
      BY DEF Cell, Junk
    <3> QED
      BY <2>1, <3>1
  <2>3. pad \in Seq(Cell) /\ Len(pad) = z + 1
    BY <2>0, <2>2, SeqDef, LenProperties
  <2>4. ASSUME NEW i \in 1 .. z + 1 PROVE pad[i] = M[n + i]
    <3>1. CASE i = 1
      BY <1>7, <2>1, <3>1
    <3>2. CASE i # 1
      <4>1. i - 1 \in 1 .. z /\ n + 1 + (i - 1) = n + i
        BY <1>0, <2>0, <3>2
      <4>2. M[n + i] = 0
        BY <1>7, <4>1
      <4> QED
        BY <2>1, <3>2, <4>2
    <3> QED
      BY <3>1, <3>2
  <2>5. n + Len(pad) <= Len(M)
    BY <1>0, <1>7, <2>0, <2>3
  <2>b. \A i \in 1 .. Len(pad) : pad[i] = M[n + i]
    BY <2>3, <2>4
  <2> HIDE DEF pad
  <2>6. pad = SubSeq(M, n + 1, n + Len(pad))
    BY ONLY <1>0, <1>a, <2>3, <2>5, <2>b, IsPiece
  <2> QED
    BY <2>3, <2>6
<1> HIDE DEF pad
<1>10. d \in Md5Contexts /\ Md5Holds(M, d, n + (z + 1))
  <2>1. z + 1 \in Nat /\ n + (z + 1) <= Len(M)
    BY <1>0, <1>4, <1>7
  <2>2. Md5Holds(M, MD5Update(c, SubSeq(M, n + 1, n + (z + 1))), n + (z + 1))
    BY <1>0, <1>7, <1>8, <2>1, CollectAbsorbs
  <2> QED
    BY <1>9, <2>2, CollectContext
<1> HIDE DEF d
<1>11. L = SubSeq(M, (n + (z + 1)) + 1, (n + (z + 1)) + 8)
  <2> DEFINE m == n + (z + 1)
  <2>1. m \in Nat /\ m + Len(L) <= Len(M) /\ m = n + 1 + z
    BY <1>0, <1>3, <1>4, <1>7
  <2>2. \A i \in 1 .. Len(L) : L[i] = M[m + i]
    BY <1>3, <1>7, <2>1
  <2> HIDE DEF m
  <2>3. L = SubSeq(M, m + 1, m + Len(L))
    BY ONLY <1>a, <1>3, <2>1, <2>2, IsPiece
  <2> QED
    BY <1>3, <2>3 DEF m
<1>12. Md5Holds(M, e, (n + (z + 1)) + 8)
  <2> DEFINE m == n + (z + 1)
  <2>1. m \in Nat /\ 8 \in Nat /\ m + 8 <= Len(M)
    BY <1>0, <1>4, <1>7
  <2>2. Md5Holds(M, d, m) /\ L = SubSeq(M, m + 1, m + 8)
    BY <1>10, <1>11
  <2> HIDE DEF m
  <2>3. Md5Holds(M, MD5Update(d, SubSeq(M, m + 1, m + 8)), m + 8)
    BY ONLY <1>a, <1>10, <2>1, <2>2, CollectAbsorbs
  <2> QED
    BY <2>2, <2>3 DEF m
<1> HIDE DEF e
<1>13. e.fed = SubSeq(M, 1, n + z + 9)
  <2> DEFINE all == (n + (z + 1)) + 8
  <2>1. all = n + z + 9 /\ all % 64 = 0
    BY <1>0, <1>4
  <2>2. all - (all % 64) = all
    BY <1>0, <1>4, <2>1
  <2> QED
    BY <1>12, <2>1, <2>2 DEF Md5Holds
<1>14. SubSeq(M, 1, Len(M)) = M
  BY <1>7, SubSeqFull
<1> QED
  BY <1>6, <1>7, <1>13, <1>14 DEF M, msg, z, L

(* The inductive invariant of MD5's implementation of the promise: besides *)
(* holding the message, both words of the counter are exact.               *)
Md5Exact == Md5IInv /\ (~digested => Md5Counts(md5, given))

LEMMA Md5ExactStarts == Md5Start => Md5Exact
<1> SUFFICES ASSUME Md5Start PROVE Md5Counts(md5, given)
  BY Md5StartOK DEF Md5Exact
<1>1. md5.lo = 0 /\ md5.hi = 0 /\ 8 * given = 0
  BY DEF Md5Start, MD5Init
<1>2. 0 % Word = 0 /\ 0 \div Word = 0
  BY DigestAssumption
<1> QED
  BY <1>1, <1>2 DEF Md5Counts

(* Every step is one of the promise's, or changes nothing it tells of.     *)
LEMMA Md5StepOfDigest ==
  ASSUME Md5Exact, [Md5Next]_md5vars
  PROVE  Md5Exact' /\ [Md5Promise!Next]_<<given, IF digested THEN md5.fed ELSE <<>> >>
<1> DEFINE out == IF digested THEN md5.fed ELSE <<>>
<1>0. /\ Md5IInv /\ md5 \in Md5Contexts /\ given \in 0 .. Len(Text) /\ given \in Nat
      /\ digested \in BOOLEAN
  BY TextBytes DEF Md5Exact, Md5IInv, Md5TypeOK
<1>1. Md5IInv'
  BY <1>0, Md5Inductive
<1>2. ASSUME NEW n \in 0 .. Len(Text) - given, Update(n)
      PROVE  Md5Exact' /\ (Md5Promise!Give \/ UNCHANGED <<given, out>>)
  <2> DEFINE input == SubSeq(Text, given + 1, given + n)
  <2>1. ~digested /\ md5' = MD5Update(md5, input) /\ given' = given + n /\ digested' = digested
    BY <1>2 DEF Update
  <2>2. n \in Nat /\ given + n <= Len(Text)
    BY <1>0, TextBytes
  <2>3. input \in Seq(Cell) /\ Len(input) = n
    BY <1>0, <2>2, TextBytes, PieceOfText
  <2> HIDE DEF input
  <2>4. Md5Counts(md5', given')
    <3>1. Md5Counts(MD5Update(md5, input), given + Len(input))
      BY <1>0, <2>1, <2>3, UpdateCounts DEF Md5Exact
    <3> QED
      BY <2>1, <2>3, <3>1
  <2>5. out = <<>> /\ out' = <<>>
    BY <2>1
  <2>6. CASE n = 0
    BY <1>0, <1>1, <2>1, <2>4, <2>5, <2>6 DEF Md5Exact
  <2>7. CASE n # 0
    <3>1. n \in 1 .. Len(Text) - given
      BY <2>2, <2>7
    <3>2. Md5Promise!Give
      BY <2>1, <2>5, <3>1 DEF Md5Promise!Give
    <3> QED
      BY <1>1, <2>4, <3>2 DEF Md5Exact
  <2> QED
    BY <2>6, <2>7
<1>3. CASE Final
  <2>1. ~digested /\ md5' = MD5Final(md5) /\ given' = given /\ digested' = TRUE
    BY <1>3 DEF Final
  <2>2. MD5Final(md5).fed = PaddedWith(SubSeq(Text, 1, given), (55 - given) % 64, Md5Length(given))
    BY <1>0, <2>1, FinalFeeds DEF Md5Exact, Md5IInv
  <2>3. Len(SubSeq(Text, 1, given)) = given
    <3>1. 0 + given <= Len(Text) /\ 0 \in Nat /\ 0 + 1 = 1 /\ 0 + given = given
      BY <1>0, TextBytes
    <3>2. Len(SubSeq(Text, 0 + 1, 0 + given)) = given
      BY <1>0, <3>1, TextBytes, PieceOfText
    <3> QED
      BY <3>1, <3>2
  <2>4. MD5Final(md5).fed = Md5Promise!Padded(SubSeq(Text, 1, given))
    BY <2>2, <2>3 DEF Md5Promise!Padded, Md5Promise!Zeros, PaddedWith
  <2>5. Md5Promise!Finish
    BY <2>1, <2>4 DEF Md5Promise!Finish
  <2>6. Md5Exact'
    BY <1>1, <2>1 DEF Md5Exact
  <2> QED
    BY <2>5, <2>6 DEF Md5Promise!Next
<1>4. CASE UNCHANGED md5vars
  BY <1>1, <1>4 DEF md5vars, Md5Exact, Md5Counts
<1> QED
  BY <1>2, <1>3, <1>4 DEF Md5Next, Md5Promise!Next

(* MD5 compresses exactly the padded message with its length, for any text *)
(* and any cut into portions, also when the counter's words have wrapped   *)
(* (md5.c:51-125).                                                         *)
THEOREM Md5Digests == Md5Spec => Md5ImplementsDigest
<1>1. Md5Start => Md5Promise!Init
  BY DEF Md5Start, Md5Promise!Init
<1>2. Md5Exact /\ [Md5Next]_md5vars => Md5Exact'
  BY Md5StepOfDigest
<1>3. Md5Exact /\ [Md5Next]_md5vars => [Md5Promise!Next]_<<given, IF digested THEN md5.fed ELSE <<>> >>
  BY Md5StepOfDigest
<1> QED
  BY <1>1, <1>2, <1>3, Md5ExactStarts, PTL DEF Md5Spec, Md5ImplementsDigest, Md5Promise!Spec

(***************************************************************************)
(* What SHA1Result compresses is the padded message, too.                  *)
(***************************************************************************)
(* Both words of a context count the bits of n bytes.                      *)
Sha1Counts(c, n) == c.Low = (8 * n) % Word /\ c.High = ((8 * n) \div Word) % Word

LEMMA CountsByte ==
  ASSUME NEW c \in Sha1Contexts, NEW n \in Nat, Sha1Counts(c, n)
  PROVE  Sha1Counts(CountByte(c), n + 1)
<1> DEFINE q == (8 * n) \div Word
           K == Word \div 512
           low == (c.Low + 8) % Word
<1>0. Word \in Nat /\ Word > 0 /\ K \in Nat /\ Word = 512 * K
  BY DigestAssumption
<1>1. c.Low \in 0 .. Word - 1 /\ q \in Nat /\ 8 * n = Word * q + c.Low /\ c.High = q % Word
  <2>1. 8 * n \in Nat
    OBVIOUS
  <2>2. \A a \in Nat : a % Word \in 0 .. Word - 1 /\ a \div Word \in Nat /\ a = Word * (a \div Word) + (a % Word)
    BY <1>0
  <2> QED
    BY <2>1, <2>2 DEF Sha1Counts
<1>2. /\ CountByte(c).Low = low
      /\ CountByte(c).High = IF low = 0 THEN (c.High + 1) % Word ELSE c.High
  BY DEF CountByte, Sha1Contexts
<1> HIDE DEF q, K
<1>3. c.Low + 8 <= Word
  <2>1. K * q \in Nat /\ Word * q = 512 * (K * q)
    BY <1>0, <1>1
  <2> DEFINE m == K * q
  <2>2. m \in Nat /\ 8 * n = 512 * m + c.Low /\ Word = 512 * K
    BY <1>0, <1>1, <2>1
  <2> HIDE DEF m
  <2> QED
    BY <1>0, <1>1, <2>2
<1>4. CASE c.Low + 8 = Word
  <2>1. 8 * (n + 1) = Word * (q + 1) + 0 /\ 0 \in 0 .. Word - 1 /\ q + 1 \in Nat
    BY <1>0, <1>1, <1>4
  <2>2. (8 * (n + 1)) \div Word = q + 1 /\ (8 * (n + 1)) % Word = 0
    BY <1>0, <2>1, DivisionIs
  <2>3. low = 0
    <3>1. Word = Word * 1 + 0 /\ 1 \in Nat
      BY <1>0
    <3>2. Word % Word = 0
      BY <1>0, <2>1, <3>1, DivisionIs
    <3> QED
      BY <1>4, <3>2
  <2>4. (c.High + 1) % Word = (q + 1) % Word
    <3> DEFINE e == 1
    <3>1. e \in Nat /\ q \in Nat /\ Word \in Nat /\ Word > 0
      BY <1>0, <1>1
    <3> HIDE DEF e
    <3>2. ((q % Word) + e) % Word = (q + e) % Word
      BY ONLY <3>1, RestOfSum
    <3> QED
      BY <1>1, <3>2 DEF e
  <2> QED
    BY <1>2, <2>2, <2>3, <2>4 DEF Sha1Counts
<1>5. CASE c.Low + 8 # Word
  <2> DEFINE y == c.Low + 8
  <2>1. y \in 0 .. Word - 1 /\ y > 0 /\ 8 * (n + 1) = Word * q + y
    BY <1>0, <1>1, <1>3, <1>5
  <2> HIDE DEF y
  <2>2. (8 * (n + 1)) \div Word = q /\ (8 * (n + 1)) % Word = y
    BY <1>0, <1>1, <2>1, DivisionIs
  <2>3. low = y
    <3>1. y = Word * 0 + y /\ 0 \in Nat
      BY <1>0, <2>1
    <3>2. y % Word = y
      BY <1>0, <2>1, <3>1, DivisionIs
    <3> QED
      BY <3>2 DEF y
  <2> QED
    BY <1>1, <1>2, <2>1, <2>2, <2>3 DEF Sha1Counts
<1> QED
  BY <1>4, <1>5

LEMMA TakeByteCounts ==
  ASSUME NEW c \in Sha1Contexts, c.Index < 64, NEW byte \in Cell, NEW n \in Nat, Sha1Counts(c, n)
  PROVE  Sha1Counts(TakeByte(c, byte), n + 1)
<1> DEFINE p == Put(c, byte)
           d == CountByte(p)
           e == TakeByte(c, byte)
<1>1. p \in Sha1Contexts
  BY PutContext
<1>2. p.Low = c.Low /\ p.High = c.High
  BY DEF Put, Sha1Contexts
<1> HIDE DEF p
<1>3. Sha1Counts(d, n + 1) /\ d \in Sha1Contexts
  BY <1>1, <1>2, CountsByte, CountContext DEF Sha1Counts
<1>4. e = IF d.Index = 64 THEN SHA1ProcessMessageBlock(d) ELSE d
  BY DEF TakeByte, p
<1> HIDE DEF d
<1>5. SHA1ProcessMessageBlock(d).Low = d.Low /\ SHA1ProcessMessageBlock(d).High = d.High
  BY <1>3 DEF SHA1ProcessMessageBlock, Sha1Contexts
<1> HIDE DEF e
<1> QED
  BY <1>3, <1>4, <1>5 DEF Sha1Counts, e

(* What the parts of the padding write, and what they leave.               *)
LEMMA MarkIs ==
  ASSUME NEW c \in Sha1Contexts, c.Index < 64
  PROVE  /\ Put(c, 128) \in Sha1Contexts /\ Put(c, 128).Index = c.Index + 1
         /\ Put(c, 128).fed = c.fed /\ Put(c, 128).Low = c.Low /\ Put(c, 128).High = c.High
         /\ Put(c, 128).Block[c.Index + 1] = 128
         /\ \A i \in 1 .. c.Index : Put(c, 128).Block[i] = c.Block[i]
<1>1. 128 \in Cell
  BY DEF Cell, Junk
<1>2. /\ Put(c, 128) \in Sha1Contexts /\ Put(c, 128).Index = c.Index + 1
      /\ Put(c, 128).fed = c.fed
      /\ Put(c, 128).Block = [c.Block EXCEPT ![c.Index + 1] = 128]
  BY <1>1, PutContext
<1>3. Put(c, 128).Low = c.Low /\ Put(c, 128).High = c.High
  BY DEF Put, Sha1Contexts
<1>4. c.Index \in 0 .. 63 /\ c.Block \in [1 .. 64 -> Cell]
  BY DEF Sha1Contexts
<1>5. \A i \in 1 .. c.Index : i \in 1 .. 64 /\ i # c.Index + 1
  BY <1>4
<1>6. c.Index + 1 \in 1 .. 64
  BY <1>4
<1> QED
  BY <1>2, <1>3, <1>4, <1>5, <1>6

LEMMA ZerosAre ==
  ASSUME NEW c \in Sha1Contexts, NEW n \in 0 .. 64
  PROVE  /\ ZerosUpTo(c, n) \in Sha1Contexts /\ ZerosUpTo(c, n).Index = n
         /\ ZerosUpTo(c, n).fed = c.fed
         /\ ZerosUpTo(c, n).Low = c.Low /\ ZerosUpTo(c, n).High = c.High
         /\ \A i \in 1 .. 64 :
              ZerosUpTo(c, n).Block[i] = IF i > c.Index /\ i <= n THEN 0 ELSE c.Block[i]
<1>1. ZerosUpTo(c, n) \in Sha1Contexts /\ ZerosUpTo(c, n).Index = n
  BY ZerosContext
<1> QED
  BY <1>1 DEF ZerosUpTo, Sha1Contexts

LEMMA LengthAre ==
  ASSUME NEW c \in Sha1Contexts
  PROVE  /\ LengthAtEnd(c) \in Sha1Contexts /\ LengthAtEnd(c).fed = c.fed
         /\ \A i \in 1 .. 64 :
              LengthAtEnd(c).Block[i] =
                IF i > 56 THEN (BigEndian(c.High) \o BigEndian(c.Low))[i - 56] ELSE c.Block[i]
<1>1. LengthAtEnd(c) \in Sha1Contexts
  BY LengthContext
<1> DEFINE bytes == BigEndian(c.High) \o BigEndian(c.Low)
<1>2. LengthAtEnd(c) =
        [c EXCEPT !.Block = [i \in 1 .. 64 |-> IF i > 56 THEN bytes[i - 56] ELSE c.Block[i]]]
  BY DEF LengthAtEnd, Sha1Contexts
<1> HIDE DEF bytes
<1>3. /\ LengthAtEnd(c).fed = c.fed
      /\ \A i \in 1 .. 64 :
           LengthAtEnd(c).Block[i] = IF i > 56 THEN bytes[i - 56] ELSE c.Block[i]
  BY <1>2 DEF Sha1Contexts
<1> QED
  BY <1>1, <1>3 DEF bytes

(* A block that holds the message's next 64 bytes is compressed.           *)
LEMMA BlockFed ==
  ASSUME NEW c \in Sha1Contexts, NEW M \in Seq(Cell), NEW h \in Nat, h + 64 <= Len(M),
         c.fed = SubSeq(M, 1, h), \A i \in 1 .. 64 : c.Block[i] = M[h + i]
  PROVE  SHA1ProcessMessageBlock(c).fed = SubSeq(M, 1, h + 64)
<1>1. c.Block \in [1 .. 64 -> Cell]
  BY DEF Sha1Contexts
<1>2. SHA1ProcessMessageBlock(c).fed = c.fed \o c.Block
  BY ProcessContext
<1>3. SubSeq(M, 1, h) \o c.Block = SubSeq(M, 1, h + 64)
  <2> DEFINE b == c.Block
  <2>1. b \in [1 .. 64 -> Cell] /\ \A i \in 1 .. 64 : b[i] = M[h + i]
    BY <1>1
  <2> HIDE DEF b
  <2>2. SubSeq(M, 1, h) \o b = SubSeq(M, 1, h + 64)
    BY <2>1, BlockAppended
  <2> QED
    BY <2>2 DEF b
<1> QED
  BY <1>2, <1>3

(* A context that holds the text's first n bytes and has counted them      *)
(* compresses the padded message: in this block, or in this and the next.  *)
LEMMA PadFeeds ==
  ASSUME NEW c \in Sha1Contexts, c.Index < 64, NEW n \in 0 .. Len(Text),
         Sha1Holds(c, n), Sha1Counts(c, n)
  PROVE  SHA1PadMessage(c).fed = PaddedWith(SubSeq(Text, 1, n), (55 - n) % 64, Sha1Length(n))
<1> DEFINE msg == SubSeq(Text, 1, n)
           z == (55 - n) % 64
           L == Sha1Length(n)
           M == PaddedWith(msg, z, L)
           r == n % 64
           h == n - r
           marked == Put(c, 128)
<1>0. n \in Nat /\ n <= Len(Text) /\ Len(Text) \in Nat
  BY TextBytes
<1>1. msg \in Seq(Cell) /\ Len(msg) = n /\ \A i \in 1 .. n : msg[i] = Text[i]
  <2>1. 0 + n <= Len(Text) /\ 0 \in Nat
    BY <1>0
  <2>2. /\ SubSeq(Text, 0 + 1, 0 + n) \in Seq(Cell) /\ Len(SubSeq(Text, 0 + 1, 0 + n)) = n
        /\ \A i \in 1 .. n : SubSeq(Text, 0 + 1, 0 + n)[i] = Text[0 + i]
    BY <1>0, <2>1, TextBytes, PieceOfText
  <2>3. 0 + 1 = 1 /\ 0 + n = n /\ \A i \in 1 .. n : 0 + i = i
    BY <1>0
  <2> QED
    BY <2>2, <2>3
<1>2. c.Low \in Nat /\ c.High \in Nat /\ L = BigEndian(c.High) \o BigEndian(c.Low)
  BY DigestAssumption DEF Sha1Counts, Sha1Length, Sha1Contexts
<1>3. L \in Seq(Cell) /\ Len(L) = 8
  <2> HIDE DEF L
  <2> DEFINE a == BigEndian(c.High)
             b == BigEndian(c.Low)
  <2>1. a \in Seq(Cell) /\ b \in Seq(Cell) /\ Len(a) = 4 /\ Len(b) = 4 /\ L = a \o b
    BY <1>2, LengthIsBytes
  <2> HIDE DEF a, b
  <2>2. Len(a \o b) = Len(a) + Len(b) /\ a \o b \in Seq(Cell)
    BY ONLY <2>1, Joined
  <2> QED
    BY <2>1, <2>2
<1>4. /\ z \in 0 .. 63 /\ (n + z + 9) % 64 = 0
      /\ r <= 55 => z = 55 - r
      /\ r > 55 => z = 119 - r
  BY <1>0, PadRest
<1>5. r \in 0 .. 63 /\ h \in Nat /\ h + r = n /\ c.Index = r
  BY <1>0 DEF Sha1Holds
<1>6. c.fed = SubSeq(Text, 1, h) /\ \A i \in 1 .. r : c.Block[i] = Text[h + i]
  BY DEF Sha1Holds
<1> HIDE DEF msg, z, L, r, h
<1>7. /\ M \in Seq(Cell) /\ Len(M) = n + z + 9
      /\ \A i \in 1 .. n : M[i] = msg[i]
      /\ M[n + 1] = 128
      /\ \A i \in 1 .. z : M[n + 1 + i] = 0
      /\ \A i \in 1 .. 8 : M[n + 1 + z + i] = L[i]
  <2>1. msg \in Seq(Cell) /\ z \in Nat /\ L \in Seq(Cell) /\ Len(L) = 8 /\ n = Len(msg)
    BY <1>1, <1>3, <1>4
  <2>2. M = PaddedWith(msg, z, L)
    OBVIOUS
  <2> HIDE DEF M
  <2>3. IsPadded(PaddedWith(msg, z, L), msg, z, L)
    BY ONLY <2>1, PaddedParts
  <2> QED
    BY <2>1, <2>2, <2>3 DEF IsPadded
<1> HIDE DEF M
<1>8. M \in Seq(Cell) /\ SubSeq(M, 1, Len(M)) = M
  BY <1>7, SubSeqFull
<1>9. c.fed = SubSeq(M, 1, h)
  <2> DEFINE s == SubSeq(Text, 0 + 1, 0 + h)
  <2>1. h <= n /\ 0 + h <= Len(Text) /\ 0 + h <= Len(M) /\ 0 \in Nat
    BY <1>0, <1>4, <1>5, <1>7
  <2>2. s \in Seq(Cell) /\ Len(s) = h /\ \A i \in 1 .. h : s[i] = Text[0 + i]
    BY <1>5, <2>1, TextBytes, PieceOfText
  <2>3. \A i \in 1 .. h : i \in 1 .. n /\ 0 + i = i
    BY <1>0, <1>5, <2>1
  <2>4. \A i \in 1 .. h : s[i] = M[0 + i]
    BY <1>1, <1>7, <2>2, <2>3
  <2> HIDE DEF s
  <2>5. s = SubSeq(M, 0 + 1, 0 + h)
    BY <1>7, <2>1, <2>2, <2>4, IsPiece
  <2>6. 0 + 1 = 1 /\ 0 + h = h
    BY <1>5
  <2> QED
    BY <1>6, <2>5, <2>6 DEF s
<1>10. /\ marked \in Sha1Contexts /\ marked.Index = r + 1
       /\ marked.fed = c.fed /\ marked.Low = c.Low /\ marked.High = c.High
       /\ \A i \in 1 .. r + 1 : marked.Block[i] = M[h + i]
  <2>1. /\ marked \in Sha1Contexts /\ marked.Index = r + 1
        /\ marked.fed = c.fed /\ marked.Low = c.Low /\ marked.High = c.High
        /\ marked.Block[r + 1] = 128
        /\ \A i \in 1 .. r : marked.Block[i] = c.Block[i]
    BY <1>5, MarkIs
  <2> HIDE DEF marked
  <2>2. ASSUME NEW i \in 1 .. r + 1 PROVE marked.Block[i] = M[h + i]
    <3>1. CASE i = r + 1
      <4>1. h + i = n + 1
        BY <1>0, <1>5, <3>1
      <4> QED
        BY <1>7, <2>1, <3>1, <4>1
    <3>2. CASE i # r + 1
      <4>1. i \in 1 .. r /\ h + i \in 1 .. n
        BY <1>0, <1>5, <3>2
      <4>2. M[h + i] = Text[h + i]
        BY <1>1, <1>7, <4>1
      <4> QED
        BY <1>6, <2>1, <4>1, <4>2
    <3> QED
      BY <3>1, <3>2
  <2> QED
    BY <2>1, <2>2
<1> HIDE DEF marked
<1>11. ASSUME NEW i, i \in r + 2 .. 64, r <= 55 => i <= 56
       PROVE  M[h + i] = 0
  <2> DEFINE j == i - r - 1
  <2>1. j \in 1 .. z /\ n + 1 + j = h + i
    BY <1>0, <1>4, <1>5, <1>11
  <2> HIDE DEF j
  <2>2. M[n + 1 + j] = 0
    BY <1>7, <2>1
  <2> QED
    BY <2>1, <2>2
<1>12. ASSUME NEW t \in Sha1Contexts, t.Low = c.Low, t.High = c.High,
              NEW g \in Nat, g + 64 = Len(M), t.fed = SubSeq(M, 1, g),
              \A i \in 1 .. 56 : t.Block[i] = M[g + i]
       PROVE  SHA1ProcessMessageBlock(LengthAtEnd(t)).fed = M
  <2> DEFINE u == LengthAtEnd(t)
  <2>1. /\ u \in Sha1Contexts /\ u.fed = t.fed
        /\ \A i \in 1 .. 64 : u.Block[i] = IF i > 56 THEN L[i - 56] ELSE t.Block[i]
    BY <1>2, <1>12, LengthAre
  <2> HIDE DEF u
  <2>a. Len(M) = n + z + 9 /\ z \in Nat
    <3>1. Len(M) = n + z + 9
      BY ONLY <1>7
    <3> QED
      BY ONLY <1>4, <3>1
  <2>b. g + 64 = Len(M) /\ g \in Nat
    BY <1>12
  <2>c. n \in Nat
    BY <1>0
  <2>d. g = n + z - 55
    BY ONLY <2>a, <2>b, <2>c
  <2>2. ASSUME NEW i \in 1 .. 64 PROVE u.Block[i] = M[g + i]
    <3>1. CASE i > 56
      <4> DEFINE j == i - 56
      <4>0. g = n + z - 55 /\ z \in Nat
        BY <2>a, <2>d
      <4>1. j \in 1 .. 8 /\ n + 1 + z + j = g + i
        BY <1>0, <3>1, <4>0
      <4>2. u.Block[i] = L[j]
        BY <2>1, <3>1
      <4> HIDE DEF j
      <4>3. M[n + 1 + z + j] = L[j]
        BY <1>7, <4>1
      <4> QED
        BY <4>1, <4>2, <4>3
    <3>2. CASE ~(i > 56)
      <4>1. i \in 1 .. 56
        BY <3>2
      <4> QED
        BY <1>12, <2>1, <3>2, <4>1
    <3> QED
      BY <3>1, <3>2
  <2>3. SHA1ProcessMessageBlock(u).fed = SubSeq(M, 1, g + 64)
    <3>1. g + 64 <= Len(M) /\ u.fed = SubSeq(M, 1, g)
      BY <1>12, <2>1
    <3> QED
      BY <1>8, <2>1, <2>2, <3>1, BlockFed
  <2> QED
    BY <1>8, <1>12, <2>3 DEF u
<1>13. CASE r <= 55
  <2> DEFINE t == ZerosUpTo(marked, 56)
  <2>1. SHA1PadMessage(c) = SHA1ProcessMessageBlock(LengthAtEnd(t))
    BY <1>5, <1>13 DEF SHA1PadMessage, PadFrom, marked
  <2>2. /\ t \in Sha1Contexts /\ t.fed = c.fed /\ t.Low = c.Low /\ t.High = c.High
        /\ \A i \in 1 .. 64 : t.Block[i] = IF i > r + 1 /\ i <= 56 THEN 0 ELSE marked.Block[i]
    <3>1. 56 \in 0 .. 64
      OBVIOUS
    <3> QED
      BY <1>10, <3>1, ZerosAre
  <2> HIDE DEF t
  <2>3. ASSUME NEW i \in 1 .. 56 PROVE t.Block[i] = M[h + i]
    <3>1. CASE i > r + 1
      <4>1. i \in r + 2 .. 64 /\ i <= 56 /\ i \in 1 .. 64
        BY <1>5, <3>1
      <4>2. M[h + i] = 0
        BY <1>11, <4>1
      <4>3. t.Block[i] = 0
        BY <2>2, <3>1, <4>1
      <4> QED
        BY <4>2, <4>3
    <3>2. CASE ~(i > r + 1)
      <4>1. i \in 1 .. r + 1 /\ i \in 1 .. 64
        BY <1>5, <3>2
      <4> QED
        BY <1>10, <2>2, <3>2, <4>1
    <3> QED
      BY <3>1, <3>2
  <2>4. h + 64 = Len(M)
    BY <1>0, <1>4, <1>5, <1>7, <1>13
  <2>5. SHA1ProcessMessageBlock(LengthAtEnd(t)).fed = M
    BY <1>5, <1>9, <1>12, <2>2, <2>3, <2>4
  <2> QED
    BY <2>1, <2>5 DEF M, msg, z, L
<1>14. CASE ~(r <= 55)
  <2> DEFINE full == ZerosUpTo(marked, 64)
             s == SHA1ProcessMessageBlock(full)
             t == ZerosUpTo(s, 56)
             g == h + 64
  <2>1. SHA1PadMessage(c) = SHA1ProcessMessageBlock(LengthAtEnd(t))
    <3>1. c.Index > 55
      BY <1>5, <1>14
    <3> QED
      BY <3>1 DEF SHA1PadMessage, PadFrom, marked
  <2>2. /\ full \in Sha1Contexts /\ full.fed = c.fed /\ full.Low = c.Low /\ full.High = c.High
        /\ \A i \in 1 .. 64 : full.Block[i] = IF i > r + 1 /\ i <= 64 THEN 0 ELSE marked.Block[i]
    <3>1. 64 \in 0 .. 64
      OBVIOUS
    <3> QED
      BY <1>10, <3>1, ZerosAre
  <2> HIDE DEF full
  <2>3. ASSUME NEW i \in 1 .. 64 PROVE full.Block[i] = M[h + i]
    <3>1. CASE i > r + 1
      <4>1. i \in r + 2 .. 64 /\ i <= 64
        BY <1>5, <3>1
      <4>2. M[h + i] = 0
        BY <1>11, <1>14, <4>1
      <4>3. full.Block[i] = 0
        BY <2>2, <3>1, <4>1
      <4> QED
        BY <4>2, <4>3
    <3>2. CASE ~(i > r + 1)
      <4>1. i \in 1 .. r + 1
        BY <1>5, <3>2
      <4> QED
        BY <1>10, <2>2, <3>2, <4>1
    <3> QED
      BY <3>1, <3>2
  <2>4. g + 64 = Len(M) /\ g \in Nat /\ h + 64 <= Len(M)
    BY <1>0, <1>4, <1>5, <1>7, <1>14
  <2>5. s \in Sha1Contexts /\ s.Index = 0 /\ s.fed = SubSeq(M, 1, g)
    <3>1. s \in Sha1Contexts /\ s.Index = 0
      BY <2>2, ProcessContext
    <3>2. s.fed = SubSeq(M, 1, h + 64)
      BY <1>5, <1>8, <1>9, <2>2, <2>3, <2>4, BlockFed
    <3> QED
      BY <3>1, <3>2
  <2>6. s.Low = c.Low /\ s.High = c.High
    BY <2>2 DEF SHA1ProcessMessageBlock, Sha1Contexts
  <2> HIDE DEF s, g
  <2>7. /\ t \in Sha1Contexts /\ t.fed = s.fed /\ t.Low = c.Low /\ t.High = c.High
        /\ \A i \in 1 .. 64 : t.Block[i] = IF i > 0 /\ i <= 56 THEN 0 ELSE s.Block[i]
    <3>1. 56 \in 0 .. 64
      OBVIOUS
    <3> QED
      <4>1. /\ t \in Sha1Contexts /\ t.fed = s.fed /\ t.Low = s.Low /\ t.High = s.High
            /\ \A i \in 1 .. 64 : t.Block[i] = IF i > s.Index /\ i <= 56 THEN 0 ELSE s.Block[i]
        <5>1. s \in Sha1Contexts
          BY <2>5
        <5> QED
          BY ONLY <3>1, <5>1, ZerosAre
      <4> HIDE DEF t
      <4> QED
        BY <2>5, <2>6, <4>1
  <2> HIDE DEF t
  <2>8. ASSUME NEW i \in 1 .. 56 PROVE t.Block[i] = M[g + i]
    <3> DEFINE j == 63 - r + i
    <3>1. j \in 1 .. z /\ n + 1 + j = g + i
      BY <1>0, <1>4, <1>5, <1>14 DEF g
    <3> HIDE DEF j
    <3>2. M[n + 1 + j] = 0
      BY <1>7, <3>1
    <3>3. i \in 1 .. 64 /\ i > 0 /\ i <= 56
      OBVIOUS
    <3> QED
      BY <2>7, <3>1, <3>2, <3>3
  <2>9. SHA1ProcessMessageBlock(LengthAtEnd(t)).fed = M
    BY <1>12, <2>4, <2>5, <2>7, <2>8
  <2> QED
    BY <2>1, <2>9 DEF M, msg, z, L
<1> QED
  BY <1>13, <1>14

(* The inductive invariant of SHA1's implementation of the promise: until  *)
(* the digest is made nobody got one and the counter is exact; after that  *)
(* what was compressed stays what was given.                               *)
Sha1Exact ==
  /\ Sha1IInv
  /\ ~sha.Computed => Sha1Counts(sha, taken) /\ got = <<>>
  /\ sha.Computed => got = sha.fed

LEMMA Sha1ExactStarts == Sha1Start => Sha1Exact
<1> SUFFICES ASSUME Sha1Start PROVE Sha1Exact
  OBVIOUS
<1>1. Sha1IInv
  BY Sha1StartOK
<1>2. sha.Low = 0 /\ sha.High = 0 /\ ~sha.Computed /\ got = <<>> /\ 8 * taken = 0
  BY DEF Sha1Start, SHA1Reset
<1>3. 0 % Word = 0 /\ 0 \div Word = 0
  BY DigestAssumption
<1> QED
  BY <1>1, <1>2, <1>3 DEF Sha1Exact, Sha1Counts

LEMMA Sha1StepOfDigest ==
  ASSUME Sha1Exact, [Sha1Next]_sha1vars
  PROVE  Sha1Exact' /\ [Sha1Promise!Next]_<<taken, got>>
<1>0. /\ Sha1IInv /\ sha \in Sha1Contexts /\ sha.Index < 64
      /\ taken \in 0 .. Len(Text) /\ taken \in Nat /\ Len(Text) \in Nat
      /\ todo \in 0 .. Len(Text) - taken
  BY TextBytes DEF Sha1Exact, Sha1IInv, Sha1TypeOK
<1>1. Sha1IInv'
  BY <1>0, Sha1Inductive
<1>2. ASSUME NEW n \in 1 .. Len(Text) - taken, SHA1Input(n)
      PROVE  Sha1Exact' /\ UNCHANGED <<taken, got>>
  <2>1. taken' = taken /\ got' = got
    BY <1>2 DEF SHA1Input
  <2>2. /\ sha'.Computed = sha.Computed /\ sha'.fed = sha.fed
        /\ sha'.Low = sha.Low /\ sha'.High = sha.High
    BY <1>0, <1>2 DEF SHA1Input, Sha1Contexts
  <2> QED
    BY <1>1, <2>1, <2>2 DEF Sha1Exact, Sha1Counts
<1>3. CASE InputByte
  <2>1. /\ todo > 0 /\ sha' = TakeByte(sha, Text[taken + 1]) /\ taken' = taken + 1
        /\ got' = got
    BY <1>3 DEF InputByte
  <2>2. ~sha.Computed
    BY <2>1 DEF Sha1Exact, Sha1IInv
  <2>3. taken < Len(Text) /\ taken + 1 \in 1 .. Len(Text)
    BY <1>0, <2>1
  <2>4. Text[taken + 1] \in Cell
    BY <2>3, TextBytes
  <2>5. Sha1Counts(sha', taken')
    <3> DEFINE byte == Text[taken + 1]
    <3>1. byte \in Cell /\ Sha1Counts(sha, taken)
      BY <2>2, <2>4 DEF Sha1Exact
    <3> HIDE DEF byte
    <3>2. Sha1Counts(TakeByte(sha, byte), taken + 1)
      BY <1>0, <3>1, TakeByteCounts
    <3> QED
      BY <2>1, <3>2 DEF byte
  <2>6. sha'.Computed = sha.Computed
    <3>1. Sha1Holds(sha, taken)
      BY <2>2 DEF Sha1Exact, Sha1IInv
    <3> QED
      BY <1>0, <2>1, <2>3, <3>1, TakeByteAbsorbs
  <2>7. got = <<>>
    BY <2>2 DEF Sha1Exact
  <2>8. Sha1Promise!Give
    <3>1. 1 \in 1 .. Len(Text) - taken
      BY <1>0, <2>3
    <3> QED
      BY <2>1, <2>7, <3>1 DEF Sha1Promise!Give
  <2>9. Sha1Exact'
    BY <1>1, <2>1, <2>2, <2>5, <2>6, <2>7 DEF Sha1Exact
  <2> QED
    BY <2>8, <2>9 DEF Sha1Promise!Next
<1>4. CASE SHA1Result
  <2>1. taken' = taken
    BY <1>4 DEF SHA1Result
  <2>2. CASE sha.Corrupted = 0 /\ ~sha.Computed
    <3> DEFINE p == SHA1PadMessage(sha)
    <3>1. p \in Sha1Contexts
      BY <1>0, PadContext
    <3>2. /\ sha' = [p EXCEPT !.Block = [i \in 1 .. 64 |-> 0], !.Low = 0, !.High = 0, !.Computed = TRUE]
          /\ got' = sha'.fed
      BY <1>4, <2>2 DEF SHA1Result
    <3> HIDE DEF p
    <3>3. sha'.fed = p.fed /\ sha'.Computed
      BY <3>1, <3>2 DEF Sha1Contexts
    <3>4. p.fed = PaddedWith(SubSeq(Text, 1, taken), (55 - taken) % 64, Sha1Length(taken))
      BY <1>0, <2>2, PadFeeds DEF Sha1Exact, Sha1IInv, p
    <3>5. Len(SubSeq(Text, 1, taken)) = taken
      <4>1. 0 + taken <= Len(Text) /\ 0 \in Nat /\ 0 + 1 = 1 /\ 0 + taken = taken
        BY <1>0
      <4>2. Len(SubSeq(Text, 0 + 1, 0 + taken)) = taken
        BY <1>0, <4>1, TextBytes, PieceOfText
      <4> QED
        BY <4>1, <4>2
    <3>6. p.fed = Sha1Promise!Padded(SubSeq(Text, 1, taken))
      BY <3>4, <3>5 DEF Sha1Promise!Padded, Sha1Promise!Zeros, PaddedWith
    <3>7. got = <<>>
      BY <2>2 DEF Sha1Exact
    <3>8. Sha1Promise!Finish
      BY <2>1, <3>2, <3>3, <3>6, <3>7 DEF Sha1Promise!Finish
    <3>9. Sha1Exact'
      BY <1>1, <3>2, <3>3 DEF Sha1Exact
    <3> QED
      BY <3>8, <3>9 DEF Sha1Promise!Next
  <2>3. CASE sha.Corrupted # 0
    <3>1. sha' = sha /\ got' = got
      BY <1>4, <2>3 DEF SHA1Result
    <3> QED
      BY <1>1, <2>1, <3>1 DEF Sha1Exact, Sha1Counts
  <2>4. CASE sha.Corrupted = 0 /\ sha.Computed
    <3>1. sha' = sha /\ got' = sha.fed
      BY <1>4, <2>4 DEF SHA1Result
    <3>2. got = sha.fed
      BY <2>4 DEF Sha1Exact
    <3> QED
      BY <1>1, <2>1, <3>1, <3>2 DEF Sha1Exact, Sha1Counts
  <2> QED
    BY <2>2, <2>3, <2>4
<1>5. CASE UNCHANGED sha1vars
  BY <1>1, <1>5 DEF sha1vars, Sha1Exact, Sha1Counts
<1> QED
  BY <1>2, <1>3, <1>4, <1>5 DEF Sha1Next

(* SHA1Result gives the digest of exactly the padded message, for any text *)
(* and any cut into portions, and the same one whenever it is asked again; *)
(* what comes after it changes nothing (md5.c:360-453,576-620).            *)
THEOREM Sha1Digests == Sha1Spec => Sha1ImplementsDigest
<1>1. Sha1Start => Sha1Promise!Init
  BY DEF Sha1Start, Sha1Promise!Init
<1>2. Sha1Exact /\ [Sha1Next]_sha1vars => Sha1Exact'
  BY Sha1StepOfDigest
<1>3. Sha1Exact /\ [Sha1Next]_sha1vars => [Sha1Promise!Next]_<<taken, got>>
  BY Sha1StepOfDigest
<1> QED
  BY <1>1, <1>2, <1>3, Sha1ExactStarts, PTL DEF Sha1Spec, Sha1ImplementsDigest, Sha1Promise!Spec
=============================================================================
