----------------------------- MODULE Encodings -----------------------------
(***************************************************************************)
(* The encodings of lib/md5.c as operators on sequences of bytes, with     *)
(* what lib/extlua.c allocates for them, and the C arrays that bin/pb.c    *)
(* writes.  A base64 character is its index in base64char, or Pad, or      *)
(* Foreign; a base16 character is its byte.                                *)
(***************************************************************************)
EXTENDS Integers, Sequences, SequencesExt

Pad == 64
Foreign == 65
Failed == <<-1>>

(* strlen: a C function takes a text up to its first zero. *)
CString(text) ==
  LET zero == SelectInSeq(text, LAMBDA b : b = 0)
  IN IF zero = 0 THEN text ELSE SubSeq(text, 1, zero - 1)

-----------------------------------------------------------------------------
(* Each three bytes become four characters, the last one or two bytes with *)
(* characters of padding.                                                  *)
wa_base64enc(source) ==
  LET sourcedata == CString(source)
      datalength == Len(sourcedata)
      Byte_(i)   == IF i < datalength THEN sourcedata[i + 1] ELSE 0
      Group(i) == << Byte_(i) \div 4,
                     (Byte_(i) % 4) * 16 + Byte_(i + 1) \div 16,
                     IF i + 1 < datalength
                     THEN (Byte_(i + 1) % 16) * 4 + Byte_(i + 2) \div 64 ELSE Pad,
                     IF i + 2 < datalength THEN Byte_(i + 2) % 64 ELSE Pad >>
  IN FlattenSeq([g \in 1 .. (datalength + 2) \div 3 |-> Group(3 * (g - 1))])

(* What is not in base64char has index -1, whose low six bits are ones. *)
num_strchr(c) == IF c < Pad THEN c ELSE -1

(* Mutation of Ungrouped: padding in the third place does not end a group. *)
UngroupedOn(c) ==
  LET trans == [k \in 1 .. 4 |-> num_strchr(c[k]) % 64]
      third == (trans[3] % 4) * 64 + trans[4]
  IN <<trans[1] * 4 + trans[2] \div 16, (trans[2] % 16) * 16 + trans[3] \div 4>>
       \o (IF c[4] = Pad THEN <<>> ELSE <<third>>)

(* Four characters become one byte, and a second and a third one unless a  *)
(* character of padding ends the group.                                    *)
Ungrouped(c) ==
  LET trans == [k \in 1 .. 4 |-> num_strchr(c[k]) % 64]
      first == trans[1] * 4 + trans[2] \div 16
      second == (trans[2] % 16) * 16 + trans[3] \div 4
      third == (trans[3] % 4) * 64 + trans[4]
  IN IF c[3] = Pad THEN <<first>> ELSE IF c[4] = Pad THEN <<first, second>>
     ELSE <<first, second, third>>

wa_base64dec(base64) ==
  IF Len(base64) % 4 # 0 THEN Failed
  ELSE FlattenSeq([g \in 1 .. Len(base64) \div 4 |-> Ungrouped(SubSeq(base64, 4 * g - 3, 4 * g))])

(* What the functions of Lua allocate, for a text of len bytes. *)
b64encRoom(len) == (len \div 3 + 1) * 4 + 1
b64decRoom(len) == (len \div 4 + 1) * 3 + 1

-----------------------------------------------------------------------------
(* '0'..'9', 'A'..'F', 'a'..'f'; all else counts as 0. *)
chtonum(c) ==
  CASE c \in 48 .. 57 -> c - 48
    [] c \in 65 .. 70 -> c - 55
    [] c \in 97 .. 102 -> c - 87
    [] OTHER -> 0

wa_base16dec(src) ==
  IF Len(src) % 2 # 0 THEN Failed
  ELSE [i \in 1 .. Len(src) \div 2 |-> chtonum(src[2 * i - 1]) * 16 + chtonum(src[2 * i])]

tohex(n) == IF n < 10 THEN 48 + n ELSE 87 + n

wa_base16enc(src) ==
  FlattenSeq([i \in DOMAIN src |-> <<tohex(src[i] \div 16), tohex(src[i] % 16)>>])

-----------------------------------------------------------------------------
(* A C array: numbers, and 0 where a new line begins (numbers are one      *)
(* more).  convFile begins a line before every 16th byte; dyn2str ends the *)
(* array with a zero, which enc_lua does not.                              *)
NewLine == 0
convFile(str) ==
  FlattenSeq([i \in DOMAIN str |->
    IF i % 16 = 1 THEN <<NewLine, str[i] + 1>> ELSE <<str[i] + 1>>])

Zero == <<1>>
dyn2str(file) == convFile(file) \o Zero

(* What the C compiler makes of it. *)
Compiled(text) ==
  FlattenSeq([k \in DOMAIN text |-> IF text[k] = NewLine THEN <<>> ELSE <<text[k] - 1>>])

-----------------------------------------------------------------------------
(* Each decoding gives back what was encoded, up to the first zero for     *)
(* base64, and whatever the case of hexadecimal digits; what Lua allocates *)
(* has room for the result and its zero, for a code word that is foreign   *)
(* or padded anywhere, too; and an array holds a file's bytes and a zero.  *)
Inverts(text) ==
  LET code == wa_base64enc(text)
      hex  == wa_base16enc(text)
      UpperCase == [i \in DOMAIN hex |-> IF hex[i] >= 97 THEN hex[i] - 32 ELSE hex[i]]
      word == [i \in DOMAIN text |-> text[i] % 66]
      RoomFor(c) == c = Failed \/ Len(c) < b64decRoom(Len(word))
  IN /\ wa_base64dec(code) = CString(text)
     /\ Len(code) < b64encRoom(Len(text)) /\ Len(code) % 4 = 0
     /\ wa_base16dec(hex) = text /\ wa_base16dec(UpperCase) = text
     /\ RoomFor(wa_base64dec(word))
     /\ Compiled(dyn2str(text)) = Append(text, 0)
=============================================================================
