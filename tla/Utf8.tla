------------------------------- MODULE Utf8 -------------------------------
(***************************************************************************)
(* The utf8 functions that lib/extlua.c gives to Lua 5.1 and 5.2, as       *)
(* operators on texts: sequences of bytes, with the zero that C puts       *)
(* behind them.  Positions are Lua's, from 1; `at' counts from 0, as the   *)
(* code does.  A result is a record, or Raised where the code raises an    *)
(* error.                                                                  *)
(***************************************************************************)
EXTENDS Integers, Sequences, SequencesExt

MAXUNICODE == 1114111
Surrogates == 55296 .. 57343
limits == <<128, 2048, 65536, 2097152, 67108864>>

Byte(s, at) == IF at < Len(s) THEN s[at + 1] ELSE 0

iscont(c) == c \div 64 = 2
iscontp(s, at) == iscont(Byte(s, at))

Raised == [raised |-> TRUE]
Invalid == [val |-> -1, next |-> 0]

u_posrelat(pos, len) ==
  IF pos >= 0 THEN pos ELSE IF -pos > len THEN 0 ELSE len + pos + 1

(* How many bits after the first are ones before the first zero: the       *)
(* continuation bytes that a first byte asks for.                          *)
Continuations(c) == Cardinality({n \in 1 .. 7 : c % 128 >= 128 - 2 ^ (7 - n)})

(* Mutation of limits' use: a code point may be longer than it need be.    *)
TooLongNever(res, count) == FALSE

(* A first byte without continuation bytes fails, whatever its value.      *)
TooLong(res, count) == count = 0 \/ res < limits[count]

(* utf8_decode: the code point at `at' and where the next one begins, or   *)
(* Invalid.  The code takes six bits of each continuation byte as it reads *)
(* it, and stops at a byte that is none.                                   *)
utf8_decode(s, at, strict) ==
  LET c     == Byte(s, at)
      count == Continuations(c)
      cc(k) == Byte(s, at + k)
      low[k \in 0 .. count] == IF k = 0 THEN 0 ELSE 64 * low[k - 1] + (cc(k) % 64)
      res   == low[count] + (((c * 2 ^ count) % 128) * 2 ^ (5 * count))
  IN IF c < 128 THEN [val |-> c, next |-> at + 1]
     ELSE IF \/ count > 5 \/ \E k \in 1 .. count : ~iscont(cc(k))
             \/ TooLong(res, count)
             \/ strict /\ (res > MAXUNICODE \/ res \in Surrogates)
          THEN Invalid
          ELSE [val |-> res, next |-> at + count + 1]

(* From `from' on, the code points that begin before `to', or where they   *)
(* stop to be valid: what is known after k times round the loop, which     *)
(* takes a byte at least each time.                                        *)
DecodedUpTo(s, from, to, strict) ==
  LET loop[k \in 0 .. Len(s)] ==
        IF k = 0 THEN [at |-> from, codes |-> <<>>, bad |-> 0]
        ELSE LET w == loop[k - 1]
                 d == utf8_decode(s, w.at, strict)
             IN IF w.at >= to \/ w.bad # 0 THEN w
                ELSE IF d = Invalid THEN [w EXCEPT !.bad = w.at + 1]
                ELSE [w EXCEPT !.at = d.next, !.codes = Append(w.codes, d.val)]
  IN loop[Len(s)]

utflen(s, i, j, lax) ==
  LET posi == u_posrelat(i, Len(s))
      posj == u_posrelat(j, Len(s))
      d    == DecodedUpTo(s, posi - 1, posj, ~lax)
  IN IF ~(1 <= posi /\ posi - 1 <= Len(s) /\ posj - 1 < Len(s)) THEN Raised
     ELSE [n |-> Len(d.codes), bad |-> d.bad]

codepoint(s, i, e, lax) ==
  LET posi == u_posrelat(i, Len(s))
      pose == u_posrelat(e, Len(s))
      d    == DecodedUpTo(s, posi - 1, pose, ~lax)
  IN IF posi < 1 \/ pose > Len(s) THEN Raised
     ELSE IF posi > pose THEN [codes |-> <<>>]
     ELSE IF d.bad # 0 THEN Raised ELSE [codes |-> d.codes]

(* A number that is no code point of Unicode is written as nothing. *)
codepoint_to_utf8(codepoint_) ==
  LET Six(shift) == 128 + ((codepoint_ \div 2 ^ shift) % 64)
  IN CASE codepoint_ <= 127 -> <<codepoint_>>
       [] codepoint_ \in 128 .. 2047 -> <<192 + codepoint_ \div 64, Six(0)>>
       [] codepoint_ \in 2048 .. 65535 -> <<224 + codepoint_ \div 4096, Six(6), Six(0)>>
       [] codepoint_ \in 65536 .. MAXUNICODE ->
            <<240 + codepoint_ \div 262144, Six(12), Six(6), Six(0)>>
       [] OTHER -> <<>>

(* pushutfchar hands on what lies before a zero byte. *)
pushutfchar(code) == IF code = 0 THEN <<>> ELSE codepoint_to_utf8(code)

utfchar(codes) == FlattenSeq([k \in DOMAIN codes |-> pushutfchar(codes[k])])

(* Mutation of Back: the step back stops one byte early.                   *)
BackOne(s, at) == at - 1

(* Where the character begins that ends before `at', and the next one      *)
(* after the one at `at'.                                                  *)
Back(s, at) == Max({p \in 0 .. at - 1 : p = 0 \/ ~iscontp(s, p)})
Forth(s, at) == Min({p \in at + 1 .. Len(s) : ~iscontp(s, p)})

(* n characters on from `at', or back, as far as the text goes: where that *)
(* is and how many are missing.                                            *)
Moved(s, at, n) ==
  LET size == IF n < 0 THEN -n ELSE n
      walk[k \in 0 .. size] ==
        IF k = 0 THEN [at |-> at, left |-> size]
        ELSE LET w == walk[k - 1]
             IN IF n < 0 /\ w.at > 0 THEN [at |-> Back(s, w.at), left |-> w.left - 1]
                ELSE IF n > 0 /\ w.at < Len(s) THEN [at |-> Forth(s, w.at), left |-> w.left - 1]
                ELSE w
  IN walk[size]

byteoffset(s, n, i) ==
  LET posi == u_posrelat(i, Len(s))
      at   == posi - 1
      w    == Moved(s, at, IF n > 0 THEN n - 1 ELSE n)
  IN IF ~(1 <= posi /\ at <= Len(s)) THEN Raised
     ELSE IF n = 0
          THEN [pos |-> 1 + Max({p \in 0 .. at : p = 0 \/ ~iscontp(s, p)})]
          ELSE IF iscontp(s, at) THEN Raised
               ELSE [pos |-> IF w.left = 0 THEN w.at + 1 ELSE 0] \* 0 stands for nil

(* Without an i, from the beginning or from the end. *)
offset(s, n) == byteoffset(s, n, IF n >= 0 THEN 1 ELSE Len(s) + 1)

(* One step of the iterator: n is the position it gave last. *)
iter_aux(s, n, strict) ==
  LET at == Min({p \in n .. Len(s) : ~iscontp(s, p)})
      d  == utf8_decode(s, at, strict)
  IN IF n >= Len(s) \/ at >= Len(s) THEN [pos |-> 0, code |-> 0]
     ELSE IF d = Invalid \/ iscontp(s, d.next) THEN Raised
          ELSE [pos |-> at + 1, code |-> d.val]

(* All that a loop over codes(s) sees, or Raised if it ends with an error: *)
(* the position seen last goes back to the iterator.                       *)
iter_codes(s, lax) ==
  LET loop[k \in 0 .. Len(s)] ==
        IF k = 0 THEN [seen |-> <<>>]
        ELSE LET w    == loop[k - 1]
                 step == iter_aux(s, IF w.seen = <<>> THEN 0 ELSE Last(w.seen).pos, ~lax)
             IN IF w = Raised \/ step = Raised THEN Raised
                ELSE IF step.pos = 0 THEN w ELSE [seen |-> Append(w.seen, step)]
  IN IF iscontp(s, 0) THEN Raised ELSE loop[Len(s)]

-----------------------------------------------------------------------------
(* The well-formed sequences as the Unicode standard tabulates them, by    *)
(* the ranges of their first two bytes.                                    *)
WellFormed(s) ==
  LET a == Byte(s, 0)
      Second == CASE a = 224 -> 160 .. 191 [] a = 237 -> 128 .. 159
                  [] a = 240 -> 144 .. 191 [] a = 244 -> 128 .. 143 [] OTHER -> 128 .. 191
      size == CASE a < 128 -> 1 [] a \in 194 .. 223 -> 2 [] a \in 224 .. 239 -> 3
                [] a \in 240 .. 244 -> 4 [] OTHER -> 0
  IN IF size <= 1 \/ (Byte(s, 1) \in Second /\ \A k \in 2 .. size - 1 : iscontp(s, k))
     THEN size ELSE 0

(* Strictly, exactly the well-formed sequences are decoded, each as long   *)
(* as it is, to the code point whose encoding it is: none that is too      *)
(* long, cut off, a surrogate or beyond Unicode; lax decoding takes no     *)
(* fewer, and agrees on these.                                             *)
DecodesWell(s) ==
  LET d == utf8_decode(s, 0, TRUE)
  IN IF WellFormed(s) = 0 THEN d = Invalid
     ELSE /\ d.next = WellFormed(s)
          /\ s # <<>> => codepoint_to_utf8(d.val) = SubSeq(s, 1, d.next)
          /\ utf8_decode(s, 0, FALSE) = d

Zeroless(s) == FlattenSeq([i \in DOMAIN s |-> IF s[i] = 0 THEN <<>> ELSE <<s[i]>>])

(* The ways to walk through a text agree: len, codes and codepoint find    *)
(* the same characters or all fail; offset finds the k-th from either end  *)
(* where codes saw it, and from the middle of one its beginning; and char  *)
(* puts the text together again (but for zeros, which it drops).           *)
WalksAgree(s, lax) ==
  LET len   == utflen(s, 1, -1, lax)
      codes == iter_codes(s, lax)
      all   == codepoint(s, 1, -1, lax)
  IN IF len.bad # 0
     THEN codes = Raised /\ all = Raised
     ELSE /\ codes # Raised /\ len.n = Len(codes.seen)
          /\ all.codes = [k \in 1 .. len.n |-> codes.seen[k].code]
          /\ \A k \in 1 .. len.n :
               LET here == codes.seen[k].pos
                   end  == IF k = len.n THEN Len(s) ELSE codes.seen[k + 1].pos - 1
               IN /\ offset(s, k).pos = here
                  /\ offset(s, k - len.n - 1).pos = here
                  /\ \A i \in here .. end : byteoffset(s, 0, i).pos = here
                  /\ utflen(s, here, end, lax).n = 1
          /\ offset(s, len.n + 1).pos = Len(s) + 1
          /\ ~lax => utfchar(all.codes) = Zeroless(s)
=============================================================================
