---------------------------- MODULE Compression ----------------------------
(***************************************************************************)
(* The compression functions of lib/md5.c, and the digests they give.  A   *)
(* word of 32 bits is its two halves, <<high, low>>.                       *)
(***************************************************************************)
EXTENDS Integers, Sequences, Bitwise

Half == 65536

Plus(x, y) ==
  LET low == x[2] + y[2] IN <<(x[1] + y[1] + low \div Half) % Half, low % Half>>
Sum4(w, x, y, z) == Plus(Plus(w, x), Plus(y, z))
BAnd(x, y) == <<x[1] & y[1], x[2] & y[2]>>
BOr(x, y)  == <<x[1] | y[1], x[2] | y[2]>>
BXor(x, y) == <<x[1] ^^ y[1], x[2] ^^ y[2]>>
BNot(x)    == <<Half - 1 - x[1], Half - 1 - x[2]>>

(* ROTATE_LEFT, SHA1CircularShift *)
Rotate(x, n) ==
  LET y == IF n < 16 THEN x ELSE <<x[2], x[1]>>
      m == n % 16
  IN <<((y[1] * 2 ^ m) % Half) + y[2] \div 2 ^ (16 - m),
       ((y[2] * 2 ^ m) % Half) + y[1] \div 2 ^ (16 - m)>>

-----------------------------------------------------------------------------
(* MD5Decode: the words of a block, the low byte first.                    *)
MD5Decode(block) ==
  [i \in 1 .. 16 |->
    <<block[4 * i - 1] + 256 * block[4 * i], block[4 * i - 3] + 256 * block[4 * i - 2]>>]

F(x, y, z) == BOr(BAnd(x, y), BAnd(BNot(x), z))
G(x, y, z) == BOr(BAnd(x, z), BAnd(y, BNot(z)))
H(x, y, z) == BXor(BXor(x, y), z)
I(x, y, z) == BXor(y, BOr(x, BNot(z)))

Mix(round, b, c, d) ==
  CASE round = 1 -> F(b, c, d) [] round = 2 -> G(b, c, d)
    [] round = 3 -> H(b, c, d) [] round = 4 -> I(b, c, d)

Shift == <<<<7, 12, 17, 22>>, <<5, 9, 14, 20>>, <<4, 11, 16, 23>>, <<6, 10, 15, 21>>>>

(* The word of the block that each of the 64 steps takes, and its constant. *)
X == <<
   0,  1,  2,  3,  4,  5,  6,  7,  8,  9, 10, 11, 12, 13, 14, 15,
   1,  6, 11,  0,  5, 10, 15,  4,  9, 14,  3,  8, 13,  2,  7, 12,
   5,  8, 11, 14,  1,  4,  7, 10, 13,  0,  3,  6,  9, 12, 15,  2,
   0,  7, 14,  5, 12,  3, 10,  1,  8, 15,  6, 13,  4, 11,  2,  9>>
T == <<
  <<\hD76A, \hA478>>, <<\hE8C7, \hB756>>, <<\h2420, \h70DB>>, <<\hC1BD, \hCEEE>>,
  <<\hF57C, \h0FAF>>, <<\h4787, \hC62A>>, <<\hA830, \h4613>>, <<\hFD46, \h9501>>,
  <<\h6980, \h98D8>>, <<\h8B44, \hF7AF>>, <<\hFFFF, \h5BB1>>, <<\h895C, \hD7BE>>,
  <<\h6B90, \h1122>>, <<\hFD98, \h7193>>, <<\hA679, \h438E>>, <<\h49B4, \h0821>>,
  <<\hF61E, \h2562>>, <<\hC040, \hB340>>, <<\h265E, \h5A51>>, <<\hE9B6, \hC7AA>>,
  <<\hD62F, \h105D>>, <<\h0244, \h1453>>, <<\hD8A1, \hE681>>, <<\hE7D3, \hFBC8>>,
  <<\h21E1, \hCDE6>>, <<\hC337, \h07D6>>, <<\hF4D5, \h0D87>>, <<\h455A, \h14ED>>,
  <<\hA9E3, \hE905>>, <<\hFCEF, \hA3F8>>, <<\h676F, \h02D9>>, <<\h8D2A, \h4C8A>>,
  <<\hFFFA, \h3942>>, <<\h8771, \hF681>>, <<\h6D9D, \h6122>>, <<\hFDE5, \h380C>>,
  <<\hA4BE, \hEA44>>, <<\h4BDE, \hCFA9>>, <<\hF6BB, \h4B60>>, <<\hBEBF, \hBC70>>,
  <<\h289B, \h7EC6>>, <<\hEAA1, \h27FA>>, <<\hD4EF, \h3085>>, <<\h0488, \h1D05>>,
  <<\hD9D4, \hD039>>, <<\hE6DB, \h99E5>>, <<\h1FA2, \h7CF8>>, <<\hC4AC, \h5665>>,
  <<\hF429, \h2244>>, <<\h432A, \hFF97>>, <<\hAB94, \h23A7>>, <<\hFC93, \hA039>>,
  <<\h655B, \h59C3>>, <<\h8F0C, \hCC92>>, <<\hFFEF, \hF47D>>, <<\h8584, \h5DD1>>,
  <<\h6FA8, \h7E4F>>, <<\hFE2C, \hE6E0>>, <<\hA301, \h4314>>, <<\h4E08, \h11A1>>,
  <<\hF753, \h7E82>>, <<\hBD3A, \hF235>>, <<\h2AD7, \hD2BB>>, <<\hEB86, \hD391>>>>

(* One of FF, GG, HH, II on <<a, b, c, d>>; the next step has the names    *)
(* turned by one.                                                          *)
MD5Step(s, i, x) ==
  LET round == ((i - 1) \div 16) + 1
      turn  == ((i - 1) % 4) + 1
      a     == Sum4(s[1], Mix(round, s[2], s[3], s[4]), x[X[i] + 1], T[i])
  IN <<s[4], Plus(Rotate(a, Shift[round][turn]), s[2]), s[2], s[3]>>

(* The steps from lo to hi, in order; by halves, as the recursion of an    *)
(* evaluation must not go as deep as there are steps.                      *)
Iterate(step(_, _), first, last, start) ==
  LET run[lo \in Nat, hi \in Nat, s \in Seq(Nat \X Nat)] ==
        IF lo = hi THEN step(s, lo)
        ELSE LET mid == (lo + hi) \div 2 IN run[mid + 1, hi, run[lo, mid, s]]
  IN run[first, last, start]

(* Mutation of MD5Transform: the result is not added to the state.         *)
MD5TransformBare(state, block) ==
  LET x == MD5Decode(block) IN Iterate(LAMBDA s, i : MD5Step(s, i, x), 1, 64, state)

MD5Transform(state, block) ==
  LET x == MD5Decode(block)
      last == Iterate(LAMBDA s, i : MD5Step(s, i, x), 1, 64, state)
  IN [j \in 1 .. 4 |-> Plus(state[j], last[j])]

MD5State == <<<<\h6745, \h2301>>, <<\hEFCD, \hAB89>>, <<\h98BA, \hDCFE>>, <<\h1032, \h5476>>>>

-----------------------------------------------------------------------------
(* The word sequence of SHA1ProcessMessageBlock, the high byte first.      *)
Words(block) ==
  LET first == [i \in 1 .. 16 |->
        <<256 * block[4 * i - 3] + block[4 * i - 2], 256 * block[4 * i - 1] + block[4 * i]>>]
      Next_(w, t) ==
        Append(w, Rotate(BXor(BXor(w[t - 3], w[t - 8]), BXor(w[t - 14], w[t - 16])), 1))
  IN Iterate(Next_, 17, 80, first)

K == <<<<\h5A82, \h7999>>, <<\h6ED9, \hEBA1>>, <<\h8F1B, \hBCDC>>, <<\hCA62, \hC1D6>>>>

Majority(b, c, d) == BOr(BAnd(b, c), BOr(BAnd(b, d), BAnd(c, d)))

SHA1Step(s, t, w) ==
  LET round == ((t - 1) \div 20) + 1
      f == CASE round = 1 -> F(s[2], s[3], s[4]) [] round = 3 -> Majority(s[2], s[3], s[4])
             [] OTHER -> H(s[2], s[3], s[4])
      temp == Plus(Rotate(s[1], 5), Sum4(f, s[5], w[t], K[round]))
  IN <<temp, s[1], Rotate(s[2], 30), s[3], s[4]>>

SHA1Transform(state, block) ==
  LET w == Words(block)
      last == Iterate(LAMBDA s, t : SHA1Step(s, t, w), 1, 80, state)
  IN [j \in 1 .. 5 |-> Plus(state[j], last[j])]

SHA1State == Append(MD5State, <<\hC3D2, \hE1F0>>)

-----------------------------------------------------------------------------
(* A digest is the state after all blocks; wa_md5 prints each of its words *)
(* from the low byte, wa_sha1 from the high one.                           *)
Chain(transform(_, _), start, fed) ==
  LET after[n \in 0 .. Len(fed) \div 64] ==
        IF n = 0 THEN start
        ELSE transform(after[n - 1], SubSeq(fed, 64 * n - 63, 64 * n))
  IN after[Len(fed) \div 64]

(* The bytes of a digest of n bytes, as MD5Encode and SHA1Result store them. *)
MD5Digest(fed) ==
  LET w == Chain(MD5Transform, MD5State, fed)
  IN [i \in 1 .. 16 |->
       LET half == w[(i + 3) \div 4][IF i % 4 \in {1, 2} THEN 2 ELSE 1]
       IN IF i % 2 = 1 THEN half % 256 ELSE half \div 256]

SHA1Digest(fed) ==
  LET w == Chain(SHA1Transform, SHA1State, fed)
  IN [i \in 1 .. 20 |->
       LET half == w[(i + 3) \div 4][IF i % 4 \in {1, 2} THEN 1 ELSE 2]
       IN IF i % 2 = 1 THEN half \div 256 ELSE half % 256]
=============================================================================
