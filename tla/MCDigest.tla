------------------------------ MODULE MCDigest ------------------------------
(***************************************************************************)
(* Small instances of the digests and the other conversions: a text of 130 *)
(* bytes, so that messages end before, at and behind every boundary of two *)
(* blocks and their padding, and a counter's low word of 1024, so that it  *)
(* wraps; texts of a few bytes that are boundaries themselves; and dates   *)
(* along some months.  The digests themselves, which the contexts leave    *)
(* open, are compared for the lengths at the boundaries.                   *)
(***************************************************************************)
EXTENDS Conversions, Compression

MCText == [i \in 1 .. 130 |-> IF i <= 3 THEN 96 + i ELSE (7 * i) % 256]
MCDays ==
  [year : {1999, 2099}, month : {12}, day : {30}] \union [year : {2000, 2023, 2100}, month : {2}, day : {27}]

(* Digests of the text's first n bytes, by an independent implementation;  *)
(* "a" and "abc" are those that lib/utest.c expects.                       *)
KnownMd5(n) ==
  CASE n = 0 -> <<212, 29, 140, 217, 143, 0, 178, 4, 233, 128, 9, 152, 236, 248, 66, 126>>
    [] n = 1 -> <<12, 193, 117, 185, 192, 241, 182, 168, 49, 195, 153, 226, 105, 119, 38, 97>>
    [] n = 3 -> <<144, 1, 80, 152, 60, 210, 79, 176, 214, 150, 63, 125, 40, 225, 127, 114>>
    [] n = 55 -> <<79, 201, 199, 20, 66, 54, 0, 50, 165, 54, 214, 86, 142, 132, 151, 199>>
    [] n = 56 -> <<174, 236, 123, 94, 15, 62, 141, 75, 75, 79, 243, 205, 162, 178, 138, 174>>
    [] n = 63 -> <<132, 171, 102, 140, 81, 204, 32, 101, 208, 27, 3, 105, 104, 148, 43, 208>>
    [] n = 64 -> <<248, 199, 130, 203, 74, 182, 17, 157, 51, 149, 121, 5, 149, 106, 70, 211>>
    [] n = 119 -> <<189, 139, 220, 252, 142, 36, 232, 132, 131, 121, 147, 229, 224, 156, 40, 47>>
    [] n = 120 -> <<250, 71, 204, 97, 177, 62, 178, 205, 12, 124, 133, 16, 4, 3, 53, 39>>
KnownSha1(n) ==
  CASE n = 0 -> <<218, 57, 163, 238, 94, 107, 75, 13, 50, 85, 191, 239, 149, 96, 24, 144, 175, 216, 7, 9>>
    [] n = 1 -> <<134, 247, 228, 55, 250, 165, 167, 252, 225, 93, 29, 220, 185, 234, 234, 234, 55, 118, 103, 184>>
    [] n = 3 -> <<169, 153, 62, 54, 71, 6, 129, 106, 186, 62, 37, 113, 120, 80, 194, 108, 156, 208, 216, 157>>
    [] n = 55 -> <<33, 35, 154, 160, 197, 226, 188, 138, 156, 115, 207, 105, 163, 91, 105, 7, 36, 15, 50, 50>>
    [] n = 56 -> <<153, 51, 30, 72, 9, 218, 63, 209, 90, 60, 7, 54, 130, 127, 223, 29, 19, 148, 76, 250>>
    [] n = 63 -> <<131, 236, 205, 116, 129, 229, 81, 50, 243, 43, 151, 41, 47, 169, 2, 167, 96, 209, 17, 175>>
    [] n = 64 -> <<100, 236, 163, 195, 54, 88, 145, 188, 34, 30, 18, 190, 238, 198, 5, 70, 58, 124, 176, 34>>
    [] n = 119 -> <<214, 61, 105, 183, 43, 80, 1, 135, 98, 183, 171, 67, 208, 197, 127, 189, 45, 15, 255, 98>>
    [] n = 120 -> <<106, 93, 223, 0, 26, 114, 91, 187, 147, 25, 81, 246, 110, 182, 164, 43, 242, 188, 239, 173>>
Known == {0, 1, 3, 55, 56, 63, 64, 119, 120}

(* The digest that comes out is the algorithm's, at the lengths where the  *)
(* padding changes its form: the blocks, their order and the arithmetic    *)
(* together.                                                               *)
KnownDigests ==
  /\ digested /\ given \in Known => MD5Digest(md5.fed) = KnownMd5(given)
  /\ got # <<>> /\ todo = 0 /\ taken \in Known => SHA1Digest(got) = KnownSha1(taken)
=============================================================================
