---------------------------- MODULE RegexProgram ----------------------------
(***************************************************************************)
(* The program that lib/regex.c compiles a pattern into (struct slre), and *)
(* the functions that build it.  Code and data are sequences of cells: an  *)
(* opcode is a string, an operand a number.  Positions of code count from  *)
(* 1; jumps are relative, as in the source.  A cell is an unsigned char.   *)
(***************************************************************************)
EXTENDS Integers, Sequences

CONSTANT
  CodeSize     \* the room for code, the room for data, and the values of a cell: 256

ASSUME ProgramAssumption == CodeSize \in 16 .. 256

(* The characters that end a run of ordinary ones. *)
meta_chars == {"|", ".", "^", "$", "*", "+", "?", "(", ")", "[", "\\"}

(* get_escape_char: what a letter after a backslash stands for; a class of *)
(* characters is the name of its opcode.                                   *)
Class ==
  [S |-> "NONSPACE", s |-> "SPACE", d |-> "DIGIT", l |-> "LOWER", u |-> "UPPER",
   a |-> "ALPHA", w |-> "ALNUM"]
Control == [n |-> "LF", r |-> "CR", t |-> "TAB"]

EscapeChar(c) ==
  IF c \in DOMAIN Control THEN Control[c] ELSE IF c = "0" THEN "NUL" ELSE c

NewProgram == [code |-> <<>>, data |-> <<>>, err |-> "none"]

(* The error strings, as far as wa_match tells them apart. *)
Fail(p, e) == [p EXCEPT !.err = e]

(* No room, or none left by something before.  How the source goes on to   *)
(* compile the rest of a pattern it cannot hold is not represented.        *)
NoRoom(p, n) == p.err = "too long" \/ n > CodeSize

(* Of the operands only those of a string or a set can be too large for    *)
(* their cell; Literal cuts them.                                          *)
Emit(p, cells) ==
  IF NoRoom(p, Len(p.code) + Len(cells)) THEN Fail(p, "too long")
  ELSE [p EXCEPT !.code = @ \o cells]

(* store_char_in_data *)
Store(p, chars) ==
  IF NoRoom(p, Len(p.data) + Len(chars)) THEN Fail(p, "too long")
  ELSE [p EXCEPT !.data = @ \o chars]

(* exact, exact_one_char, and the end of anyof: an instruction for the     *)
(* characters of the data from `from' on.  As many of them as a cell has   *)
(* values look like none.                                                  *)
Literal(p, op, from) ==
  Emit(p, <<op, from % CodeSize, (Len(p.data) - from) % CodeSize>>)

(* Mutation of SetJump: a jump goes one cell too far.                      *)
SetJumpLong(p, at, from) == [p EXCEPT !.code[at] = Len(p.code) + 2 - from]

(* set_jump_offset: the cell at `at' gets the distance from `from' to the  *)
(* end of the code.                                                        *)
SetJump(p, at, from) == [p EXCEPT !.code[at] = Len(p.code) + 1 - from]

(* relocate: the code from `begin' on is ended and moved up, to make room  *)
(* for an instruction of `shift' cells.                                    *)
Relocate(p, begin, shift, op) ==
  LET gap == [i \in 1 .. shift |-> IF i = 1 THEN op ELSE 255]
      all == SubSeq(p.code, 1, begin - 1) \o gap \o SubSeq(p.code, begin, Len(p.code)) \o <<"END">>
  IN IF NoRoom(p, Len(all)) THEN Fail(p, "too long") ELSE [p EXCEPT !.code = all]

(* quantifier: the instruction at prev becomes the body of one.            *)
QuantifyOne(p, prev, op) == SetJump(Relocate(p, prev, 2, op), prev + 1, prev)

(* Mutation of Quantify: the whole of a string is repeated.                *)
QuantifyWhole(p, prev, op) == QuantifyOne(p, prev, op)

(* After a string of several characters, it is for the last one only.      *)
Quantify(p, prev, op) ==
  IF p.code[prev] = "EXACT" /\ p.code[prev + 2] > 1
  THEN LET n == p.code[prev + 2] - 1
           q == [p EXCEPT !.code[prev + 2] = n]
       IN QuantifyOne(Emit(q, <<"EXACT", p.code[prev + 1] + n, 1>>), Len(p.code) + 1, op)
  ELSE QuantifyOne(p, prev, op)

(* The end of a second alternative: the last operand of its branch is set. *)
FixupBranch(p, fixup) ==
  IF fixup > 0 THEN SetJump(Emit(p, <<"END">>), fixup, fixup - 2) ELSE p

(* What has been compiled from `start' on becomes a first alternative.     *)
Branch(p, start) == SetJump(Relocate(p, start, 3, "BRANCH"), start + 1, start)
=============================================================================
