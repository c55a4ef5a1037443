----------------------------- MODULE LispIndent -----------------------------
(***************************************************************************)
(* pb's command x: indent_file of bin/pb.c reads a Lisp file piece by      *)
(* piece (a line, or 119 bytes of a longer one), keeps what it has         *)
(* indented in `output', and shows it at each blank line and at the end.   *)
(* Indentation is cut out of a string of spaces that is appended whole.    *)
(* The depth may become negative, which cuts into what is kept.            *)
(***************************************************************************)
EXTENDS Integers, Sequences, FiniteSets, SequencesExt

CONSTANTS
  Pieces,    \* what fgets may give: sequences of characters
  MaxIndent, \* the length of ALLW
  MaxOutput  \* bound: the text of one file (the code's `output' has 8192 bytes)

ASSUME LispAssumption ==
  /\ MaxIndent \in Nat
  /\ Pieces \subseteq Seq(STRING)
  /\ \A piece \in Pieces : piece # <<>> /\ \A i \in 1 .. Len(piece) - 1 : piece[i] # "\n"

VARIABLES
  output,   \* what is indented and not yet shown
  lonely,   \* last_state.lonely: "(" less ")" in the lines so far
  shown,    \* what this file has put on the console
  given,    \* what was read of it
  closed    \* whether some line closed more than was open

lispvars == <<output, lonely, shown, given, closed>>

-----------------------------------------------------------------------------
isspaceline(buf) == \A i \in DOMAIN buf : buf[i] \in {" ", "\t", "\n", "\r"}

Count(text, c) == Cardinality({i \in DOMAIN text : text[i] = c})

(* Mutation of cacu_pathen: a line that closes lists does not count.       *)
cacu_pathenUp(buf) ==
  IF Count(buf, "(") > Count(buf, ")") THEN Count(buf, "(") - Count(buf, ")") ELSE 0

(* What a line adds to the depth. *)
cacu_pathen(buf) == Count(buf, "(") - Count(buf, ")")

(* The line from its first character that is neither space nor tab. *)
pfirst(buf) ==
  SubSeq(buf, SelectInSeq(buf, LAMBDA c : c \notin {" ", "\t"}), Len(buf))

(* ALLW is appended, and a zero put where the indentation ends; one past   *)
(* the end of ALLW changes nothing.                                        *)
Indented ==
  LET end == Len(output) + 2 * lonely
      all == output \o [i \in 1 .. MaxIndent |-> " "]
  IN SubSeq(all, 1, IF end < Len(all) THEN end ELSE Len(all))

(* The end of the last line kept is taken off.  With nothing kept the loop *)
(* looks at the byte before `output', which leaves `output' empty.         *)
Stripped == SubSeq(output, 1, SelectLastInSeq(output, LAMBDA c : c \notin {"\n", "\r"}))

Line(piece) ==
  /\ ~isspaceline(piece)
  /\ Len(output) + 2 * lonely >= 0 \* else the zero is written before `output'
  /\ LET text == pfirst(piece)
     IN output' = (IF text[1] = ")" THEN Stripped ELSE Indented) \o text
  /\ lonely' = lonely + cacu_pathen(piece)
  /\ given' = given \o piece
  /\ closed' = (closed \/ Count(given', "(") < Count(given', ")"))
  /\ UNCHANGED shown

Blank(piece) ==
  /\ isspaceline(piece)
  /\ shown' = shown \o output \o <<"\n">> /\ output' = <<>>
  /\ given' = given \o piece
  /\ UNCHANGED <<lonely, closed>>

indent_file == \E piece \in Pieces :
  Len(given) < MaxOutput /\ (Line(piece) \/ Blank(piece))

(* xlispindent: at the end of a file its text is shown, and the next one   *)
(* begins with nothing kept and no depth.                                  *)
xlispindent ==
  /\ given # <<>>
  /\ output' = <<>> /\ lonely' = 0 /\ shown' = <<>> /\ given' = <<>> /\ closed' = FALSE

LispStart == output = <<>> /\ lonely = 0 /\ shown = <<>> /\ given = <<>> /\ closed = FALSE

LispNext == indent_file \/ xlispindent

-----------------------------------------------------------------------------
Visible(text) ==
  LET upTo[i \in 0 .. Len(text)] ==
        IF i = 0 THEN <<>>
        ELSE IF isspaceline(<<text[i]>>) THEN upTo[i - 1] ELSE Append(upTo[i - 1], text[i])
  IN upTo[Len(text)]

(* In a file that closes only what it has opened, indenting keeps every    *)
(* visible character in its place, and each line that is written, unless   *)
(* it begins with what it closes, is as far to the right as lists are open *)
(* before it, twice, up to the length of ALLW, whatever blank lines, long  *)
(* lines and lines pulled up came in between.                              *)
IndentKeeps ==
  ~closed =>
    LET text == shown \o output
        Begins == {i \in DOMAIN text : text[i] # "\n" /\ (i = 1 \/ text[i - 1] = "\n")}
        First(i) == i - 1 + SelectInSeq(SubSeq(text, i, Len(text)), LAMBDA c : c # " ")
        Depth(i) == Count(SubSeq(text, 1, i - 1), "(") - Count(SubSeq(text, 1, i - 1), ")")
    IN /\ Visible(text) = Visible(given)
       /\ \A i \in Begins : text[First(i)] # ")" =>
            First(i) - i = (IF 2 * Depth(i) < MaxIndent THEN 2 * Depth(i) ELSE MaxIndent)
=============================================================================
