--------------------------- MODULE RegexLanguage ---------------------------
(***************************************************************************)
(* What a regular expression means, apart from any way of matching it: the *)
(* reference for module Regex.  An expression is a tree:                   *)
(*                                                                         *)
(*   <<"char", c>>, <<"any">>, <<"class", letter>>, <<"set", C>>,          *)
(*   <<"but", C>>, <<"bol">>, <<"eol">>, <<"seq", e, f>>, <<"or", e, f>>,  *)
(*   <<"group", e>>, and <<"*", e>>, <<"+", e>>, <<"?", e>>, <<"*?", e>>,  *)
(*   <<"+?", e>>                                                           *)
(***************************************************************************)
EXTENDS Integers, Sequences, FiniteSets
LOCAL INSTANCE SequencesExt

CONSTANT ClassChars    \* ClassChars[letter]: the characters of a class

(* The characters of a set, the bracket and the backslash escaped. *)
ShowSet(C) ==
  FlattenSeq([i \in DOMAIN C |-> IF C[i] \in {"]", "\\"} THEN <<"\\", C[i]>> ELSE <<C[i]>>])

(* The expression as wa_match takes it (walib.h:76-97). *)
RECURSIVE Show(_)
Show(e) ==
  CASE e[1] = "char" -> <<e[2]>>
    [] e[1] = "any" -> <<".">>
    [] e[1] = "class" -> <<"\\", e[2]>>
    [] e[1] = "set" -> <<"[">> \o ShowSet(e[2]) \o <<"]">>
    [] e[1] = "but" -> <<"[", "^">> \o ShowSet(e[2]) \o <<"]">>
    [] e[1] = "bol" -> <<"^">>
    [] e[1] = "eol" -> <<"$">>
    [] e[1] = "seq" -> Show(e[2]) \o Show(e[3])
    [] e[1] = "or" -> Show(e[2]) \o <<"|">> \o Show(e[3])
    [] e[1] = "group" -> <<"(">> \o Show(e[2]) \o <<")">>
    [] e[1] \in {"*", "+", "?"} -> Show(e[2]) \o <<e[1]>>
    [] e[1] = "*?" -> Show(e[2]) \o <<"*", "?">>
    [] e[1] = "+?" -> Show(e[2]) \o <<"+", "?">>

(* The characters that an expression for one character stands for. *)
Chars(e, universe) ==
  CASE e[1] = "char" -> {e[2]}
    [] e[1] = "any" -> universe
    [] e[1] = "class" -> ClassChars[e[2]]
    [] e[1] = "set" -> {e[2][i] : i \in DOMAIN e[2]}
    [] e[1] = "but" -> universe \ {e[2][i] : i \in DOMAIN e[2]}

(* Where matches of e in s that begin after i characters may end. *)
RECURSIVE Ends(_, _, _), Repeated(_, _, _)
Ends(e, s, i) ==
  CASE e[1] = "bol" -> IF i = 0 THEN {i} ELSE {}
    [] e[1] = "eol" -> IF i = Len(s) THEN {i} ELSE {}
    [] e[1] = "seq" -> UNION {Ends(e[3], s, j) : j \in Ends(e[2], s, i)}
    [] e[1] = "or" -> Ends(e[2], s, i) \union Ends(e[3], s, i)
    [] e[1] = "group" -> Ends(e[2], s, i)
    [] e[1] = "?" -> {i} \union Ends(e[2], s, i)
    [] e[1] \in {"*", "*?"} -> Repeated(e[2], s, {i})
    [] e[1] \in {"+", "+?"} -> Repeated(e[2], s, Ends(e[2], s, i))
    [] OTHER -> IF i < Len(s) /\ s[i + 1] \in Chars(e, {s[i + 1]}) THEN {i + 1} ELSE {}

(* Where any number of matches of e after one of the ends E may end. *)
Repeated(e, s, E) ==
  LET more == E \union UNION {Ends(e, s, j) : j \in E} IN
    IF more = E THEN E ELSE Repeated(e, s, more)

(* The groups of e in the order of their opening brackets. *)
RECURSIVE Groups(_)
Groups(e) ==
  CASE e[1] = "group" -> <<e[2]>> \o Groups(e[2])
    [] e[1] \in {"seq", "or"} -> Groups(e[2]) \o Groups(e[3])
    [] e[1] \in {"*", "+", "?", "*?", "+?"} -> Groups(e[2])
    [] OTHER -> <<>>

(* The expression and all it is made of. *)
RECURSIVE Parts(_)
Parts(e) ==
  {e} \union CASE e[1] \in {"seq", "or"} -> Parts(e[2]) \union Parts(e[3])
               [] e[1] \in {"group", "*", "+", "?", "*?", "+?"} -> Parts(e[2])
               [] OTHER -> {}

RECURSIVE MatchesEmpty(_)
MatchesEmpty(e) ==
  CASE e[1] \in {"bol", "eol", "*", "*?", "?"} -> TRUE
    [] e[1] = "seq" -> MatchesEmpty(e[2]) /\ MatchesEmpty(e[3])
    [] e[1] = "or" -> MatchesEmpty(e[2]) \/ MatchesEmpty(e[3])
    [] e[1] \in {"group", "+", "+?"} -> MatchesEmpty(e[2])
    [] OTHER -> FALSE

(* Every repetition that a loop makes is of something. *)
LoopsAdvance(e) ==
  \A f \in Parts(e) : f[1] \in {"*", "+", "*?", "+?"} => ~MatchesEmpty(f[2])

(* How many characters and anchors the expression has. *)
RECURSIVE Items(_)
Items(e) ==
  CASE e[1] \in {"seq", "or"} -> Items(e[2]) + Items(e[3])
    [] e[1] \in {"group", "*", "+", "?", "*?", "+?"} -> Items(e[2])
    [] OTHER -> 1

(* No non-greedy loop of e is repeated, and none has more than one item    *)
(* behind it, when n items are behind e.                                   *)
RECURSIVE LazyLast(_, _)
LazyLast(e, n) ==
  CASE e[1] = "seq" -> LazyLast(e[2], n + Items(e[3])) /\ LazyLast(e[3], n)
    [] e[1] = "or" -> LazyLast(e[2], n) /\ LazyLast(e[3], n)
    [] e[1] = "group" -> LazyLast(e[2], n)
    [] e[1] \in {"*", "+", "?"} -> LazyLast(e[2], 2)
    [] e[1] \in {"*?", "+?"} -> n < 2 /\ LazyLast(e[2], 2)
    [] OTHER -> TRUE

(* No group is inside something that a match may go without. *)
RECURSIVE GroupsTaken(_)
GroupsTaken(e) ==
  CASE e[1] = "group" -> GroupsTaken(e[2])
    [] e[1] = "seq" -> GroupsTaken(e[2]) /\ GroupsTaken(e[3])
    [] e[1] \in {"+", "+?"} -> GroupsTaken(e[2])
    [] OTHER -> Groups(e) = <<>>

(* Only single characters are repeated, greedily, and there is no choice.  *)
RECURSIVE Plain(_)
Plain(e) ==
  CASE e[1] = "seq" -> Plain(e[2]) /\ Plain(e[3])
    [] e[1] = "group" -> Plain(e[2])
    [] e[1] \in {"*", "+"} -> e[2][1] \in {"char", "any", "class", "set", "but"}
    [] OTHER -> e[1] \notin {"or", "?", "*?", "+?"}
=============================================================================
