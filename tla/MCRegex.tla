------------------------------ MODULE MCRegex ------------------------------
(***************************************************************************)
(* Patterns of up to three items, with groups, alternatives and every kind *)
(* of repetition, on texts of up to four letters; and what the properties  *)
(* except: loops that repeat the empty string, strings too long for a      *)
(* cell, sets with a negative character, non-greedy loops with more than   *)
(* one item behind them.                                                   *)
(***************************************************************************)
EXTENDS RegexMeaning, TLC

a == <<"char", "a">>
b == <<"char", "b">>
any == <<"any">>
bol == <<"bol">>
eol == <<"eol">>
hi == <<"char", "0xe9">>

Q(q, X) == {<<q, x>> : x \in X}
SeqOf(X, Y) == {<<"seq", x, y>> : x \in X, y \in Y}
Or(x, y) == <<"or", x, y>>

Item == {a, b, any} \union Q("*", {a, any}) \union Q("+", {a, b}) \union Q("?", {b})
Group == Q("group", {a, <<"seq", a, b>>, Or(a, b), Or(a, <<"seq", a, b>>), Or(Or(b, any), a),
                     <<"seq", <<"+", a>>, b>>})
Nested == Q("group", {<<"seq", <<"group", Or(a, b)>>, b>>, <<"group", <<"seq", a, <<"*", b>>>>>>,
                      Or(<<"group", a>>, <<"seq", b, <<"group", any>>>>)})
Nullable == Q("group", {<<"*", a>>, <<"seq", <<"?", a>>, <<"*", b>>>>})
GroupItem == Group \union Nested \union Nullable \union Q("*", Group) \union Q("+", Group)
             \union Q("?", Group \union Nullable)
Lazy == Q("*?", {a, any}) \union Q("+?", {a})
Special == {<<"class", "d">>, <<"set", <<"a", "1">>>>, <<"but", <<"a">>>>, <<"set", <<"b", "]">>>>, <<"char", "1">>}
SpecialItem == Special \union Q("*", Special) \union Q("+", Special)

Body ==
  Item \union SeqOf(Item, Item) \union SeqOf(SeqOf(Item, Item), {a, b, <<"*", a>>})
  \union GroupItem \union SeqOf(Item, GroupItem) \union SeqOf(GroupItem, Item)
  \union Lazy \union SeqOf(Item, Lazy) \union SeqOf(Lazy, {a, b, any})
  \union SpecialItem \union SeqOf(SpecialItem, SpecialItem)
Short == Item \union SeqOf(Item, Item) \union GroupItem

(* Non-greedy loops with more behind them than one instruction. *)
MCLazy == SeqOf(SeqOf({bol}, Lazy), SeqOf({a, b}, {eol}))

(* A character of 0x80 or above. *)
HighSet == {<<"set", <<"a", "0xe9">>>>, <<"but", <<"0xe9">>>>}
HighItem == {hi, <<"but", <<"a">>>>, <<"*", hi>>} \union HighSet \union Q("+", HighSet)

(* What a loop repeats may match the empty string. *)
EmptyLoop ==
  Q("*", Nullable \union {<<"*", a>>, <<"?", a>>}) \union {<<"*?", <<"group", <<"?", a>>>>>>}
  \union Q("+", {<<"*", b>>, <<"group", eol>>, <<"group", Or(a, <<"?", b>>)>>})

(* As many characters as a cell has values. *)
Long == LET run[n \in Nat] == IF n = 1 THEN a ELSE <<"seq", run[n - 1], a>> IN run[CodeSize]
LongLoop == LET run[n \in Nat] == IF n = 1 THEN <<"*", a>> ELSE <<"seq", a, run[n - 1]>> IN run[CodeSize]

MCExpression ==
  Body \union SeqOf({bol}, Short) \union SeqOf(Short, {eol}) \union SeqOf(SeqOf({bol}, Short), {eol})
  \union {Or(x, y) : x, y \in {a, <<"seq", a, b>>, <<"*", b>>}}
  \union MCLazy \union HighItem \union SeqOf(HighItem, {a, hi})
  \union EmptyLoop \union SeqOf(EmptyLoop, {b}) \union {Long, LongLoop}

(* Brackets that do not match, a class in a set, a pattern that the code   *)
(* has no room for, and a backslash before a negative character.           *)
MCWrong ==
  { <<"(", "a">>, <<"a", "(", "(", "b", ")">>, <<"[", "a">>, <<"a", "\\">>,
    <<"a", "\\", "0xe9">>, <<"[", "\\", "0xe9", "]">>, <<"[", "\\", "d", "1", "]">>,
    <<"a", ")">>, <<"(", "a", ")", ")">>,
    <<"a", "*", "a", "*", "a", "*", "a", "*", "a", "*", "a", "*">> }

MCPattern == {Show(e) : e \in MCExpression} \union MCWrong

NoExpression == {}

MCLazyPattern == {Show(e) : e \in MCLazy}

MCText ==
  UNION {[1 .. n -> {"a", "b"}] : n \in 0 .. 3}
  \union {<<"b", "1">>, <<"1", "1", "a">>, <<"]", "b">>, <<"a", "b", "a", "b">>,
          <<"0xe9">>, <<"a", "0xe9">>, <<"0xe9", "b">>}

MCHigh == {"0xe9"}

MCClassChars == [S |-> {"a", "b", "1", "]", "0xe9"}, s |-> {}, d |-> {"1"}, l |-> {"a", "b"}, u |-> {},
                 a |-> {"a", "b"}, w |-> {"a", "b", "1"}]
MCCharsOf == [o \in {Class[c] : c \in DOMAIN Class} |->
                MCClassChars[CHOOSE c \in DOMAIN Class : Class[c] = o]]
=============================================================================
