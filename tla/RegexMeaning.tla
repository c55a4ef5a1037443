---------------------------- MODULE RegexMeaning ----------------------------
(***************************************************************************)
(* What wa_match promises, stated with the meaning of the expressions that *)
(* the patterns were written from.                                         *)
(***************************************************************************)
EXTENDS Regex, RegexLanguage

CONSTANT Expression    \* the expressions; Pattern holds what they look like

ASSUME ExpressionAssumption == {Show(e) : e \in Expression} \subseteq Pattern

(* The expression that the pattern shows, if it shows one. *)
Shown == {[re |-> Show(e), exp |-> e] : e \in Expression}
Meant == {m.exp : m \in {x \in Shown : x.re = reg}}

Matched == phase = "done" /\ ret = 0
Substring(k) == caps[k].ptr .. caps[k].ptr + caps[k].len

(* No set lists a character that is negative as a char. *)
SetsPositive(e) ==
  \A f \in Parts(e) : f[1] \in {"set", "but"} => \A i \in DOMAIN f[2] : f[2][i] \notin High

(* What the code can be trusted with: a pattern in which nothing is as     *)
(* long as a cell has values, whose sets list no negative character, and   *)
(* whose non-greedy loops are at its end.                                  *)
Ordinary(e) == Len(reg) < CodeSize /\ SetsPositive(e) /\ LazyLast(e, 0)

InLanguage(e) == caps[0].ptr + caps[0].len \in Ends(e, txt, caps[0].ptr)

(* What is reported as a match of an ordinary pattern is one: the text     *)
(* between the ends of sub[0] is in the language of the pattern, however   *)
(* the program's jumps, loops and retries went (regex.c:449-682;           *)
(* walib.h:72).                                                            *)
Sound == Matched => \A e \in Meant : Ordinary(e) => InLanguage(e)

(* So it would be of every pattern, if walib.h:72-97 were to be believed.  *)
AlwaysSound == Matched => \A e \in Meant : InLanguage(e)

(* So is the text of every capture, if no match can go without the group.  *)
(* (regex.c:660-670.)                                                      *)
CapturesSound ==
  Matched => \A e \in Meant :
    Ordinary(e) /\ GroupsTaken(e) =>
      \A k \in DOMAIN Groups(e) :
        /\ caps[k].ptr >= caps[0].ptr
        /\ caps[k].ptr + caps[k].len <= caps[0].ptr + caps[0].len
        /\ caps[k].ptr + caps[k].len \in Ends(Groups(e)[k], txt, caps[k].ptr)

(* Of a plain one the first match is found, if there is one: -1 means that *)
(* there is none (regex.c:449-464,700-706; walib.h:72).                    *)
FirstFound ==
  phase = "done" => \A e \in Meant :
    LET tried == IF anchored THEN {0} ELSE 0 .. Len(txt) - 1
        starts == {i \in tried : Ends(e, txt, i) # {}}
    IN Ordinary(e) /\ Plain(e) => IF starts = {} THEN ret # 0
                   ELSE ret = 0 /\ caps[0].ptr \in starts /\ \A i \in starts : caps[0].ptr <= i

(* How many brackets of the pattern are open after n characters. *)
Depth(n) ==
  Cardinality({i \in 1 .. n : reg[i] = "("}) - Cardinality({i \in 1 .. n : reg[i] = ")"})

NothingCloses == \A n \in DOMAIN reg : Depth(n) >= 0

(* The function returns: a loop stops when its body or the text has been   *)
(* used up, and the compiler when the pattern has (regex.c:449-478,        *)
(* 700-706).  It does not where a bracket is closed that was not opened,   *)
(* or a loop repeats what matches the empty string, be it one of as many   *)
(* characters as a cell has values.                                        *)
Returns ==
  NothingCloses /\ Len(reg) < CodeSize /\ (\A e \in Meant : LoopsAdvance(e))
    => <>(phase \in {"done", "lost"})

(* What walib.h:73 says of the rest: "-11 bracket error".                  *)
BracketRefused == ~NothingCloses => <>(phase = "done" /\ ret = -11)
=============================================================================
