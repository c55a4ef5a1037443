-------------------------------- MODULE Regex --------------------------------
(***************************************************************************)
(* wa_match of lib/regex.c: a pattern is compiled, one character of it (or *)
(* one run of ordinary ones) at a step, and its program is then run on the *)
(* text, one instruction at a step.                                        *)
(*                                                                         *)
(* Both parts are recursive in C.  `frames' are the calls of compile that  *)
(* are in progress, `stack' those of match.                                *)
(***************************************************************************)
EXTENDS RegexProgram, FiniteSets

CONSTANTS
  Pattern,     \* the patterns: sequences of characters
  Text,        \* the texts
  CharsOf,     \* CharsOf[op]: the characters of a class, as isspace etc. tell
  High,        \* those that are negative as a char: 0x80 and above, or none
  MaxSub       \* REG_MAXSUB, the room for captures: 10

Quantifiers == {"*", "+", "?"}

(* What stands at i is the second half of an escape. *)
Escaped(p, i) == i > 1 /\ p[i - 1] = "\\" /\ (i = 2 \/ p[i - 2] # "\\")

(* Room for the captures is the caller's business. So is it that a         *)
(* quantifier follows something: neither the beginning, nor a bracket or a *)
(* bar with nothing but anchors behind it.                                 *)
ASSUME RegexAssumption ==
  /\ MaxSub \in Nat \ {0}
  /\ Text \subseteq Seq(STRING)
  /\ High \intersect (meta_chars \union DOMAIN Class \union DOMAIN Control) = {}
  /\ \A p \in Pattern :
       /\ p \in Seq(STRING) \ {<<>>}
       /\ Cardinality({i \in DOMAIN p : p[i] = "("}) < MaxSub
       /\ \A k \in DOMAIN p : p[k] \in Quantifiers =>
            /\ k # 1
            /\ p[k - 1] = "(" => Escaped(p, k - 1)
            /\ \A i \in 1 .. k - 1 :
                 p[i] = "|" /\ (\A j \in i + 1 .. k - 1 : p[j] \in {"^", "$"}) => Escaped(p, i)

VARIABLES
  phase,    \* compile, scan (slre_match), match, done; lost: behind the pattern's
            \* end, or stopped by match's assertion
  reg,      \* the pattern
  re,       \* the position of the character that is compiled next
  prog,     \* the program
  num_caps, \* how many brackets have been opened
  frames,   \* the calls of compile
  set,      \* the set [...] that is being read, if any
  txt,      \* the text
  start,    \* where the present attempt started
  ofs,      \* how far it has come
  stack,    \* the calls of match
  res,      \* the result a call of match is returning: none, 0 or 1
  caps,     \* caps[k]: where capture k starts (-1: not set) and its length
  ret,      \* what wa_match returned
  nsub      \* how many captures it claims

compiler == <<reg, re, prog, num_caps, frames, set>>
matcher == <<txt, start, ofs, stack, res, caps>>
result == <<ret, nsub>>
vars == <<phase, reg, re, prog, num_caps, frames, set, txt, start, ofs, stack, res, caps, ret, nsub>>

NoCapture == [ptr |-> -1, len |-> 0]
NoSet == [op |-> "none", from |-> 0]

Init ==
  /\ phase = "compile"
  /\ reg \in Pattern /\ re = 1
  /\ prog = Emit(NewProgram, <<"OPEN", 0>>)
  /\ num_caps = 0 /\ frames = <<>> /\ set = NoSet
  /\ txt = <<>> /\ start = 0 /\ ofs = 0 /\ stack = <<>> /\ res = "none"
  /\ caps = [k \in 0 .. MaxSub - 1 |-> NoCapture]
  /\ ret = 0 /\ nsub = 0

(***************************************************************************)
(* compile                                                                 *)
(***************************************************************************)
Top == frames[Len(frames)]
Caller == SubSeq(frames, 1, Len(frames) - 1)
ReplaceTop(f) == [frames EXCEPT ![Len(frames)] = f]
End(p) == Len(p.code) + 1

(* A call begins where the code ends now. *)
Frame(p, level) == [last_op |-> End(p), branch_start |-> End(p), fixup |-> 0, level |-> level]

(* The character at re is c, within a call of compile and outside a set. *)
At(c) ==
  /\ phase = "compile" /\ prog.err # "too long"
  /\ frames # <<>> /\ set = NoSet
  /\ re <= Len(reg) /\ reg[re] = c

(* The next character becomes an instruction of one cell. *)
Single(cells) == prog' = Emit(prog, cells) /\ re' = re + 1

(* A quantifier would be for what is emitted now. *)
MarkLast == frames' = ReplaceTop([Top EXCEPT !.last_op = End(prog)])

(* slre_compile calls compile as long as there is pattern left. *)
Enter ==
  /\ phase = "compile" /\ prog.err # "too long"
  /\ frames = <<>> /\ re <= Len(reg)
  /\ frames' = <<Frame(prog, num_caps)>>
  /\ UNCHANGED <<re, prog, num_caps, set>>

(* ^ and $ are not what a quantifier is for. *)
Anchor ==
  /\ \/ At("^") /\ Single(<<"BOL">>)
     \/ At("$") /\ Single(<<"EOL">>)
  /\ UNCHANGED <<num_caps, frames, set>>

AnyChar ==
  /\ At(".") /\ Single(<<"ANY">>)
  /\ MarkLast
  /\ UNCHANGED <<num_caps, set>>

(* get_escape_char keeps the sign of a character that it does not know,    *)
(* and what is above its low byte is taken for an opcode: 0xff, no one's.  *)
Escape ==
  /\ At("\\") /\ re < Len(reg)
  /\ LET c == reg[re + 1] IN
       prog' = IF c \in DOMAIN Class THEN Emit(prog, <<Class[c]>>)
               ELSE IF c \in High THEN Emit(prog, <<"unknown">>)
               ELSE Literal(Store(prog, <<EscapeChar(c)>>), "EXACT", Len(prog.data))
  /\ re' = re + 2
  /\ MarkLast
  /\ UNCHANGED <<num_caps, set>>

(* A run of ordinary characters, as long as it is. *)
RunEnd(e) ==
  /\ \A i \in re .. e : reg[i] \notin meta_chars
  /\ e < Len(reg) => reg[e + 1] \in meta_chars

Exact ==
  /\ re <= Len(reg) /\ At(reg[re])
  /\ \E e \in re .. Len(reg) :
       /\ RunEnd(e)
       /\ prog' = Literal(Store(prog, SubSeq(reg, re, e)), "EXACT", Len(prog.data))
       /\ re' = e + 1
  /\ MarkLast
  /\ UNCHANGED <<num_caps, set>>

(* anyof: [ or [^ opens a set. *)
SetOpen ==
  /\ At("[")
  /\ LET but == re < Len(reg) /\ reg[re + 1] = "^" IN
       /\ set' = [op |-> IF but THEN "ANYBUT" ELSE "ANYOF", from |-> Len(prog.data)]
       /\ re' = IF but THEN re + 2 ELSE re + 1
  /\ MarkLast
  /\ UNCHANGED <<prog, num_caps>>

InSet == phase = "compile" /\ prog.err # "too long" /\ set # NoSet

SetChar ==
  /\ InSet /\ re <= Len(reg) /\ reg[re] \notin {"]", "\\"}
  /\ prog' = Store(prog, <<reg[re]>>)
  /\ re' = re + 1
  /\ UNCHANGED <<num_caps, frames, set>>

(* A class is stored as a zero and its opcode, which matching does not     *)
(* look for.                                                               *)
SetEscape ==
  /\ InSet /\ re < Len(reg) /\ reg[re] = "\\"
  /\ LET c == reg[re + 1] IN
       prog' = Store(prog, IF c \in DOMAIN Class THEN <<"NUL", Class[c]>>
                           ELSE IF c = "0" THEN <<"NUL", "NUL">> ELSE <<EscapeChar(c)>>)
  /\ re' = re + 2
  /\ UNCHANGED <<num_caps, frames, set>>

SetClose ==
  /\ InSet /\ re <= Len(reg) /\ reg[re] = "]"
  /\ prog' = Literal(prog, set.op, set.from)
  /\ re' = re + 1
  /\ set' = NoSet
  /\ UNCHANGED <<num_caps, frames>>

SetUnclosed ==
  /\ InSet /\ re > Len(reg)
  /\ prog' = Fail(prog, "bracket")
  /\ set' = NoSet
  /\ UNCHANGED <<re, num_caps, frames>>

Open ==
  /\ At("(")
  /\ num_caps' = num_caps + 1
  /\ LET p == Emit(prog, <<"OPEN", num_caps + 1>>) IN
       /\ prog' = p
       /\ frames' = Append(ReplaceTop([Top EXCEPT !.last_op = End(prog)]), Frame(p, num_caps + 1))
  /\ re' = re + 1
  /\ UNCHANGED set

(* Mutation of CloseBracket: the last bracket opened is closed. *)
CloseBracketLast ==
  /\ At(")") /\ Len(frames) > 1
  /\ prog' = Emit(FixupBranch(prog, Top.fixup), <<"CLOSE", num_caps>>)
  /\ frames' = Caller
  /\ re' = re + 1
  /\ UNCHANGED <<num_caps, set>>

(* The inner call returns at the bracket and the outer one goes on; a      *)
(* call's level is the number of its bracket.                              *)
CloseBracket ==
  /\ At(")") /\ Len(frames) > 1
  /\ prog' = Emit(FixupBranch(prog, Top.fixup), <<"CLOSE", Top.level>>)
  /\ frames' = Caller
  /\ re' = re + 1
  /\ UNCHANGED <<num_caps, set>>

(* The outermost call returns to slre_compile, in front of the bracket. *)
Unbalanced ==
  /\ At(")") /\ Len(frames) = 1
  /\ LET p == FixupBranch(prog, Top.fixup) IN
       prog' = IF Top.level = 0 THEN Fail(p, "bracket") ELSE p
  /\ frames' = <<>>
  /\ UNCHANGED <<re, num_caps, set>>

(* ? makes the + or * before it non-greedy. *)
Repeat ==
  /\ At("*") \/ At("+")
  /\ LET lazy == re < Len(reg) /\ reg[re + 1] = "?"
         kind == IF reg[re] = "*" THEN IF lazy THEN "STARQ" ELSE "STAR"
                                  ELSE IF lazy THEN "PLUSQ" ELSE "PLUS"
     IN /\ prog' = Quantify(prog, Top.last_op, kind)
        /\ re' = IF lazy THEN re + 2 ELSE re + 1
  /\ UNCHANGED <<num_caps, frames, set>>

Optional ==
  /\ At("?")
  /\ prog' = Quantify(prog, Top.last_op, "QUEST")
  /\ re' = re + 1
  /\ UNCHANGED <<num_caps, frames, set>>

Alternative ==
  /\ At("|")
  /\ prog' = Branch(FixupBranch(prog, Top.fixup), Top.branch_start)
  /\ frames' = ReplaceTop([Top EXCEPT !.fixup = Top.branch_start + 2])
  /\ re' = re + 1
  /\ UNCHANGED <<num_caps, set>>

(* The pattern's end, in the outermost call. *)
PatternEnd ==
  /\ phase = "compile" /\ prog.err # "too long" /\ set = NoSet
  /\ Len(frames) = 1 /\ re > Len(reg)
  /\ frames' = <<>>
  /\ UNCHANGED <<re, prog, num_caps, set>>

(* In an inner call: its caller looks for the bracket, steps behind the    *)
(* pattern's terminating zero and returns; there, compilation may end by   *)
(* chance, or go on with whatever the memory holds.                        *)
Unclosed ==
  /\ phase = "compile" /\ prog.err # "too long" /\ set = NoSet
  /\ Len(frames) > 1 /\ re > Len(reg)
  /\ prog' = Fail(prog, "bracket")
  /\ frames' = <<>>
  /\ phase' \in {"compile", "lost"}
  /\ UNCHANGED <<reg, re, num_caps, set, matcher, result>>

(* So does a backslash at the very end. *)
EscapeEnd ==
  /\ phase = "compile" /\ prog.err # "too long" /\ frames # <<>>
  /\ re = Len(reg) /\ reg[re] = "\\"
  /\ phase' = "lost"
  /\ UNCHANGED <<compiler, matcher, result>>

(***************************************************************************)
(* wa_match                                                                *)
(***************************************************************************)
Finish(r, n) == phase' = "done" /\ ret' = r /\ nsub' = n

(* slre_compile ends the program; wa_match reports an error, or goes on. *)
Compiled ==
  /\ phase = "compile" /\ prog.err # "too long" /\ frames = <<>> /\ re > Len(reg)
  /\ LET p == IF Len(prog.code) > 2 /\ prog.code[3] = "BRANCH" THEN FixupBranch(prog, 5) ELSE prog
         q == Emit(p, <<"CLOSE", 0, "END">>)
     IN /\ prog' = q
        /\ CASE q.err = "none" -> phase' = "scan" /\ txt' \in Text /\ UNCHANGED result
             [] q.err = "bracket" -> Finish(-11, nsub) /\ UNCHANGED txt
             [] OTHER -> UNCHANGED <<phase, txt, result>>
  /\ UNCHANGED <<reg, re, num_caps, frames, set, start, ofs, stack, res, caps>>

(* A pattern the program has no room for is refused as too long, or for a  *)
(* later bracket; at worst, code is moved into the memory behind it.       *)
TooLong ==
  /\ phase = "compile" /\ prog.err = "too long"
  /\ \/ Finish(-12, nsub)
     \/ Finish(-11, nsub)
     \/ phase' = "lost" /\ UNCHANGED result
  /\ UNCHANGED <<compiler, matcher>>

anchored == reg[1] = "^"

Call(pc, keep) == [pc |-> pc, keep |-> keep, wait |-> "run", saved |-> 0, matched |-> 0]

(* slre_match: the program is tried from each position of the text, or     *)
(* from the first one only.                                                *)
Try ==
  /\ phase = "scan"
  /\ anchored \/ start < Len(txt)
  /\ phase' = "match"
  /\ ofs' = start
  /\ stack' = <<Call(1, TRUE)>> /\ res' = "none"
  /\ UNCHANGED <<compiler, txt, start, caps, result>>

NoMatch ==
  /\ phase = "scan"
  /\ ~anchored /\ start >= Len(txt)
  /\ Finish(-1, 0)
  /\ UNCHANGED <<compiler, matcher>>

(* The captures are counted up to the first empty one. *)
CaptureCount ==
  LET full == {k \in 0 .. MaxSub : \A j \in 0 .. k - 1 : caps[j].len # 0}
  IN CHOOSE k \in full : \A j \in full : j <= k

Tried ==
  /\ phase = "match" /\ stack = <<>>
  /\ IF res = "yes" THEN Finish(0, CaptureCount) /\ UNCHANGED start
     ELSE IF anchored THEN Finish(-1, 0) /\ UNCHANGED start
     ELSE start' = start + 1 /\ phase' = "scan" /\ UNCHANGED result
  /\ UNCHANGED <<compiler, txt, ofs, stack, res, caps>>

(***************************************************************************)
(* match: one instruction                                                  *)
(***************************************************************************)
t == stack[Len(stack)]
op == prog.code[t.pc]
Arg(n) == prog.code[t.pc + n]

(* The topmost call of match is at an instruction. *)
Running == phase = "match" /\ stack # <<>> /\ res = "none" /\ t.wait = "run"

ReplaceT(f) == [stack EXCEPT ![Len(stack)] = f]
Goto(pc) == stack' = ReplaceT([t EXCEPT !.pc = pc, !.wait = "run"])
Return(r) == stack' = SubSeq(stack, 1, Len(stack) - 1) /\ res' = r

(* The instruction is done, with result r: the next one is at pc. *)
Go(r, pc) == IF r THEN Goto(pc) /\ UNCHANGED res ELSE Return("no")

(* The instruction calls match for the code at pc, and waits in w. *)
Wait(w, saved, matched, pc, keep) ==
  /\ stack' = Append(ReplaceT([t EXCEPT !.wait = w, !.saved = saved, !.matched = matched]),
                     Call(pc, keep))
  /\ res' = "none"

Rest(n) == SubSeq(txt, ofs + 1, ofs + n)
String == SubSeq(prog.data, Arg(1) + 1, Arg(1) + Arg(2))

EndCode ==
  /\ Running /\ op = "END"
  /\ Return("yes")

MatchExact ==
  /\ Running /\ op = "EXACT"
  /\ LET ok == Arg(2) <= Len(txt) - ofs /\ Rest(Arg(2)) = String IN
       /\ ofs' = IF ok THEN ofs + Arg(2) ELSE ofs
       /\ Go(ok, t.pc + 3)

(* ANY and the classes, isspace etc. *)
MatchClass ==
  /\ Running /\ op \in {"ANY"} \union {Class[c] : c \in DOMAIN Class}
  /\ LET ok == ofs < Len(txt) /\ (op = "ANY" \/ txt[ofs + 1] \in CharsOf[op]) IN
       /\ ofs' = IF ok THEN ofs + 1 ELSE ofs
       /\ Go(ok, t.pc + 1)

(* is_any_of, is_any_but: the text's character has a sign, those of the    *)
(* set have none.                                                          *)
MatchSet ==
  /\ Running /\ op \in {"ANYOF", "ANYBUT"}
  /\ LET chars == {String[i] : i \in DOMAIN String}
         ok == ofs < Len(txt) /\ (txt[ofs + 1] \in chars \ High <=> op = "ANYOF")
     IN /\ ofs' = IF ok THEN ofs + 1 ELSE ofs
        /\ Go(ok, t.pc + 3)

MatchAnchor ==
  /\ Running /\ op \in {"BOL", "EOL"}
  /\ Go(ofs = (IF op = "BOL" THEN 0 ELSE Len(txt)), t.pc + 1)

(* Captures are kept by the calls that were given the array. *)
MatchBracket ==
  /\ Running /\ op \in {"OPEN", "CLOSE"}
  /\ LET k == Arg(1) IN
       caps' = IF ~t.keep THEN caps
               ELSE IF op = "OPEN" THEN [caps EXCEPT ![k].ptr = ofs]
               ELSE [caps EXCEPT ![k].len = ofs - caps[k].ptr]
  /\ Goto(t.pc + 2)
  /\ UNCHANGED res

(* BRANCH and QUEST try their first block; a loop tries its body, PLUS and *)
(* PLUSQ once with the captures kept.                                      *)
MatchBranch ==
  /\ Running /\ op = "BRANCH"
  /\ Wait("first", ofs, 0, t.pc + 3, t.keep)

MatchQuest ==
  /\ Running /\ op = "QUEST"
  /\ Wait("quest", ofs, 0, t.pc + 2, t.keep)

MatchPlus ==
  /\ Running /\ op \in {"PLUS", "PLUSQ"}
  /\ Wait("once", 0, 0, t.pc + 2, t.keep)

(* loop_greedy and loop_non_greedy begin. *)
Loop == Wait("body", ofs, ofs, t.pc + 2, FALSE)

MatchStar ==
  /\ Running /\ op \in {"STAR", "STARQ"}
  /\ Loop

(* No instruction: the assertion of the last case stops the program. *)
MatchUnknown ==
  /\ Running /\ op = "unknown"
  /\ phase' = "lost" /\ stack' = <<>>
  /\ UNCHANGED <<compiler, txt, start, ofs, res, caps, result>>

(***************************************************************************)
(* match: a call returns to the instruction that waits for it in w         *)
(***************************************************************************)
Returned(w, r) == phase = "match" /\ stack # <<>> /\ t.wait = w /\ res = r

Resume(pc) == Goto(pc) /\ res' = "none"

(* BRANCH: the second block is tried from where the first one was. *)
FirstFailed ==
  /\ Returned("first", "no")
  /\ ofs' = t.saved
  /\ Wait("second", t.saved, 0, t.pc + Arg(1), t.keep)

BranchMatched ==
  /\ Returned("first", "yes") \/ Returned("second", "yes")
  /\ Resume(t.pc + Arg(2))

(* Neither block, or no first repetition: this call fails too. *)
CallFails ==
  /\ Returned("second", "no") \/ Returned("once", "no")
  /\ Return("no")

QuestDone ==
  /\ Returned("quest", "yes") \/ Returned("quest", "no")
  /\ ofs' = IF res = "yes" THEN ofs ELSE t.saved
  /\ Resume(t.pc + Arg(1))

FirstRepetition ==
  /\ Returned("once", "yes")
  /\ Loop

greedy == op \in {"STAR", "PLUS"}

(* One repetition more: does the code behind the loop match from here? *)
BodyMatched ==
  /\ Returned("body", "yes")
  /\ Wait("rest", ofs, t.matched, t.pc + Arg(1), FALSE)

(* Mutations of GreedyRest: the loop remembers the last repetition, not    *)
(* the last after which the rest matched;                                  *)
GreedyRestForgets ==
  /\ Returned("rest", "yes") \/ Returned("rest", "no")
  /\ greedy
  /\ ofs' = t.saved
  /\ Wait("body", t.saved, t.saved, t.pc + 2, FALSE)

(* the next repetition begins where the rest matched last.                 *)
GreedyRestBack ==
  /\ Returned("rest", "yes") \/ Returned("rest", "no")
  /\ greedy
  /\ ofs' = t.matched
  /\ Wait("body", t.saved, IF res = "yes" THEN t.saved ELSE t.matched, t.pc + 2, FALSE)

(* A greedy loop remembers that it did, and goes on in any case. *)
GreedyRest ==
  /\ Returned("rest", "yes") \/ Returned("rest", "no")
  /\ greedy
  /\ ofs' = t.saved
  /\ Wait("body", t.saved, IF res = "yes" THEN t.saved ELSE t.matched, t.pc + 2, FALSE)

(* A non-greedy loop ends there; *)
LazyMatched ==
  /\ Returned("rest", "yes") /\ ~greedy
  /\ ofs' = t.saved
  /\ Resume(t.pc + Arg(1))

(* otherwise it tries its body again, from where the code behind it came.  *)
LazyGoesOn ==
  /\ Returned("rest", "no") /\ ~greedy
  /\ Wait("body", t.saved, 0, t.pc + 2, FALSE)

(* The body does not match: a greedy loop keeps the most repetitions after *)
(* which the rest matched, a non-greedy one all there were.                *)
BodyFailed ==
  /\ Returned("body", "no")
  /\ ofs' = IF greedy THEN t.matched ELSE t.saved
  /\ Resume(t.pc + Arg(1))

(***************************************************************************)
(* The whole                                                               *)
(***************************************************************************)

(* A character, or a run of them, is compiled. *)
CompileStep ==
  /\ \/ Enter \/ Anchor \/ AnyChar \/ Escape \/ Exact
     \/ SetOpen \/ SetChar \/ SetEscape \/ SetClose \/ SetUnclosed
     \/ Open \/ CloseBracket \/ Unbalanced \/ Repeat \/ Optional \/ Alternative
     \/ PatternEnd
  /\ UNCHANGED <<phase, reg, matcher, result>>

(* An instruction of match that leaves ofs alone. *)
ControlStep ==
  \/ EndCode \/ MatchAnchor \/ MatchBranch \/ MatchQuest \/ MatchPlus \/ MatchStar
  \/ BranchMatched \/ CallFails \/ FirstRepetition \/ BodyMatched \/ LazyGoesOn

(* One that sets it. *)
OffsetStep ==
  \/ MatchExact \/ MatchClass \/ MatchSet
  \/ FirstFailed \/ QuestDone \/ GreedyRest \/ LazyMatched \/ BodyFailed

MatchStep ==
  /\ \/ ControlStep /\ UNCHANGED <<ofs, caps>>
     \/ OffsetStep /\ UNCHANGED caps
     \/ MatchBracket /\ UNCHANGED ofs
  /\ UNCHANGED <<phase, compiler, txt, start, result>>

Next ==
  \/ CompileStep \/ Unclosed \/ EscapeEnd \/ Compiled \/ TooLong
  \/ Try \/ NoMatch \/ Tried \/ MatchStep \/ MatchUnknown

(* The function runs until it returns. *)
Fairness == WF_vars(Next)

Spec == Init /\ [][Next]_vars /\ Fairness

(* The number of cells of an instruction, as the table `opcodes' has it. *)
Width(o) ==
  CASE o \in {"BRANCH", "EXACT", "ANYOF", "ANYBUT"} -> 3
    [] o \in {"OPEN", "CLOSE", "STAR", "PLUS", "STARQ", "PLUSQ", "QUEST"} -> 2
    [] OTHER -> 1

(* An instruction begins there, as one sees walking from the first one. *)
IsInstruction(pc) ==
  LET walk[i \in Nat] == i = pc \/ (i < pc /\ walk[i + Width(prog.code[i])])
  IN pc \in DOMAIN prog.code /\ walk[1]

(***************************************************************************)
(* Properties                                                              *)
(***************************************************************************)

(* Instructions and offsets are inside their arrays: a call of match runs, *)
(* and goes on, at the beginning of an instruction (the source asserts     *)
(* that it is inside the code, regex.c:519-520), and no offset is outside  *)
(* the text.                                                               *)
TypeOK ==
  /\ phase \in {"compile", "scan", "match", "done", "lost"}
  /\ re \in 1 .. Len(reg) + 1
  /\ Len(prog.code) <= CodeSize /\ Len(prog.data) <= CodeSize
  /\ num_caps \in 0 .. MaxSub - 1
  /\ ofs \in 0 .. Len(txt)
  /\ res \in {"none", "yes", "no"}
  /\ ret \in {0, -1, -11, -12} /\ nsub \in 0 .. MaxSub
  /\ stack # <<>> => IsInstruction(t.pc)
  /\ \A n \in DOMAIN stack : stack[n].saved \in 0 .. Len(txt) /\ stack[n].matched \in 0 .. Len(txt)
=============================================================================
