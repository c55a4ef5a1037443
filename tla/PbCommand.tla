----------------------------- MODULE PbCommand -----------------------------
(***************************************************************************)
(* bin/pb.c: one run of pb.  main takes its command from the command line  *)
(* or from one line of a pipe, cli_entry chooses by the command's first    *)
(* letter, and the commands about Lua drive a state of module LuaBridge.   *)
(* What `xlispindent' does is in module LispIndent, the C arrays of        *)
(* `dyn2str' and `el' are in module Encodings; system() and the Lua        *)
(* interpreter are external.                                               *)
(***************************************************************************)
EXTENDS LuaBridge

CONSTANTS
  Commands, \* the words that a run may be given: argv from main's second on
  Lines     \* the lines that may come from a pipe

ASSUME PbAssumption == Commands \subseteq Seq(Seq(STRING)) /\ Lines \subseteq Seq(STRING)

VARIABLES
  pc,       \* where the run is
  line,     \* the line from the pipe
  argv,     \* the words of the command: cli_entry's argv, whose first is argv[1]
  prgv,     \* the word array of pipe_entry: "none", "held", "freed", or "refused" by malloc
  arg,      \* the script's global table `arg': where it begins, and its strings
  PB_DEBUG, \* whether the environment has it
  encoded   \* what enc_lua turned into C, or <<>>

pbvars == <<pc, line, argv, prgv, arg, PB_DEBUG, encoded>>

argc == Len(argv)
NoArg == [at |-> 0, words |-> <<>>]

Goto(next) == pc' = next
Idle == UNCHANGED <<luavars, prtvars>>

-----------------------------------------------------------------------------
isspace(c) == c \in {" ", "\n"}

(* The second pass of wa_split_args, which notes where a word begins and   *)
(* ends it at the next space; `start' is 0 between words.                  *)
Scanned(input) ==
  LET scan[i \in 0 .. Len(input)] ==
        IF i = 0 THEN [words |-> <<>>, start |-> 0]
        ELSE LET s == scan[i - 1]
             IN IF isspace(input[i])
                THEN IF s.start = 0 THEN s
                     ELSE [words |-> Append(s.words, SubSeq(input, s.start, i - 1)), start |-> 0]
                ELSE IF s.start = 0 THEN [s EXCEPT !.start = i] ELSE s
  IN scan[Len(input)]

(* Mutation of wa_split_args: a last word needs a space behind it.         *)
wa_split_argsOpen(input) == Scanned(input).words

(* The words, the last one also when the line ends with it. *)
wa_split_args(input) ==
  LET s == Scanned(input)
  IN IF s.start = 0 THEN s.words ELSE Append(s.words, SubSeq(input, s.start, Len(input)))

(* main: a command on the command line, or a line on a pipe, which         *)
(* pipe_entry cuts into words and gives to cli_entry (a blank one has no   *)
(* words and no array), or refuses if there is no memory for the array; no *)
(* line, no command.  On a terminal without a command, usage exits.        *)
main ==
  /\ pc = "main"
  /\ \/ \E words \in Commands :
          argv' = words /\ Goto("cli_entry") /\ UNCHANGED <<line, prgv>>
     \/ \E text \in Lines :
          /\ line' = text
          /\ \/ /\ argv' = wa_split_args(text)
                /\ prgv' = IF argv' = <<>> THEN "none" ELSE "held"
                /\ Goto("cli_entry")
             \/ /\ wa_split_args(text) # <<>>
                /\ argv' = <<>> /\ prgv' = "refused" /\ Goto("exited")
     \/ Goto("exited") /\ UNCHANGED <<line, argv, prgv>>
  /\ UNCHANGED <<arg, PB_DEBUG, encoded>> /\ Idle

(* usage ends the process from wherever it is called; the words of a pipe  *)
(* and an open Lua state are left to the system.                           *)
usage == pc' = "exited"

cli_entry ==
  /\ pc = "cli_entry"
  /\ IF argc = 0 THEN usage
     ELSE CASE argv[1][1] \in {"l", "s"} -> Goto("linit")
            [] argv[1][1] = "e" -> IF argc < 2 THEN usage ELSE Goto("enc_lua")
            [] argv[1][1] \in {"a", "x"} -> Goto("return")
            [] argv[1][1] \in {"d", "h"} -> IF argc = 1 THEN usage ELSE Goto("return")
            [] OTHER -> usage
  /\ UNCHANGED <<line, argv, prgv, arg, PB_DEBUG, encoded>> /\ Idle

(* linit: wa_linit and the vendor's libraries, and the stack cleared again. *)
linit ==
  /\ pc = "linit"
  /\ wa_linit
  /\ Goto(IF argv[1][1] = "s" THEN "lsnip" ELSE "run_lua")
  /\ UNCHANGED <<line, argv, prgv, arg, PB_DEBUG, encoded>>

-----------------------------------------------------------------------------
(* 'i' == argv[0][1]; a command of one letter has its zero there. *)
IsLisp == Len(argv[1]) >= 2 /\ argv[1][2] = "i"

(* Mutation of PushWords: the script's name is not among what is pushed.   *)
PushWordsButFirst == SubSeq(argv, 3, argc)

(* The second loop of _lua_dofile: every word after the command. *)
PushWords == SubSeq(argv, 2, argc)

(* The first loop: the table starts at 0 for Lua, with the script's name,  *)
(* and at 1 for fennel, whose compiler takes the place of the script.      *)
ArgTable == [at |-> IF IsLisp THEN 1 ELSE 0, words |-> SubSeq(argv, 2, argc)]

_lua_dofile ==
  /\ arg' = ArgTable
  /\ IF IsLisp
     THEN /\ \E left \in Returns : stack' = stack \o PushWords \o left
          /\ UNCHANGED <<lua, called, prtvars>>
     ELSE \E loads, runs \in BOOLEAN : RunFile(PushWords, argc - 1, loads, runs)

(* What the expression returns, or its error message, is printed by        *)
(* wa_debug_lua and stays on the stack.                                    *)
_lua_expr ==
  \E left \in Returns \union {<<Message>>} :
    /\ stack' = Printed(left)
    /\ pstr' = [pstr EXCEPT !.to = 0]
    /\ UNCHANGED <<heap, held, printed, lua, called>>

_lua_help == stack' = <<<<"table3">>, <<"doc">>>> /\ UNCHANGED <<lua, called, prtvars>>

run_lua ==
  /\ pc = "run_lua"
  /\ IF argc = 1
     THEN /\ \E loads, runs \in BOOLEAN : RunFile(<<>>, 0, loads, runs)
          /\ Goto("lclose") /\ UNCHANGED arg
     ELSE IF ~IsLisp /\ argv[2] = <<"-", "e">>
          THEN /\ IF argc = 2 THEN usage /\ Idle ELSE Goto("lclose") /\ _lua_expr
               /\ UNCHANGED arg
          ELSE IF ~IsLisp /\ argv[2] = <<"-", "h">>
               THEN _lua_help /\ Goto("lclose") /\ UNCHANGED arg
               ELSE _lua_dofile /\ Goto("lclose")
  /\ UNCHANGED <<line, argv, prgv, PB_DEBUG, encoded>>

(* The end of run_lua: the stack is shown if asked for, the state closed.  *)
lclose ==
  /\ pc = "lclose"
  /\ lua = "open" /\ lua' = "closed" /\ stack' = <<>>
  /\ pstr' = IF PB_DEBUG THEN [pstr EXCEPT !.to = 0] ELSE pstr
  /\ Goto("return")
  /\ UNCHANGED <<heap, held, printed, called, line, argv, prgv, arg, PB_DEBUG, encoded>>

(* The snippet tool is a chunk's value; its state is not closed.           *)
lsnip ==
  /\ pc = "lsnip"
  /\ stack' \in Returns \union {<<Message>>}
  /\ pstr' = IF stack' = <<Message>> /\ PB_DEBUG THEN [pstr EXCEPT !.to = 0] ELSE pstr
  /\ Goto("return")
  /\ UNCHANGED <<heap, held, printed, lua, called, line, argv, prgv, arg, PB_DEBUG, encoded>>

-----------------------------------------------------------------------------
(* What lua_dump returns and luac.out holds after it was closed: a value   *)
(* other than a Lua function is refused with 1; a write may fail, and is   *)
(* reported, or fail only in fclose, whose result nobody looks at.         *)
Part == <<"part">>
Dumped(value) ==
  IF value = Chunk THEN {[ret |-> 0, file |-> Chunk], [ret |-> 0, file |-> Part], [ret |-> 1, file |-> Part]}
  ELSE {[ret |-> 1, file |-> <<>>]}

(* What system returns of a compiler of the caller's (argv[2]), and the    *)
(* file it leaves, be it one of an earlier run.                            *)
Left == [ret : {0, 1}, file : {Chunk, Part, <<"old">>}]

Encode(d) == encoded' = IF d.ret = 0 THEN d.file ELSE <<>>

(* With one word, _luac opens a state, compiles the file into it, dumps    *)
(* what luaL_loadfile left, the chunk or an error message, and closes the  *)
(* state.                                                                  *)
enc_lua ==
  /\ pc = "enc_lua"
  /\ IF argc = 2
     THEN /\ lua' = "closed"
          /\ \E value \in {Chunk, Message} : \E d \in Dumped(value) :
               /\ Encode(d)
               /\ pstr' = IF d.ret # 0 /\ PB_DEBUG THEN [pstr EXCEPT !.to = 0] ELSE pstr
     ELSE (\E d \in Left : Encode(d)) /\ UNCHANGED <<lua, pstr>>
  /\ Goto("return")
  /\ UNCHANGED <<stack, called, heap, held, printed, line, argv, prgv, arg, PB_DEBUG>>

(* Back in pipe_entry the words are freed, and main returns. *)
Return ==
  /\ pc = "return"
  /\ Goto("exited")
  /\ prgv' = IF prgv = "held" THEN "freed" ELSE prgv
  /\ UNCHANGED <<line, argv, arg, PB_DEBUG, encoded>> /\ Idle

PbStart ==
  /\ pc = "main" /\ line = <<>> /\ argv = <<>> /\ prgv = "none" /\ arg = NoArg
  /\ PB_DEBUG \in BOOLEAN /\ encoded = <<>>

PbNext ==
  main \/ cli_entry \/ linit \/ run_lua \/ lclose \/ lsnip \/ enc_lua \/ Return

-----------------------------------------------------------------------------
(* The words of a line: the stretches without a space that cannot be made  *)
(* longer, in order.                                                       *)
Inside(text, i) == i \in DOMAIN text /\ ~isspace(text[i])
Begins(text) == {i \in DOMAIN text : Inside(text, i) /\ ~Inside(text, i - 1)}
Ends(text) == {i \in DOMAIN text : Inside(text, i) /\ ~Inside(text, i + 1)}

Rank(S, i) == Cardinality({j \in S : j <= i})
Nth(S, k) == CHOOSE i \in S : Rank(S, i) = k

WordsOf(text) ==
  [k \in 1 .. Cardinality(Begins(text)) |->
     SubSeq(text, Nth(Begins(text), k), Nth(Ends(text), k))]

(* A file runs with what was asked for: lua_pcall calls its chunk, with    *)
(* what was pushed for it, errors go to the traceback below it.  For pb    *)
(* those are the words after the command, on the command line or in a      *)
(* pipe, its own name first, and the table `arg' holds the same ones, with *)
(* the name at 0.                                                          *)
ArgsAgree ==
  /\ CalledInOrder
  /\ line # <<>> /\ prgv # "refused" => argv = WordsOf(line)
  /\ called # NoCall /\ argc > 1 =>
       /\ called.args = SubSeq(argv, 2, argc)
       /\ arg = [at |-> 0, words |-> called.args]
=============================================================================
