----------------------------- MODULE LuaBridge -----------------------------
(***************************************************************************)
(* lib/brl.c: a Lua state and the functions that run a file in it, over    *)
(* Lua's stack as the C API sees it (the last element is the top, index 1  *)
(* the bottom), together with what they print through the console.  A C    *)
(* program pushes arguments and calls these functions; bin/pb.c is one     *)
(* (module PbCommand).  The Lua interpreter is external: it loads a chunk  *)
(* or refuses it, and a chunk returns values or raises an error.           *)
(***************************************************************************)
EXTENDS Console, SequencesExt

CONSTANTS
  Args,      \* the words a caller passes to a file, in order
  MaxPushed, \* bound: how many values a caller pushes
  Returns    \* what a chunk or an expression may leave: a set of sequences of values

ASSUME LuaAssumption ==
  /\ Args \in Seq(Seq(STRING)) /\ MaxPushed \in Nat
  /\ Returns \subseteq Seq(Seq(STRING))

VARIABLES
  lua,      \* the state: "none" before wa_linit, "open", or "closed"
  stack,    \* its stack
  called    \* the last lua_pcall of wa_ldofile: its callee, arguments and handler,
            \* and what the caller of wa_ldofile had pushed

luavars == <<lua, stack, called>>

(* A string on the stack is the sequence of its characters; other values   *)
(* are told apart by name, a table by how many entries it has.  The n-th   *)
(* key of a table is taken for a string of n characters, and nil, which    *)
(* comes before the first, for one of none.                                *)
Chunk == <<"chunk">>
Traceback == <<"traceback">>
Message == <<"message">>
Value == <<"value">>
Tables == {<<"table0">>, <<"table3">>, <<"table5">>, <<"table6">>}
Entries(v) ==
  CASE v = <<"table3">> -> 3 [] v = <<"table5">> -> 5 [] v = <<"table6">> -> 6 [] OTHER -> 0
NthKey(n) == [k \in 1 .. n |-> "k"]

NoCall == [fn |-> <<>>, args |-> <<>>, msgh |-> <<>>, pushed |-> <<>>]

(* lua_insert(L, i): the top element moves to index i. *)
Inserted(s, i) ==
  SubSeq(s, 1, i - 1) \o <<s[Len(s)]>> \o SubSeq(s, i, Len(s) - 1)

-----------------------------------------------------------------------------
(* lua_pop(L, 1) *)
Popped(s) == SubSeq(s, 1, Len(s) - 1)

(* lua_next(L, i) takes the key from the top and pushes the next one and   *)
(* its value, if there is one.                                             *)
lua_next(s, i) ==
  LET n == Len(s[Len(s)])
  IN IF n < Entries(s[i]) THEN Popped(s) \o <<NthKey(n + 1), Value>> ELSE Popped(s)

(* Mutation of NextEntry: the value is left on the stack.                  *)
NextEntryKeeps(l, i) ==
  LET s == lua_next(l.s, i)
  IN IF l.more THEN [s |-> s, more |-> Len(s) > Len(l.s)] ELSE l

(* A turn of the loop: lua_next finds no entry and the loop is left, or    *)
(* the value is popped and the key stays for the next turn.                *)
NextEntry(l, i) ==
  LET s == lua_next(l.s, i)
  IN IF ~l.more THEN l
     ELSE IF Len(s) > Len(l.s) THEN [s |-> Popped(s), more |-> TRUE]
     ELSE [s |-> s, more |-> FALSE]

(* Of a table five entries are shown, at most.                             *)
_print_one_lua_val(s, i) ==
  LET Turn(l) == NextEntry(l, i)
      first == [s |-> Append(s, NthKey(0)), more |-> TRUE]
  IN IF s[i] \in Tables THEN Turn(Turn(Turn(Turn(Turn(first))))).s ELSE s

(* From the top as it was on entry down to the bottom. *)
Printed(s) ==
  LET below[k \in 0 .. Len(s)] ==
        IF k = 0 THEN s ELSE _print_one_lua_val(below[k - 1], Len(s) + 1 - k)
  IN below[Len(s)]

(* wa_debug_lua prints to stderr, and then the console goes to stdout,     *)
(* wherever it went before.                                                *)
wa_debug_lua ==
  /\ lua = "open"
  /\ stack' = Printed(stack)
  /\ pstr' = [pstr EXCEPT !.to = 0]
  /\ UNCHANGED <<heap, held, printed, lua, called>>

-----------------------------------------------------------------------------
(* wa_linit: the libraries leave what they like on the stack, px, utf8 and *)
(* the prelude are set up, and the stack is cleared.                       *)
wa_linit ==
  /\ lua = "none"
  /\ lua' = "open" /\ stack' = <<>>
  /\ UNCHANGED <<called, prtvars>>

(* The caller pushes a string for the file it is about to run, or has some *)
(* table of its own on the stack.                                          *)
PushValue(v) ==
  /\ lua = "open" /\ Len(stack) < MaxPushed
  /\ stack' = Append(stack, v)
  /\ UNCHANGED <<lua, called, prtvars>>

(* Where the chunk goes: under its arguments.                              *)
UnderArgs(s, narg) == IF narg > 0 THEN Inserted(s, 1) ELSE s

(* Mutation of HandlerAt: the index of the first argument.                 *)
HandlerAtArgs(s, narg) == Len(s) - narg + 1

(* The index of the chunk, which the handler takes. *)
HandlerAt(s, narg) == Len(s) - narg

(* What lua_pcall(L, narg, ..., base) calls. *)
Pcalled(s, narg, base, words) ==
  [fn |-> s[Len(s) - narg], args |-> SubSeq(s, Len(s) - narg + 1, Len(s)), msgh |-> s[base],
   pushed |-> SubSeq(words, Len(words) - narg + 1, Len(words))]

(* wa_ldofile with `words' on the stack: if the chunk is refused, or       *)
(* raises an error, one line is printed; the stack is cleared on every way *)
(* out.  The chunk is inserted at the bottom, so a caller that passes      *)
(* arguments must have pushed them and nothing else.                       *)
RunFile(words, narg, loads, runs) ==
  LET under == UnderArgs(Append(words, Chunk), narg)
      base  == HandlerAt(under, narg)
      ready == Inserted(Append(under, Traceback), base)
  IN /\ stack' = <<>>
     /\ called' = IF loads THEN Pcalled(ready, narg, base, words) ELSE NoCall
     /\ IF loads /\ runs THEN UNCHANGED prtvars ELSE wa_prtcs(1)
     /\ UNCHANGED lua

wa_ldofile(narg, loads, runs) == lua = "open" /\ RunFile(stack, narg, loads, runs)

wa_lclose ==
  /\ lua = "open"
  /\ lua' = "closed" /\ stack' = <<>>
  /\ UNCHANGED <<called, prtvars>>

(* A program of its own makes any of these calls, runs files with all it   *)
(* has pushed or without arguments, and may look at the stack in between.  *)
LuaStart == lua = "none" /\ stack = <<>> /\ called = NoCall

LuaNext ==
  \/ wa_linit
  \/ Len(stack) < Len(Args) /\ PushValue(Args[Len(stack) + 1])
  \/ \E v \in Tables : PushValue(v)
  \/ \E narg \in {0, Len(stack)}, loads, runs \in BOOLEAN :
       (narg = 0 \/ IsPrefix(stack, Args)) /\ wa_ldofile(narg, loads, runs)
  \/ Len(stack) <= MaxPushed /\ wa_debug_lua
  \/ wa_lclose

-----------------------------------------------------------------------------
(* What lua_pcall calls is the chunk, with all that was pushed for it in   *)
(* order, and errors go to the traceback that lies below it.               *)
CalledInOrder ==
  called # NoCall =>
    called.fn = Chunk /\ called.msgh = Traceback /\ called.args = called.pushed

(* Looking at the stack leaves what is on it where it is, through all that *)
(* lua_next takes and pushes above it (brl.c:110-126); it grows by one key *)
(* for each table of five entries or more.                                 *)
DebugKeeps ==
  [][wa_debug_lua =>
       /\ Len(stack') = Len(stack) + Cardinality({i \in DOMAIN stack : Entries(stack[i]) >= 5})
       /\ SubSeq(stack', 1, Len(stack)) = stack
    ]_<<luavars, prtvars>>
=============================================================================
