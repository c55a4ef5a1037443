------------------------------ MODULE MCBridge ------------------------------
(***************************************************************************)
(* Small instances of the programs over the console and the bridges.       *)
(***************************************************************************)
EXTENDS Programs

MCArgs == <<<<"f">>, <<"x">>, <<"y">>>>
MCReturns ==
  {<<>>, <<<<"v">>>>, <<<<"table5">>, <<"v">>>>, <<<<"table3">>, <<"table5">>>>, <<<<"table0">>>>}

Lua == <<"l", "u", "a">>
Fennel == <<"l", "i", "s", "p">>
MCCommands ==
  {<<<<"?">>>>, <<<<"a">>>>, <<<<"x">>>>, <<<<"l">>, <<"f">>>>, <<<<"s">>, <<"x">>>>,
   <<<<"h">>>>, <<<<"h">>, <<"m", "f">>>>, <<<<"d">>>>, <<<<"d">>, <<"f">>>>,
   <<<<"e">>>>, <<<<"e">>, <<"f">>>>, <<<<"e">>, <<"f">>, <<"c">>>>,
   <<Lua, <<"-", "h">>>>, <<Lua, <<"-", "e">>>>, <<Lua, <<"-", "e">>, <<"x">>>>}
    \union {<<c>> \o SubSeq(MCArgs, 1, n) : c \in {Lua, Fennel}, n \in 0 .. 3}
MCLines ==
  {<<"\n">>, <<" ", " ", "\n">>, Lua, Lua \o <<"\n">>, <<" ">> \o Lua \o <<" ", " ", "f">>,
   Lua \o <<" ", "f", " ", "x", "y", " ", "\n">>, <<"l", " ", "f", "\n">>, <<"e", " ", "f", "\n">>}
MCFormats ==
  {<<"v">>, <<"i">>, <<"s", "i">>, <<"s", "b", "f">>, <<"i", "x", "i">>, <<"x", "v">>, <<"s", "i", "x">>}
MCInputs == <<"arg1", "arg2", "arg3">>
MCPieces ==
  {<<" ", "\n">>, <<"x", "\n">>, <<"x">>, <<" ", "(", "(", "x", "\n">>, <<"(", "x", ")">>,
   <<" ", ")", "x", "\n">>, <<"x", ")", ")", "\n">>}
=============================================================================
