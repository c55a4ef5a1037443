---------------------------- MODULE BridgeProofs ----------------------------
(***************************************************************************)
(* The console under every program that uses it, and pb.                   *)
(***************************************************************************)
EXTENDS Programs, Induction, SequenceTheorems, FiniteSetTheorems, TLAPS

(* What a step may do to the console; besides its own functions, the Lua   *)
(* bridge and pb print lines through it and send it back to stdout.        *)
Redirect == pstr' = [pstr EXCEPT !.to = 0] /\ UNCHANGED <<heap, held, printed>>

LEMMA ConsoleMoves ==
  ASSUME Next
  PROVE  \/ \E sz \in Sizes \union {-1, 0} : wa_prtto(sz)
         \/ \E n \in Nat : wa_prtcs(n)
         \/ Collect \/ FreeCapture \/ Redirect
         \/ UNCHANGED prtvars
<1> DEFINE Moves == \/ \E sz \in Sizes \union {-1, 0} : wa_prtto(sz)
                    \/ \E n \in Nat : wa_prtcs(n)
                    \/ Collect \/ FreeCapture \/ Redirect
                    \/ UNCHANGED prtvars
<1> SUFFICES Moves
  OBVIOUS
<1> HIDE DEF Moves
<1>1. ASSUME NEW n \in Nat, wa_prtcs(n) PROVE Moves
  BY <1>1 DEF Moves
<1>2. ASSUME NEW words, NEW narg, NEW loads, NEW runs, RunFile(words, narg, loads, runs)
      PROVE  Moves
  <2>1. UNCHANGED prtvars \/ wa_prtcs(1)
    BY <1>2 DEF RunFile
  <2> QED
    BY <2>1, <1>1 DEF Moves
<1>3. CASE Host /\ ConsoleNext
  <2>1. ASSUME NEW n \in 0 .. MaxPrinted, wa_prtcs(n) PROVE Moves
    BY <2>1, <1>1, ConsoleAssumption
  <2> QED
    BY <1>3, <2>1 DEF ConsoleNext, Moves
<1>4. CASE Host /\ LuaNext
  <2>1. CASE wa_debug_lua
    BY <2>1 DEF wa_debug_lua, Redirect, Moves
  <2>2. ASSUME NEW narg, NEW loads, NEW runs, wa_ldofile(narg, loads, runs) PROVE Moves
    BY <2>2, <1>2 DEF wa_ldofile
  <2>3. CASE wa_linit \/ wa_lclose \/ \E v : PushValue(v)
    BY <2>3 DEF wa_linit, wa_lclose, PushValue, Moves
  <2> QED
    BY <1>4, <2>1, <2>2, <2>3 DEF LuaNext
<1>5. CASE Pb
  <2>1. CASE main \/ cli_entry \/ Return
    BY <2>1 DEF main, cli_entry, Return, Idle, Moves
  <2>2. CASE linit
    BY <2>2 DEF linit, wa_linit, Moves
  <2>3. CASE run_lua
    <3>1. CASE _lua_expr
      BY <3>1 DEF _lua_expr, Redirect, Moves
    <3>2. CASE _lua_help
      BY <3>2 DEF _lua_help, Moves
    <3>3. CASE _lua_dofile
      BY <3>3, <1>2 DEF _lua_dofile, Moves, prtvars
    <3>4. CASE Idle
      BY <3>4 DEF Idle, Moves
    <3> QED
      BY <2>3, <1>2, <3>1, <3>2, <3>3, <3>4 DEF run_lua
  <2>4. CASE lclose \/ lsnip \/ enc_lua
    BY <2>4 DEF lclose, lsnip, enc_lua, Redirect, Moves, prtvars
  <2> QED
    BY <1>5, <2>1, <2>2, <2>3, <2>4 DEF Pb, PbNext
<1>6. CASE Js \/ Utest \/ Logging \/ Lisp \/ Scan
  BY <1>6 DEF Js, Utest, Logging, Lisp, Scan, Moves
<1> QED
  BY <1>3, <1>4, <1>5, <1>6 DEF Next, Host

-----------------------------------------------------------------------------
(* What is captured is in a buffer that nobody was handed.                 *)
ConsoleTypeOK ==
  /\ pstr \in [to : Int, len : Nat, cap : Nat, p : Blocks \union {0}]
  /\ DOMAIN heap \subseteq Blocks /\ heap \in [DOMAIN heap -> Seq(Nat)]
  /\ held \subseteq DOMAIN heap
  /\ printed \in Nat

ConsoleIInv ==
  /\ ConsoleTypeOK
  /\ pstr.to > 0 => pstr.p \in DOMAIN heap /\ pstr.p \notin held
  /\ CapturedPrefix

(* A capture with room for `cap' after `upto' numbers were printed, and    *)
(* the n numbers that are printed next.                                    *)
Holds(text, cap, upto) ==
  /\ text \in Seq(Nat) /\ Len(text) < cap
  /\ \A i \in 1 .. Len(text) : text[i] = i
  /\ Len(text) = upto \/ (Len(text) < upto /\ Len(text) = cap - 1)

Following(new, upto, n) ==
  new \in Seq(Nat) /\ Len(new) = n /\ \A i \in 1 .. n : new[i] = upto + i

(* vsnprintf appends to a capture what there is room for.                  *)
LEMMA AppendedText ==
  ASSUME NEW text, NEW cap \in Nat, NEW n \in Nat, NEW old \in Nat, NEW new,
         Holds(text, cap, old), Following(new, old, n)
  PROVE  Holds(Appended(text, Len(text), cap, new), cap, old + n)
<1> USE DEF Holds, Following
<1> DEFINE now == Appended(text, Len(text), cap, new)
<1> DEFINE len == Len(text)
           room == cap - len - 1
           m == IF room < n THEN room ELSE n
           more == SubSeq(new, 1, m)
<1>0. new \in Seq(Nat) /\ Len(new) = n /\ \A i \in 1 .. n : new[i] = old + i
  OBVIOUS
<1>1. /\ len \in Nat /\ SubSeq(text, 1, len) = text
      /\ len < cap /\ (len = old \/ (len < old /\ len = cap - 1))
      /\ \A i \in 1 .. len : text[i] = i
  BY LenProperties, SubSeqFull
<1>a. len = Len(text)
  OBVIOUS
<1> HIDE DEF len
<1>3. m \in Nat /\ m <= n /\ (room < n => m = room) /\ (~(room < n) => m = n) /\ room \in Nat
  BY <1>1
<1>4. more \in Seq(Nat) /\ Len(more) = m /\ \A i \in 1 .. m : more[i] = old + i
  <2>1. \A i \in 1 .. m : i \in 1 .. n /\ new[i] = old + i /\ new[i] \in Nat
    BY <1>3
  <2> HIDE DEF m
  <2>2. /\ more \in Seq(Nat) /\ Len(more) = IF 1 <= m THEN m - 1 + 1 ELSE 0
        /\ \A i \in 1 .. m - 1 + 1 : more[i] = new[1 + i - 1]
    BY <1>3, <2>1, SubSeqProperties
  <2>3. m - 1 + 1 = m /\ (~(1 <= m) => m = 0) /\ \A i \in 1 .. m : 1 + i - 1 = i
    BY <1>3
  <2> QED
    BY <2>1, <2>2, <2>3
<1>5. now = text \o more
  BY <1>1, <1>a DEF Appended, AtMost
<1> HIDE DEF more, m
<1>6. /\ now \in Seq(Nat) /\ Len(now) = len + m
      /\ \A i \in 1 .. len + m : now[i] = IF i <= len THEN text[i] ELSE more[i - len]
  <2>1. /\ text \o more \in Seq(Nat) /\ Len(text \o more) = Len(text) + Len(more)
        /\ \A i \in 1 .. Len(text) + Len(more) :
             (text \o more)[i] = IF i <= Len(text) THEN text[i] ELSE more[i - Len(text)]
    BY <1>4, ConcatProperties
  <2> QED
    BY <2>1, <1>4, <1>5, <1>a
<1>7. len = old \/ (m = 0 /\ len = cap - 1 /\ len < old)
  BY <1>1, <1>3
<1> HIDE DEF room
<1>8. ASSUME NEW i \in 1 .. len + m PROVE now[i] = i
  <2>1. CASE i <= len
    BY <1>1, <1>6, <2>1
  <2>2. CASE ~(i <= len)
    <3>1. i - len \in 1 .. m /\ len = old
      BY <1>1, <1>3, <1>7, <2>2
    <3>2. more[i - len] = old + (i - len) /\ old + (i - len) = i
      BY <1>4, <3>1
    <3> QED
      BY <1>6, <2>2, <3>2
  <2> QED
    BY <2>1, <2>2
<1>9. len + m < cap /\ (len + m = old + n \/ (len + m < old + n /\ len + m = cap - 1))
  BY <1>1, <1>3, <1>7 DEF room
<1> HIDE DEF now, Following, Holds
<1>10. Len(now) = len + m /\ now \in Seq(Nat) /\ \A i \in 1 .. Len(now) : now[i] = i
  BY <1>6, <1>8
<1>11. Holds(now, cap, old + n)
  BY <1>9, <1>10 DEF Holds
<1> QED
  BY <1>11 DEF now

(* Sending the console elsewhere leaves the rest of _pstr.                 *)
LEMMA SentElsewhere ==
  ASSUME NEW p \in [to : Int, len : Nat, cap : Nat, p : Blocks \union {0}], NEW sz \in Int,
         NEW q, q = [p EXCEPT !.to = sz]
  PROVE  /\ q.to = sz /\ q.len = p.len /\ q.cap = p.cap /\ q.p = p.p
         /\ q \in [to : Int, len : Nat, cap : Nat, p : Blocks \union {0}]
  OBVIOUS

LEMMA ConsoleStep ==
  ConsoleIInv /\ [Next]_vars => ConsoleIInv'
<1> SUFFICES ASSUME ConsoleIInv, [Next]_vars PROVE ConsoleIInv'
  OBVIOUS
<1> USE ConsoleAssumption
<1>1. ASSUME NEW sz \in Sizes \union {-1, 0}, wa_prtto(sz) PROVE ConsoleIInv'
  <2>1. CASE sz > 0
    <3>1. PICK b \in Blocks \ DOMAIN heap :
            /\ pstr' = [to |-> sz, len |-> 0, cap |-> sz, p |-> b]
            /\ heap' = [x \in DOMAIN heap \union {b} |-> IF x = b THEN <<>> ELSE heap[x]]
            /\ printed' = 0 /\ UNCHANGED held
      BY <1>1, <2>1 DEF wa_prtto
    <3>2. /\ DOMAIN heap' = DOMAIN heap \union {b} /\ heap'[b] = <<>>
          /\ heap' \in [DOMAIN heap' -> Seq(Nat)]
      BY <3>1 DEF ConsoleIInv, ConsoleTypeOK
    <3>3. sz \in Nat /\ sz \in Int
      BY <2>1
    <3>4. ConsoleTypeOK'
      BY <3>1, <3>2, <3>3 DEF ConsoleIInv, ConsoleTypeOK
    <3>5. pstr'.p = b /\ b \notin held'
      BY <3>1 DEF ConsoleIInv, ConsoleTypeOK
    <3>6. CapturedPrefix'
      BY <2>1, <3>1, <3>2, <3>3 DEF CapturedPrefix
    <3> QED
      BY <3>2, <3>4, <3>5, <3>6 DEF ConsoleIInv
  <2>2. CASE ~(sz > 0)
    <3>1. pstr' = [pstr EXCEPT !.to = sz] /\ heap' = heap /\ held' = held /\ printed' = printed
      BY <1>1, <2>2 DEF wa_prtto
    <3>a. sz \in Int /\ ConsoleTypeOK
      BY DEF ConsoleIInv
    <3>b. /\ pstr'.to = sz
          /\ pstr'.len = pstr.len /\ pstr'.cap = pstr.cap /\ pstr'.p = pstr.p
          /\ pstr' \in [to : Int, len : Nat, cap : Nat, p : Blocks \union {0}]
      BY <3>1, <3>a, SentElsewhere DEF ConsoleTypeOK
    <3>2. /\ pstr'.to = sz
          /\ pstr'.len = pstr.len /\ pstr'.cap = pstr.cap /\ pstr'.p = pstr.p
          /\ ConsoleTypeOK'
      BY <3>1, <3>a, <3>b DEF ConsoleTypeOK
    <3>3. CapturedPrefix'
      BY <2>2, <3>1, <3>2 DEF ConsoleIInv, CapturedPrefix
    <3> QED
      BY <2>2, <3>2, <3>3 DEF ConsoleIInv
  <2> QED
    BY <2>1, <2>2
<1>2. ASSUME NEW n \in Nat, wa_prtcs(n) PROVE ConsoleIInv'
  <2> DEFINE new == [i \in 1 .. n |-> printed + i]
             now == Appended(heap[pstr.p], pstr.len, pstr.cap, new)
  <2>0. printed' = printed + n /\ UNCHANGED held
    BY <1>2 DEF wa_prtcs
  <2>1. CASE pstr.to > 0
    <3>1. heap' = [heap EXCEPT ![pstr.p] = now] /\ pstr' = [pstr EXCEPT !.len = Len(now)]
      BY <1>2, <2>1 DEF wa_prtcs
    <3> DEFINE text == heap[pstr.p]
    <3>2. /\ pstr.p \in DOMAIN heap /\ pstr.p \notin held /\ text \in Seq(Nat)
          /\ pstr.len = Len(text) /\ Len(text) < pstr.cap /\ pstr.cap \in Nat /\ printed \in Nat
          /\ Len(text) <= printed /\ (Len(text) < printed => Len(text) = pstr.cap - 1)
          /\ \A i \in 1 .. Len(text) : text[i] = i
      BY <2>1 DEF ConsoleIInv, ConsoleTypeOK, CapturedPrefix
    <3>3. Len(text) \in Nat
      BY <3>2, LenProperties
    <3> HIDE DEF text
    <3>4. Holds(text, pstr.cap, printed)
      BY <3>2, <3>3 DEF Holds
    <3>a. Following(new, printed, n)
      <4>1. \A i \in 1 .. n : printed + i \in Nat
        BY <3>2
      <4> QED
        BY <4>1, IsASeq DEF Following
    <3>b. now = Appended(text, Len(text), pstr.cap, new)
      BY <3>2 DEF text
    <3> HIDE DEF now, new
    <3>c. Holds(now, pstr.cap, printed + n)
      BY <3>2, <3>4, <3>a, <3>b, AppendedText
    <3>5. /\ now \in Seq(Nat) /\ Len(now) < pstr.cap /\ Len(now) <= printed + n
          /\ \A i \in 1 .. Len(now) : now[i] = i
          /\ Len(now) < printed + n => Len(now) = pstr.cap - 1
      <4>1. now \in Seq(Nat) /\ Len(now) \in Nat
        BY <3>c, LenProperties DEF Holds
      <4> QED
        BY <3>2, <3>c, <4>1 DEF Holds
    <3>6. Len(now) \in Nat
      BY <3>5, LenProperties
    <3>7. /\ DOMAIN heap' = DOMAIN heap /\ heap'[pstr.p] = now
          /\ heap' \in [DOMAIN heap' -> Seq(Nat)]
      BY <3>1, <3>2, <3>5 DEF ConsoleIInv, ConsoleTypeOK
    <3>8. /\ pstr'.len = Len(now) /\ pstr'.to = pstr.to /\ pstr'.cap = pstr.cap /\ pstr'.p = pstr.p
          /\ pstr' \in [to : Int, len : Nat, cap : Nat, p : Blocks \union {0}]
      BY <3>1, <3>6 DEF ConsoleIInv, ConsoleTypeOK
    <3>9. ConsoleTypeOK'
      BY <2>0, <3>2, <3>7, <3>8 DEF ConsoleIInv, ConsoleTypeOK
    <3>10. CapturedPrefix'
      <4>1. DOMAIN now = 1 .. Len(now)
        BY <3>5, LenProperties
      <4> QED
        BY <2>0, <3>5, <3>7, <3>8, <4>1 DEF CapturedPrefix
    <3> QED
      BY <2>0, <3>2, <3>7, <3>8, <3>9, <3>10 DEF ConsoleIInv
  <2>2. CASE ~(pstr.to > 0)
    <3>1. UNCHANGED <<heap, pstr, held>>
      BY <1>2, <2>2 DEF wa_prtcs
    <3>2. ConsoleTypeOK'
      BY <2>0, <3>1 DEF ConsoleIInv, ConsoleTypeOK
    <3>3. CapturedPrefix'
      <4> SUFFICES ASSUME pstr.p \in DOMAIN heap PROVE CapturedPrefix'
        BY <3>1 DEF CapturedPrefix
      <4> DEFINE text == heap[pstr.p]
      <4>1. Len(text) <= printed /\ text \in Seq(Nat) /\ printed \in Nat
        BY DEF ConsoleIInv, ConsoleTypeOK, CapturedPrefix
      <4>2. Len(text) \in Nat
        BY <4>1, LenProperties
      <4>3. Len(text) <= printed + n
        BY <4>1, <4>2
      <4> QED
        BY <2>0, <2>2, <3>1, <4>3 DEF ConsoleIInv, CapturedPrefix
    <3> QED
      BY <2>2, <3>1, <3>2, <3>3 DEF ConsoleIInv
  <2> QED
    BY <2>1, <2>2
<1>3. CASE Collect
  <2>1. /\ pstr' = [pstr EXCEPT !.to = 0] /\ held' = held \union {pstr.p}
        /\ pstr.p \in DOMAIN heap /\ UNCHANGED <<heap, printed>>
    BY <1>3 DEF Collect, wa_prtdup
  <2>2. /\ pstr'.to = 0 /\ pstr'.len = pstr.len /\ pstr'.cap = pstr.cap /\ pstr'.p = pstr.p
        /\ ConsoleTypeOK'
    BY <2>1 DEF ConsoleIInv, ConsoleTypeOK
  <2> QED
    BY <2>1, <2>2 DEF ConsoleIInv, CapturedPrefix
<1>4. CASE FreeCapture
  <2>1. PICK b \in held :
          /\ heap' = [x \in DOMAIN heap \ {b} |-> heap[x]]
          /\ held' = held \ {b} /\ UNCHANGED <<pstr, printed>>
    BY <1>4 DEF FreeCapture
  <2>2. DOMAIN heap' = DOMAIN heap \ {b} /\ \A x \in DOMAIN heap' : heap'[x] = heap[x]
    BY <2>1
  <2>3. ConsoleTypeOK'
    BY <2>1, <2>2 DEF ConsoleIInv, ConsoleTypeOK
  <2>4. CapturedPrefix'
    BY <2>1, <2>2 DEF ConsoleIInv, CapturedPrefix
  <2> QED
    BY <2>1, <2>2, <2>3, <2>4 DEF ConsoleIInv
<1>5. CASE Redirect
  <2>1. /\ pstr' = [pstr EXCEPT !.to = 0]
        /\ heap' = heap /\ held' = held /\ printed' = printed
    BY <1>5 DEF Redirect
  <2>a. ConsoleTypeOK
    BY DEF ConsoleIInv
  <2>2. /\ pstr'.to = 0 /\ pstr'.len = pstr.len /\ pstr'.cap = pstr.cap /\ pstr'.p = pstr.p
        /\ pstr' \in [to : Int, len : Nat, cap : Nat, p : Blocks \union {0}]
    <3>1. pstr \in [to : Int, len : Nat, cap : Nat, p : Blocks \union {0}] /\ 0 \in Int
      BY <2>a DEF ConsoleTypeOK
    <3>2. pstr' = [pstr EXCEPT !.to = 0]
      BY <2>1
    <3> QED
      BY <3>1, <3>2, SentElsewhere
  <2>3. ConsoleTypeOK'
    BY <2>1, <2>2, <2>a DEF ConsoleTypeOK
  <2> QED
    BY <2>1, <2>2, <2>3 DEF ConsoleIInv, CapturedPrefix
<1>6. CASE UNCHANGED prtvars
  BY <1>6 DEF prtvars, ConsoleIInv, ConsoleTypeOK, CapturedPrefix
<1>7. UNCHANGED vars => UNCHANGED prtvars
  BY DEF vars
<1> QED
  BY <1>1, <1>2, <1>3, <1>4, <1>5, <1>6, <1>7, ConsoleMoves

LEMMA ConsoleStarts == Init => ConsoleIInv
<1> SUFFICES ASSUME ConsoleStart PROVE ConsoleIInv
  BY DEF Init
<1>1. /\ pstr = [to |-> 0, len |-> 0, cap |-> 0, p |-> 0]
      /\ heap = [x \in {} |-> <<>>] /\ held = {} /\ printed = 0
  BY DEF ConsoleStart
<1>2. DOMAIN heap = {} /\ heap \in [DOMAIN heap -> Seq(Nat)]
  BY <1>1
<1> QED
  BY <1>1, <1>2 DEF ConsoleIInv, ConsoleTypeOK, CapturedPrefix

(* A capture of any size holds the beginning of what was printed since it  *)
(* began, whatever Lua files and pb print in between and whoever sends the *)
(* console elsewhere.                                                      *)
THEOREM CapturedPrefixAlways == Spec => []CapturedPrefix
<1>1. ConsoleIInv => CapturedPrefix
  BY DEF ConsoleIInv
<1> QED
  BY <1>1, ConsoleStarts, ConsoleStep, PTL DEF Spec

(* No step writes to a text that a caller was handed and has not freed.    *)
THEOREM HandedOutIsKept == Spec => HandedOutKept
<1> DEFINE Kept == \A b \in held \intersect held' : heap'[b] = heap[b]
<1>1. ASSUME ConsoleIInv, [Next]_vars PROVE [Kept]_prtvars
  <2>1. \A b \in held : b \in DOMAIN heap
    BY <1>1 DEF ConsoleIInv, ConsoleTypeOK
  <2>2. ASSUME NEW sz, wa_prtto(sz) PROVE Kept
    <3>1. CASE UNCHANGED heap
      BY <3>1
    <3>2. CASE \E b \in Blocks \ DOMAIN heap :
                 heap' = [x \in DOMAIN heap \union {b} |-> IF x = b THEN <<>> ELSE heap[x]]
      BY <2>1, <3>2
    <3> QED
      BY <2>2, <3>1, <3>2 DEF wa_prtto
  <2>3. ASSUME NEW n \in Nat, wa_prtcs(n) PROVE Kept
    <3>1. CASE UNCHANGED heap
      BY <3>1
    <3>2. CASE pstr.to > 0
      <4>1. pstr.p \notin held
        BY <1>1, <3>2 DEF ConsoleIInv
      <4>2. \A b \in DOMAIN heap : b # pstr.p => heap'[b] = heap[b]
        BY <2>3, <3>2 DEF wa_prtcs
      <4> QED
        BY <2>1, <4>1, <4>2
    <3> QED
      BY <2>3, <3>1, <3>2 DEF wa_prtcs
  <2>4. CASE Collect \/ Redirect \/ UNCHANGED prtvars
    BY <2>4 DEF Collect, wa_prtdup, Redirect, prtvars
  <2>5. CASE FreeCapture
    BY <2>1, <2>5 DEF FreeCapture
  <2>6. UNCHANGED vars => UNCHANGED prtvars
    BY DEF vars
  <2> QED
    BY <1>1, <2>2, <2>3, <2>4, <2>5, <2>6, ConsoleMoves
<1> QED
  BY <1>1, ConsoleStarts, ConsoleStep, PTL DEF Spec, HandedOutKept

-----------------------------------------------------------------------------
(* A call of JavaScript.                                                   *)
LEMMA JsMoves ==
  ASSUME [Next]_vars
  PROVE  JsNext \/ UNCHANGED jsvars
<1>1. CASE Host \/ Pb \/ Utest \/ Logging
  BY <1>1 DEF Host, Pb, Utest, Logging
<1>2. CASE Lisp \/ Scan \/ UNCHANGED vars
  BY <1>2 DEF Lisp, Scan, vars
<1>3. CASE Js
  BY <1>3 DEF Js
<1> QED
  BY <1>1, <1>2, <1>3 DEF Next

(* What can be on the stack of a call.                                     *)
Strings ==
  {Inputs[i] : i \in DOMAIN Inputs}
    \union {"file", "exception", "null", "value", "module", "undefined", "this", "name",
            "function", "object", "method"}

LEMMA StringsAre ==
  /\ "file" \in Strings /\ "exception" \in Strings /\ "null" \in Strings /\ "value" \in Strings
  /\ "module" \in Strings /\ "undefined" \in Strings /\ "this" \in Strings /\ "name" \in Strings
  /\ "function" \in Strings /\ "object" \in Strings /\ "method" \in Strings
  /\ Inputs \in Seq(Strings)
<1>1. Inputs \in Seq(STRING)
  BY FormatsAssumption
<1>2. Len(Inputs) \in Nat /\ Inputs \in [1 .. Len(Inputs) -> STRING] /\ DOMAIN Inputs = 1 .. Len(Inputs)
  BY <1>1, LenProperties
<1>3. Inputs \in [1 .. Len(Inputs) -> Strings]
  BY <1>2 DEF Strings
<1>4. Inputs \in Seq(Strings)
  BY <1>2, <1>3
<1> QED
  BY <1>4 DEF Strings

(* Clearing the stack of a call leaves nothing.                            *)
LEMMA Cleared ==
  ASSUME NEW s \in Seq(Strings)
  PROVE  sf_clearvm(s) = <<>>
<1>1. Len(s) - Len(s) = 0 /\ SubSeq(s, 1, 0) = <<>>
  BY LenProperties, SubSeqEmpty
<1> QED
  BY <1>1 DEF sf_clearvm, Pop

(* js_pcall is given the function, its this and the arguments above them.  *)
LEMMA FrameOnTop ==
  ASSUME NEW s \in Seq(Strings), Len(s) >= 2, NEW a \in Seq(Strings)
  PROVE  PcallFrame(s \o a, Len(a)) = [fn |-> s[Len(s) - 1], this |-> s[Len(s)], args |-> a]
<1> DEFINE n == Len(a)
           m == Len(s)
           all == s \o a
<1>1. n \in Nat /\ m \in Nat /\ m >= 2
  BY LenProperties
<1>2. /\ all \in Seq(Strings) /\ Len(all) = m + n
      /\ \A i \in 1 .. m + n : all[i] = IF i <= m THEN s[i] ELSE a[i - m]
  BY ConcatProperties
<1>3. n = Len(a) /\ DOMAIN a = 1 .. n
  BY LenProperties
<1> HIDE DEF all, n, m
<1>4. all[Len(all) - n - 1] = s[m - 1] /\ all[Len(all) - n] = s[m]
  BY <1>1, <1>2
<1>5. SubSeq(all, Len(all) - n + 1, Len(all)) = a
  <2> DEFINE top == SubSeq(all, m + 1, m + n)
  <2>1. \A i \in m + 1 .. m + n : all[i] \in Strings
    BY <1>1, <1>2, ElementOfSeq
  <2>2. /\ top \in Seq(Strings)
        /\ Len(top) = IF m + 1 <= m + n THEN m + n - (m + 1) + 1 ELSE 0
        /\ \A i \in 1 .. m + n - (m + 1) + 1 : top[i] = all[m + 1 + i - 1]
    BY <1>1, <2>1, SubSeqProperties
  <2> HIDE DEF top
  <2>3. Len(top) = n
    BY <1>1, <2>2
  <2>4. ASSUME NEW i \in 1 .. n PROVE top[i] = a[i]
    <3>1. top[i] = all[m + i] /\ m + i \in 1 .. m + n /\ ~(m + i <= m) /\ (m + i) - m = i
      BY <1>1, <2>2
    <3> QED
      BY <1>2, <3>1
  <2>5. top = a
    BY <1>3, <2>2, <2>3, <2>4, SeqEqual
  <2>6. Len(all) - n + 1 = m + 1 /\ Len(all) = m + n
    BY <1>1, <1>2
  <2> QED
    BY <2>5, <2>6 DEF top
<1>6. PcallFrame(all, n) = [fn |-> all[Len(all) - n - 1], this |-> all[Len(all) - n],
                            args |-> SubSeq(all, Len(all) - n + 1, Len(all))]
  BY DEF PcallFrame
<1> QED
  BY <1>4, <1>5, <1>6 DEF all, n, m

(* What is pushed, popped and left by js_pcall.                            *)
LEMMA Pushed ==
  ASSUME NEW S, NEW s \in Seq(S), NEW v \in S
  PROVE  /\ Push(s, v) \in Seq(S) /\ Len(Push(s, v)) = Len(s) + 1
         /\ \A i \in 1 .. Len(s) : Push(s, v)[i] = s[i]
         /\ Push(s, v)[Len(s) + 1] = v
  BY AppendProperties DEF Push

LEMMA PcallLeaves ==
  ASSUME NEW S, NEW s \in Seq(S), Len(s) >= 2, NEW result \in S
  PROVE  AfterPcall(s, 0, result) \in Seq(S) /\ Len(AfterPcall(s, 0, result)) = Len(s) - 1
<1> DEFINE m == Len(s) - 2
           p == Pop(s, 0 + 2)
<1>1. Len(s) \in Nat
  BY LenProperties
<1>2. m \in Nat /\ \A i \in 1 .. m : s[i] \in S
  BY <1>1, ElementOfSeq
<1>3. p = SubSeq(s, 1, m)
  BY DEF Pop
<1> HIDE DEF m, p
<1>4. SubSeq(s, 1, m) \in Seq(S) /\ Len(SubSeq(s, 1, m)) = IF 1 <= m THEN m - 1 + 1 ELSE 0
  BY <1>2, SubSeqProperties
<1>5. p \in Seq(S) /\ Len(p) = m
  BY <1>2, <1>3, <1>4
<1>6. Push(p, result) \in Seq(S) /\ Len(Push(p, result)) = Len(p) + 1
  BY <1>5, Pushed
<1>7. Len(p) + 1 = Len(s) - 1
  BY <1>1, <1>5 DEF m
<1> QED
  BY <1>6, <1>7 DEF AfterPcall, p

(* Whatever the format says, a call of sf_excute clears the stack, and     *)
(* what js_pcall gets, if it is called, is what is on top and the inputs.  *)
LEMMA CallMade ==
  ASSUME NEW s \in Seq(Strings), Len(s) >= 2, NEW fmt \in Formats, NEW result,
         sf_excute(s, fmt, result)
  PROVE  /\ jstack' = <<>>
         /\ \/ pcalled' = NoFrame
            \/ pcalled' = [fn |-> s[Len(s) - 1], this |-> s[Len(s)],
                           args |-> SubSeq(Inputs, 1, Len(fmt) - 1)]
<1> DEFINE n == Len(fmt) - 1
           a == SubSeq(Inputs, 1, n)
<1>1. n \in Nat /\ n <= Len(Inputs) /\ Inputs \in Seq(Strings) /\ Len(Inputs) \in Nat
  <2>1. fmt \in Seq(STRING) /\ fmt # <<>> /\ Len(fmt) - 1 <= Len(Inputs) /\ Inputs \in Seq(Strings)
    BY FormatsAssumption, StringsAre
  <2>2. Len(fmt) \in Nat /\ Len(fmt) # 0
    BY <2>1, LenProperties, EmptySeq
  <2> QED
    BY <2>1, <2>2, LenProperties
<1>2. a \in Seq(Strings) /\ Len(a) = n
  <2>1. \A i \in 1 .. n : Inputs[i] \in Strings
    BY <1>1, ElementOfSeq
  <2> HIDE DEF n
  <2>2. a \in Seq(Strings) /\ Len(a) = IF 1 <= n THEN n - 1 + 1 ELSE 0
    BY <1>1, <2>1, SubSeqProperties
  <2> QED
    BY <1>1, <2>2
<1>3. s \o a \in Seq(Strings)
  BY <1>2, ConcatProperties
<1>4. /\ jstack' = sf_clearvm(s \o a)
      /\ pcalled' = NoFrame \/ pcalled' = PcallFrame(s \o a, n)
  BY DEF sf_excute
<1> HIDE DEF a
<1>5. PcallFrame(s \o a, n) = [fn |-> s[Len(s) - 1], this |-> s[Len(s)], args |-> a]
  BY <1>2, FrameOnTop
<1> QED
  BY <1>3, <1>4, <1>5, Cleared DEF a

(* Two values on an empty stack.                                           *)
LEMMA TwoPushed ==
  ASSUME NEW S, NEW u \in S, NEW v \in S
  PROVE  /\ Push(<<>>, u) \in Seq(S) /\ Len(Push(<<>>, u)) = 1 /\ Push(<<>>, u)[1] = u
         /\ Push(Push(<<>>, u), v) \in Seq(S) /\ Len(Push(Push(<<>>, u), v)) = 2
         /\ Push(Push(<<>>, u), v)[1] = u /\ Push(Push(<<>>, u), v)[2] = v
<1> DEFINE o == Push(<<>>, u)
<1>1. o \in Seq(S) /\ Len(o) = 1 /\ o[1] = u
  <2>1. <<>> \in Seq(S) /\ Len(<<>>) = 0
    BY EmptySeq
  <2>2. o \in Seq(S) /\ Len(o) = Len(<<>>) + 1 /\ o[Len(<<>>) + 1] = u
    BY <2>1, Pushed
  <2>3. Len(<<>>) + 1 = 1
    BY <2>1
  <2> QED
    BY <2>2, <2>3
<1> HIDE DEF o
<1>2. /\ Push(o, v) \in Seq(S) /\ Len(Push(o, v)) = Len(o) + 1 /\ Push(o, v)[Len(o) + 1] = v
      /\ \A i \in 1 .. Len(o) : Push(o, v)[i] = o[i]
  BY <1>1, Pushed
<1>3. Len(o) + 1 = 2 /\ 1 \in 1 .. Len(o)
  BY <1>1
<1>4. Len(Push(o, v)) = 2 /\ Push(o, v)[2] = v /\ Push(o, v)[1] = u
  BY <1>1, <1>2, <1>3
<1> QED
  BY <1>1, <1>2, <1>4 DEF o

(* A call of a function without arguments, and its result popped.          *)
LEMMA LoadLeaves ==
  ASSUME NEW S, NEW u \in S, NEW v \in S, NEW r \in S
  PROVE  /\ Pop(AfterPcall(Push(Push(<<>>, u), v), 0, r), 1) = <<>>
         /\ Pop(Push(<<>>, u), 1) = <<>>
<1> DEFINE f == Push(Push(<<>>, u), v)
           a == AfterPcall(f, 0, r)
           o == Push(<<>>, u)
<1>1. /\ f \in Seq(S) /\ Len(f) = 2
      /\ o \in Seq(S) /\ Len(o) = 1
  BY TwoPushed
<1> HIDE DEF f, o
<1>2. Len(a) = 1
  <2>1. Len(f) >= 2
    BY <1>1
  <2>2. a \in Seq(S) /\ Len(a) = Len(f) - 1
    BY <1>1, <2>1, PcallLeaves
  <2> QED
    BY <1>1, <2>2
<1> HIDE DEF a
<1>3. Len(a) - 1 = 0 /\ Len(o) - 1 = 0 /\ SubSeq(a, 1, 0) = <<>> /\ SubSeq(o, 1, 0) = <<>>
  BY <1>1, <1>2, SubSeqEmpty
<1>4. Pop(a, 1) = <<>> /\ Pop(o, 1) = <<>>
  BY <1>3 DEF Pop
<1> QED
  BY <1>4 DEF f, a, o

(* The frame of jsB_require: this, the name, what was loaded and undefined *)
(* are gone in the end.                                                    *)
LEMMA RequireLeaves ==
  ASSUME NEW S, NEW s \in Seq(S), Len(s) = 2, NEW u \in S, NEW v \in S, NEW r \in S
  PROVE  Pop(AfterPcall(Push(Push(s, u), v), 0, r), 3) = <<>>
<1> DEFINE o == Push(s, u)
           f == Push(o, v)
           a == AfterPcall(f, 0, r)
<1>1. o \in Seq(S) /\ Len(o) = Len(s) + 1
  BY Pushed
<1> HIDE DEF o
<1>2. f \in Seq(S) /\ Len(f) = Len(o) + 1
  BY <1>1, Pushed
<1> HIDE DEF f
<1>3. Len(f) = 4 /\ Len(f) >= 2
  BY <1>1, <1>2
<1>4. a \in Seq(S) /\ Len(a) = Len(f) - 1
  BY <1>2, <1>3, PcallLeaves
<1> HIDE DEF a
<1>5. Len(a) - 3 = 0 /\ SubSeq(a, 1, 0) = <<>>
  BY <1>3, <1>4, SubSeqEmpty
<1>6. Pop(a, 3) = <<>>
  BY <1>5 DEF Pop
<1> QED
  BY <1>6 DEF a, f, o

LEMMA FrameKept ==
  ASSUME FrameIsAsked, JsNext
  PROVE  FrameIsAsked'
<1>0. (pcalled # NoFrame => pcalled = asked) /\ jstack = <<>> /\ frame \in {<<>>, <<"this", "name">>}
  BY DEF FrameIsAsked
<1>1. CASE wa_bsnew \/ wa_bsfree \/ CallRequire
  BY <1>0, <1>1 DEF wa_bsnew, wa_bsfree, CallRequire, FrameIsAsked
<1>2. CASE wa_bsload
  <2>1. PICK loads \in BOOLEAN, result \in {"value", "exception"} :
          LET s == Push(jstack, IF loads THEN "file" ELSE "exception")
          IN jstack' = Pop(IF loads THEN AfterPcall(Push(s, "null"), 0, result) ELSE s, 1)
    BY <1>2 DEF wa_bsload
  <2> DEFINE fn == "file"
             this == "null"
             error == "exception"
             value == result
  <2>2. fn \in Strings /\ this \in Strings /\ error \in Strings /\ value \in Strings
    BY StringsAre
  <2> HIDE DEF fn, this, error, value
  <2>3. /\ Pop(AfterPcall(Push(Push(<<>>, fn), this), 0, value), 1) = <<>>
        /\ Pop(Push(<<>>, error), 1) = <<>>
    BY <2>2, LoadLeaves
  <2>4. jstack' = <<>>
    BY <1>0, <2>1, <2>3 DEF fn, this, error, value
  <2> QED
    BY <1>0, <1>2, <2>4 DEF wa_bsload, FrameIsAsked
<1>3. CASE jsB_require
  <2>1. frame = <<"this", "name">> /\ UNCHANGED <<js, jstack, asked, pcalled, out>>
    BY <1>0, <1>3 DEF jsB_require
  <2>2. PICK loads \in BOOLEAN, result \in {"value", "exception"} :
          frame' = Pop(AfterPcall(Push(Push(frame, IF loads THEN "module" ELSE "exception"),
                                       "undefined"), 0, result), 3)
    BY <1>3 DEF jsB_require
  <2> DEFINE fn == IF loads THEN "module" ELSE "exception"
             this == "undefined"
             value == result
  <2>3. frame \in Seq(Strings) /\ Len(frame) = 2
    BY <2>1, StringsAre
  <2>4. fn \in Strings /\ this \in Strings /\ value \in Strings
    BY StringsAre
  <2> HIDE DEF fn, this, value
  <2>5. Pop(AfterPcall(Push(Push(frame, fn), this), 0, value), 3) = <<>>
    BY <2>3, <2>4, RequireLeaves
  <2>6. frame' = <<>>
    BY <2>2, <2>5 DEF fn, this, value
  <2> QED
    BY <1>0, <2>1, <2>6 DEF FrameIsAsked
<1>4. ASSUME NEW s \in Seq(Strings), Refused(s), UNCHANGED frame PROVE FrameIsAsked'
  <2>1. jstack' = <<>> /\ pcalled' = NoFrame
    BY <1>4, Cleared DEF Refused
  <2> QED
    BY <1>0, <1>4, <2>1 DEF FrameIsAsked
<1>5. ASSUME NEW fmt \in Formats, NEW result, NEW kind \in {"function", "object", "undefined"},
             wa_bsfunc(kind, fmt, result)
      PROVE  FrameIsAsked'
  <2> DEFINE fn == kind
             this == "function"
             g == Push(<<>>, fn)
             s == Push(g, this)
  <2>1. fn \in Strings /\ this \in Strings
    BY StringsAre
  <2>2. g \in Seq(Strings) /\ s \in Seq(Strings) /\ Len(s) = 2 /\ s[1] = kind /\ s[2] = "function"
    <3> HIDE DEF fn, this
    <3>1. g \in Seq(Strings) /\ s \in Seq(Strings) /\ Len(s) = 2 /\ s[1] = fn /\ s[2] = this
      BY <2>1, TwoPushed
    <3> HIDE DEF g, s
    <3> QED
      BY <3>1 DEF fn, this
  <2>3. UNCHANGED frame
    BY <1>5 DEF wa_bsfunc
  <2>4. CASE kind # "function"
    <3>1. Refused(g)
      BY <1>0, <1>5, <2>4 DEF wa_bsfunc
    <3> QED
      BY <1>4, <2>2, <2>3, <3>1
  <2>5. CASE kind = "function"
    <3>1. asked' = Wanted("function", "function", fmt) /\ sf_excute(s, fmt, result)
      BY <1>0, <1>5, <2>5 DEF wa_bsfunc
    <3> HIDE DEF s
    <3>2. s[Len(s) - 1] = "function" /\ s[Len(s)] = "function" /\ Len(s) >= 2
      BY <2>2, <2>5
    <3>3. jstack' = <<>> /\ (pcalled' = NoFrame \/ pcalled' = asked')
      BY <2>2, <3>1, <3>2, CallMade DEF Wanted
    <3> QED
      BY <1>0, <2>3, <3>3 DEF FrameIsAsked
  <2> QED
    BY <2>4, <2>5
<1>6. ASSUME NEW fmt \in Formats, NEW result, NEW obj \in {"function", "object", "undefined"},
             NEW kind \in {"method", "undefined"}, wa_bsmethod(obj, kind, fmt, result)
      PROVE  FrameIsAsked'
  <2> DEFINE this == obj
             fn == kind
             o == Push(<<>>, this)
             m == Push(o, fn)
             s == Push(m, ThisOf(m))
  <2>1. this \in Strings /\ fn \in Strings
    BY StringsAre
  <2>2. o \in Seq(Strings) /\ m \in Seq(Strings) /\ Len(m) = 2 /\ m[1] = this /\ m[2] = fn
    <3> HIDE DEF this, fn
    <3> QED
      BY <2>1, TwoPushed
  <2>3. UNCHANGED frame
    BY <1>6 DEF wa_bsmethod
  <2>4. CASE obj \notin {"object", "function"} \/ kind # "method"
    <3>1. Refused(o) \/ Refused(m)
      BY <1>0, <1>6, <2>4 DEF wa_bsmethod
    <3> QED
      BY <1>4, <2>2, <2>3, <3>1
  <2>5. CASE obj \in {"object", "function"} /\ kind = "method"
    <3>1. asked' = Wanted("method", obj, fmt) /\ sf_excute(s, fmt, result)
      BY <1>0, <1>6, <2>5 DEF wa_bsmethod
    <3>2. s \in Seq(Strings) /\ Len(s) = 3 /\ s[2] = fn /\ s[3] = this
      <4> HIDE DEF o, m, this, fn
      <4>0. m \in Seq(Strings) /\ this \in Strings
        BY <2>1, <2>2
      <4>1. ThisOf(m) = this
        BY <2>2 DEF ThisOf
      <4>2. /\ Push(m, this) \in Seq(Strings) /\ Len(Push(m, this)) = Len(m) + 1
            /\ \A i \in 1 .. Len(m) : Push(m, this)[i] = m[i]
            /\ Push(m, this)[Len(m) + 1] = this
        BY ONLY <4>0, Pushed
      <4>3. 2 \in 1 .. Len(m) /\ Len(m) + 1 = 3
        BY <2>2
      <4> QED
        BY <2>2, <4>1, <4>2, <4>3
    <3> HIDE DEF s
    <3>3. s[Len(s) - 1] = "method" /\ s[Len(s)] = obj /\ Len(s) >= 2
      BY <2>5, <3>2
    <3>4. jstack' = <<>> /\ (pcalled' = NoFrame \/ pcalled' = asked')
      BY <3>1, <3>2, <3>3, CallMade DEF Wanted
    <3> QED
      BY <1>0, <2>3, <3>4 DEF FrameIsAsked
  <2> QED
    BY <2>4, <2>5
<1> QED
  BY <1>1, <1>2, <1>3, <1>5, <1>6 DEF JsNext

(* Whatever calls came before, succeeded or failed, and whatever formats   *)
(* they had, js_pcall calls what the program asked for, with its this and  *)
(* its inputs.                                                             *)
THEOREM FrameIsAskedAlways == Spec => []FrameIsAsked
<1>1. Init => FrameIsAsked
  BY DEF Init, JsStart, FrameIsAsked
<1>2. FrameIsAsked /\ UNCHANGED jsvars => FrameIsAsked'
  BY DEF jsvars, FrameIsAsked
<1>3. FrameIsAsked /\ [Next]_vars => FrameIsAsked'
  BY <1>2, FrameKept, JsMoves
<1> QED
  BY <1>1, <1>3, PTL DEF Spec

-----------------------------------------------------------------------------
(* Values on Lua's stack: strings as the sequences of their characters,    *)
(* and those that are told apart by name.                                  *)
Values == Seq(STRING) \union Seq({"k"}) \union {Chunk, Traceback, Message, Value, <<"doc">>} \union Tables

LEMMA ValuesAre ==
  /\ Seq(STRING) \subseteq Values /\ Tables \subseteq Values
  /\ Chunk \in Values /\ Traceback \in Values /\ Message \in Values /\ Value \in Values
  BY DEF Values

LEMMA WordsAreValues ==
  ASSUME NEW words \in Seq(Seq(STRING))
  PROVE  words \in Seq(Values)
  BY ValuesAre, SeqMonotonic

(* lua_insert moves the top to its place and the ones above it up by one.  *)
LEMMA InsertedAt ==
  ASSUME NEW S, NEW s \in Seq(S), NEW i \in 1 .. Len(s)
  PROVE  /\ Inserted(s, i) \in Seq(S) /\ Len(Inserted(s, i)) = Len(s)
         /\ \A j \in 1 .. i - 1 : Inserted(s, i)[j] = s[j]
         /\ Inserted(s, i)[i] = s[Len(s)]
         /\ \A j \in i + 1 .. Len(s) : Inserted(s, i)[j] = s[j - 1]
<1> DEFINE n == Len(s)
           a == SubSeq(s, 1, i - 1)
           top == s[Len(s)]
           b == a \o <<top>>
           c == SubSeq(s, i, Len(s) - 1)
<1>0. n \in Nat /\ i \in 1 .. n /\ i \in Nat /\ n >= 1 /\ top \in S /\ \A j \in 1 .. n : s[j] \in S
  BY LenProperties, ElementOfSeq
<1>1. a \in Seq(S) /\ Len(a) = i - 1 /\ \A j \in 1 .. i - 1 : a[j] = s[j]
  <2>1. \A j \in 1 .. i - 1 : s[j] \in S
    BY <1>0
  <2>2. /\ a \in Seq(S) /\ Len(a) = IF 1 <= i - 1 THEN i - 1 - 1 + 1 ELSE 0
        /\ \A j \in 1 .. i - 1 - 1 + 1 : a[j] = s[1 + j - 1]
    BY <2>1, SubSeqProperties
  <2> QED
    BY <1>0, <2>2
<1>2. c \in Seq(S) /\ Len(c) = n - i /\ \A j \in 1 .. n - i : c[j] = s[i + j - 1]
  <2>1. \A j \in i .. n - 1 : s[j] \in S
    BY <1>0
  <2>2. /\ c \in Seq(S) /\ Len(c) = IF i <= n - 1 THEN n - 1 - i + 1 ELSE 0
        /\ \A j \in 1 .. n - 1 - i + 1 : c[j] = s[i + j - 1]
    BY <1>0, <2>1, SubSeqProperties
  <2> HIDE DEF c, n
  <2>3. n - 1 - i + 1 = n - i /\ (~(i <= n - 1) => n - i = 0)
    BY <1>0
  <2>4. Len(c) = n - i
    BY <2>2, <2>3
  <2> QED
    BY <2>2, <2>3, <2>4
<1>3. Inserted(s, i) = b \o c
  BY DEF Inserted
<1> HIDE DEF n, a, c, top
<1>4. /\ b \in Seq(S) /\ Len(b) = i
      /\ \A j \in 1 .. i - 1 : b[j] = s[j]
      /\ b[i] = top
  <2>1. b = Append(a, top)
    BY <1>0, <1>1, AppendIsConcat
  <2>2. /\ Append(a, top) \in Seq(S) /\ Len(Append(a, top)) = Len(a) + 1
        /\ \A j \in 1 .. Len(a) : Append(a, top)[j] = a[j]
        /\ Append(a, top)[Len(a) + 1] = top
    BY <1>0, <1>1, AppendProperties
  <2>3. Len(a) + 1 = i
    BY <1>0, <1>1
  <2> QED
    BY <1>1, <2>1, <2>2, <2>3
<1> HIDE DEF b
<1>5. /\ b \o c \in Seq(S) /\ Len(b \o c) = Len(b) + Len(c)
      /\ \A j \in 1 .. Len(b) + Len(c) : (b \o c)[j] = IF j <= Len(b) THEN b[j] ELSE c[j - Len(b)]
  BY <1>2, <1>4, ConcatProperties
<1>6. Len(b) + Len(c) = n /\ Len(b) = i
  BY <1>0, <1>2, <1>4
<1>7. \A j \in 1 .. i - 1 : (b \o c)[j] = s[j]
  BY <1>0, <1>4, <1>5, <1>6
<1>8. (b \o c)[i] = top
  BY <1>0, <1>4, <1>5, <1>6
<1>9. ASSUME NEW j \in i + 1 .. n PROVE (b \o c)[j] = s[j - 1]
  <2>1. j \in 1 .. n /\ ~(j <= i) /\ j - i \in 1 .. n - i /\ i + (j - i) - 1 = j - 1
    BY <1>0
  <2>2. (b \o c)[j] = c[j - i]
    BY <1>5, <1>6, <2>1
  <2>3. c[j - i] = s[i + (j - i) - 1]
    BY <1>2, <2>1
  <2> QED
    BY <2>1, <2>2, <2>3
<1> QED
  BY <1>3, <1>5, <1>6, <1>7, <1>8, <1>9 DEF n, top

(* wa_ldofile calls the chunk with all that was pushed, or with nothing,   *)
(* and the traceback lies under it.                                        *)
LEMMA FileCalled ==
  ASSUME NEW words \in Seq(Values), NEW narg \in {0, Len(words)}, NEW loads, NEW runs,
         RunFile(words, narg, loads, runs)
  PROVE  /\ stack' = <<>>
         /\ \/ called' = NoCall
            \/ /\ called'.fn = Chunk /\ called'.msgh = Traceback
               /\ called'.args = (IF narg = 0 THEN <<>> ELSE words)
               /\ called'.pushed = (IF narg = 0 THEN <<>> ELSE words)
<1> DEFINE n == Len(words)
           u == Append(words, Chunk)
           under == UnderArgs(u, narg)
           base == HandlerAt(under, narg)
           r == Append(under, Traceback)
           ready == Inserted(r, base)
<1>0. n \in Nat /\ narg \in Nat /\ n = Len(words)
  BY LenProperties
<1>1. stack' = <<>> /\ (called' = NoCall \/ called' = Pcalled(ready, narg, base, words))
  BY DEF RunFile
<1>2. /\ u \in Seq(Values) /\ Len(u) = n + 1 /\ u[n + 1] = Chunk
      /\ \A j \in 1 .. n : u[j] = words[j]
  BY ValuesAre, AppendProperties
<1> HIDE DEF u
<1>3. CASE narg # 0
  <2>1. narg = n /\ n > 0 /\ 1 \in 1 .. Len(u)
    BY <1>0, <1>2, <1>3
  <2>2. under = Inserted(u, 1)
    BY <1>0, <1>3 DEF UnderArgs
  <2>3. /\ under \in Seq(Values) /\ Len(under) = Len(u) /\ under[1] = u[Len(u)]
        /\ \A j \in 1 + 1 .. Len(u) : under[j] = u[j - 1]
    BY <1>2, <2>1, <2>2, InsertedAt
  <2> HIDE DEF under, n
  <2>4. base = 1
    BY <1>0, <1>2, <2>1, <2>3 DEF HandlerAt
  <2>5. /\ r \in Seq(Values) /\ Len(r) = Len(under) + 1 /\ r[Len(under) + 1] = Traceback
        /\ \A j \in 1 .. Len(under) : r[j] = under[j]
    BY <2>3, ValuesAre, AppendProperties
  <2> HIDE DEF r
  <2>6. Len(r) = n + 2 /\ 1 \in 1 .. Len(r) /\ Len(u) = n + 1 /\ Len(under) = n + 1
    BY <1>0, <1>2, <2>3, <2>5
  <2>7. /\ ready \in Seq(Values) /\ Len(ready) = Len(r) /\ ready[1] = r[Len(r)]
        /\ \A j \in 1 + 1 .. Len(r) : ready[j] = r[j - 1]
    BY <2>4, <2>5, <2>6, InsertedAt
  <2> HIDE DEF ready, base
  <2>8. ready[1] = Traceback
    BY <1>0, <2>5, <2>6, <2>7
  <2>9. ready[2] = Chunk
    <3>1. 2 \in 1 + 1 .. Len(r) /\ 2 - 1 = 1 /\ 1 \in 1 .. Len(under) /\ Len(u) = n + 1
      BY <1>0, <2>1, <2>6
    <3>2. ready[2] = r[1] /\ r[1] = under[1]
      BY <2>5, <2>7, <3>1
    <3> QED
      BY <1>2, <2>3, <3>1, <3>2
  <2>10. ASSUME NEW j \in 1 .. n PROVE ready[j + 2] = words[j]
    <3>1. /\ j + 2 \in 1 + 1 .. Len(r) /\ (j + 2) - 1 = j + 1 /\ j + 1 \in 1 .. Len(under)
          /\ j + 1 \in 1 + 1 .. Len(u) /\ (j + 1) - 1 = j
      BY <1>0, <2>6
    <3>2. ready[j + 2] = r[j + 1] /\ r[j + 1] = under[j + 1] /\ under[j + 1] = u[j]
      BY <2>3, <2>5, <2>7, <3>1
    <3> QED
      BY <1>2, <3>2
  <2>11. SubSeq(ready, 3, n + 2) = words
    <3> DEFINE args == SubSeq(ready, 3, n + 2)
    <3>1. \A j \in 3 .. n + 2 : ready[j] \in Values
      BY <1>0, <2>6, <2>7, ElementOfSeq
    <3>2. /\ args \in Seq(Values) /\ Len(args) = IF 3 <= n + 2 THEN n + 2 - 3 + 1 ELSE 0
          /\ \A j \in 1 .. n + 2 - 3 + 1 : args[j] = ready[3 + j - 1]
      BY <1>0, <3>1, SubSeqProperties
    <3> HIDE DEF args
    <3>3. n + 2 - 3 + 1 = n /\ 3 <= n + 2
      BY <1>0, <2>1
    <3>4. Len(args) = n
      BY <3>2, <3>3
    <3>5. ASSUME NEW j \in 1 .. n PROVE args[j] = words[j]
      <4>1. 3 + j - 1 = j + 2
        OBVIOUS
      <4> QED
        BY <2>10, <3>2, <3>3, <4>1
    <3>6. args = words
      BY <1>0, <3>2, <3>4, <3>5, SeqEqual
    <3> QED
      BY <3>6 DEF args
  <2>12. SubSeq(words, 1, n) = words
    BY <1>0, SubSeqFull
  <2>13. /\ Len(ready) - narg = 2 /\ Len(ready) - narg + 1 = 3 /\ Len(ready) = n + 2
         /\ Len(words) - narg + 1 = 1 /\ Len(words) = n
    BY <1>0, <2>1, <2>6, <2>7
  <2>14. Pcalled(ready, narg, base, words) =
           [fn |-> Chunk, args |-> words, msgh |-> Traceback, pushed |-> words]
    BY <2>4, <2>8, <2>9, <2>11, <2>12, <2>13 DEF Pcalled
  <2> QED
    BY <1>1, <1>3, <2>14
<1>4. CASE narg = 0
  <2>1. under = u
    BY <1>4 DEF UnderArgs
  <2> HIDE DEF under, n
  <2>2. base = n + 1
    BY <1>0, <1>2, <1>4, <2>1 DEF HandlerAt
  <2>3. /\ r \in Seq(Values) /\ Len(r) = Len(u) + 1 /\ r[Len(u) + 1] = Traceback
        /\ \A j \in 1 .. Len(u) : r[j] = u[j]
    BY <1>2, <2>1, ValuesAre, AppendProperties
  <2> HIDE DEF r
  <2>4. Len(r) = n + 2 /\ n + 1 \in 1 .. Len(r) /\ Len(u) = n + 1
    BY <1>0, <1>2, <2>3
  <2>5. /\ ready \in Seq(Values) /\ Len(ready) = Len(r) /\ ready[n + 1] = r[Len(r)]
        /\ \A j \in n + 1 + 1 .. Len(r) : ready[j] = r[j - 1]
    BY <2>2, <2>3, <2>4, InsertedAt
  <2> HIDE DEF ready, base
  <2>6. ready[n + 1] = Traceback
    BY <1>0, <2>3, <2>4, <2>5
  <2>7. ready[n + 2] = Chunk
    <3>1. n + 2 \in n + 1 + 1 .. Len(r) /\ (n + 2) - 1 = n + 1 /\ n + 1 \in 1 .. Len(u)
      BY <1>0, <2>4
    <3>2. ready[n + 2] = r[n + 1] /\ r[n + 1] = u[n + 1]
      BY <2>3, <2>5, <3>1
    <3> QED
      BY <1>2, <3>2
  <2>8. /\ Len(ready) - narg = n + 2 /\ Len(ready) - narg + 1 = n + 3 /\ Len(ready) = n + 2
        /\ Len(words) - narg + 1 = n + 1 /\ Len(words) = n
    BY <1>0, <1>4, <2>4, <2>5
  <2>9. SubSeq(ready, n + 3, n + 2) = <<>> /\ SubSeq(words, n + 1, n) = <<>>
    BY <1>0, SubSeqEmpty
  <2>10. Pcalled(ready, narg, base, words) =
           [fn |-> Chunk, args |-> <<>>, msgh |-> Traceback, pushed |-> <<>>]
    BY <2>2, <2>6, <2>7, <2>8, <2>9 DEF Pcalled
  <2> QED
    BY <1>1, <1>4, <2>10
<1> QED
  BY <1>3, <1>4

-----------------------------------------------------------------------------
(* The values from the k-th of the top down that wa_debug_lua leaves a key *)
(* for.                                                                    *)
Wide(s, k) == {i \in Len(s) + 1 - k .. Len(s) : Entries(s[i]) >= 5}

(* After a look at k values the stack is what it was, and a key for each   *)
(* table of five entries above it.                                         *)
Looked(t, s, k) ==
  /\ t \in Seq(Values) /\ Len(t) = Len(s) + Cardinality(Wide(s, k))
  /\ \A j \in 1 .. Len(s) : t[j] = s[j]

(* After k turns of the loop over a table above t.                         *)
Shown(t, i, k) ==
  IF k <= Entries(t[i]) THEN [s |-> Append(t, NthKey(k)), more |-> TRUE]
  ELSE [s |-> t, more |-> FALSE]

LEMMA KeysAre ==
  ASSUME NEW n \in Nat
  PROVE  NthKey(n) \in Values /\ Len(NthKey(n)) = n
<1>1. NthKey(n) \in [1 .. n -> {"k"}] /\ DOMAIN NthKey(n) = 1 .. n
  BY DEF NthKey
<1>2. NthKey(n) \in Seq({"k"}) /\ Len(NthKey(n)) = n
  BY <1>1
<1> QED
  BY <1>2 DEF Values

LEMMA PoppedIs ==
  ASSUME NEW t \in Seq(Values), NEW v \in Values
  PROVE  Popped(Append(t, v)) = t /\ Append(t, v)[Len(Append(t, v))] = v
         /\ Append(t, v) \in Seq(Values) /\ Len(Append(t, v)) = Len(t) + 1
<1> DEFINE n == Len(t)
           u == Append(t, v)
<1>1. n \in Nat /\ u \in Seq(Values) /\ Len(u) = n + 1 /\ (\A j \in 1 .. n : u[j] = t[j]) /\ u[n + 1] = v
  BY LenProperties, AppendProperties
<1> HIDE DEF n, u
<1>2. \A j \in 1 .. n : u[j] \in Values
  BY <1>1, ElementOfSeq
<1> DEFINE w == SubSeq(u, 1, n)
<1>3. /\ w \in Seq(Values) /\ Len(w) = IF 1 <= n THEN n - 1 + 1 ELSE 0
      /\ \A j \in 1 .. n - 1 + 1 : w[j] = u[1 + j - 1]
  BY <1>1, <1>2, SubSeqProperties
<1> HIDE DEF w
<1>4. n - 1 + 1 = n /\ (~(1 <= n) => n = 0) /\ \A j \in 1 .. n : 1 + j - 1 = j
  BY <1>1
<1>5. Len(w) = n /\ \A j \in 1 .. n : w[j] = t[j]
  BY <1>1, <1>3, <1>4
<1>6. w = t
  BY <1>3, <1>5, SeqEqual DEF n
<1>7. Popped(u) = SubSeq(u, 1, n)
  <2>1. Len(u) - 1 = n
    BY <1>1
  <2> QED
    BY <2>1 DEF Popped
<1> QED
  BY <1>1, <1>6, <1>7 DEF u, n, w

LEMMA TwoAppended ==
  ASSUME NEW t \in Seq(Values), NEW x \in Values, NEW y \in Values
  PROVE  t \o <<x, y>> = Append(Append(t, x), y)
<1> DEFINE n == Len(t)
           u == Append(t, x)
           v == Append(u, y)
           w == t \o <<x, y>>
           two == <<x, y>>
<1>1. n \in Nat
  BY LenProperties
<1>2. u \in Seq(Values) /\ Len(u) = n + 1 /\ (\A j \in 1 .. n : u[j] = t[j]) /\ u[n + 1] = x
  BY AppendProperties
<1>3. v \in Seq(Values) /\ Len(v) = Len(u) + 1 /\ (\A j \in 1 .. Len(u) : v[j] = u[j]) /\ v[Len(u) + 1] = y
  <2> HIDE DEF u
  <2> QED
    BY <1>2, AppendProperties
<1>4. two \in Seq(Values) /\ Len(two) = 2 /\ two[1] = x /\ two[2] = y
  OBVIOUS
<1> HIDE DEF two
<1>5. w \in Seq(Values) /\ Len(w) = n + 2
      /\ \A j \in 1 .. n + 2 : w[j] = IF j <= n THEN t[j] ELSE two[j - n]
  <2>1. LET z == t \o two
        IN z \in Seq(Values) /\ Len(z) = Len(t) + Len(two)
           /\ \A j \in 1 .. Len(t) + Len(two) : z[j] = IF j <= Len(t) THEN t[j] ELSE two[j - Len(t)]
    BY <1>4, ConcatProperties
  <2>2. w = t \o two
    BY DEF two
  <2> HIDE DEF w
  <2> QED
    BY <1>4, <2>1, <2>2
<1> HIDE DEF u, v, w, n
<1>6. Len(w) = Len(v) /\ \A j \in 1 .. Len(w) : w[j] = v[j]
  <2>1. Len(w) = n + 2 /\ Len(v) = n + 2
    BY <1>1, <1>2, <1>3, <1>5
  <2>2. ASSUME NEW j \in 1 .. n PROVE w[j] = v[j]
    BY <1>1, <1>2, <1>3, <1>5, <2>2
  <2>3. w[n + 1] = v[n + 1]
    <3>1. (n + 1) - n = 1 /\ ~(n + 1 <= n) /\ n + 1 \in 1 .. n + 2 /\ n + 1 \in 1 .. n + 1
      BY <1>1
    <3>2. w[n + 1] = x
      BY <1>4, <1>5, <3>1
    <3> QED
      BY <1>2, <1>3, <3>1, <3>2
  <2>4. w[n + 2] = v[n + 2]
    <3>1. (n + 2) - n = 2 /\ ~(n + 2 <= n) /\ n + 2 \in 1 .. n + 2 /\ (n + 1) + 1 = n + 2
      BY <1>1
    <3> QED
      BY <1>2, <1>3, <1>4, <1>5, <3>1
  <2>5. \A j \in 1 .. n + 2 : j \in 1 .. n \/ j = n + 1 \/ j = n + 2
    BY <1>1
  <2> QED
    BY <2>1, <2>2, <2>3, <2>4, <2>5
<1>7. w = v
  BY <1>3, <1>5, <1>6, SeqEqual
<1> QED
  BY <1>7 DEF w, v, u

LEMMA EntryShown ==
  ASSUME NEW t \in Seq(Values), NEW i \in 1 .. Len(t), NEW k \in Nat
  PROVE  NextEntry(Shown(t, i, k), i) = Shown(t, i, k + 1)
<1> DEFINE e == Entries(t[i])
           l == Shown(t, i, k)
           u == Append(t, NthKey(k))
           s == lua_next(u, i)
<1>1. e \in Nat /\ Len(t) \in Nat
  BY LenProperties DEF Entries
<1>2. /\ Popped(u) = t /\ u[Len(u)] = NthKey(k) /\ Len(NthKey(k)) = k
      /\ u \in Seq(Values) /\ Len(u) = Len(t) + 1 /\ u[i] = t[i]
  <2>1. NthKey(k) \in Values /\ Len(NthKey(k)) = k
    BY KeysAre
  <2>2. \A j \in 1 .. Len(t) : u[j] = t[j]
    BY <2>1, AppendProperties
  <2> QED
    BY <2>1, <2>2, PoppedIs
<1>3. s = IF k < e THEN t \o <<NthKey(k + 1), Value>> ELSE t
  BY <1>2 DEF lua_next
<1>4. CASE k < e
  <2> DEFINE v == Append(t, NthKey(k + 1))
  <2>1. k + 1 \in Nat /\ k <= e /\ k + 1 <= e
    BY <1>1, <1>4
  <2>2. NthKey(k + 1) \in Values /\ Value \in Values
    BY <2>1, KeysAre, ValuesAre
  <2>3. s = Append(v, Value)
    <3>1. s = t \o <<NthKey(k + 1), Value>>
      BY <1>3, <1>4
    <3> QED
      BY <2>2, <3>1, TwoAppended
  <2>4. v \in Seq(Values) /\ Len(v) = Len(t) + 1
    BY <2>2, PoppedIs
  <2>5. Popped(s) = v /\ Len(s) = Len(v) + 1
    BY <2>2, <2>3, <2>4, PoppedIs
  <2>6. l = [s |-> u, more |-> TRUE]
    BY <2>1 DEF Shown
  <2>7. Shown(t, i, k + 1) = [s |-> v, more |-> TRUE]
    BY <2>1 DEF Shown
  <2>8. Len(s) > Len(u)
    BY <1>1, <1>2, <2>4, <2>5
  <2> HIDE DEF u, s, v, l
  <2>9. NextEntry(l, i) = [s |-> Popped(s), more |-> TRUE]
    BY <2>6, <2>8 DEF NextEntry, s
  <2> QED
    BY <2>5, <2>7, <2>9 DEF l
<1>5. CASE k = e
  <2>1. k <= e /\ ~(k < e) /\ ~(k + 1 <= e)
    BY <1>1, <1>5
  <2>2. l = [s |-> u, more |-> TRUE] /\ Shown(t, i, k + 1) = [s |-> t, more |-> FALSE]
    BY <2>1 DEF Shown
  <2>3. s = t
    BY <1>3, <2>1
  <2>4. ~(Len(t) > Len(u))
    BY <1>1, <1>2
  <2> HIDE DEF u, s, l
  <2>5. NextEntry(l, i) = [s |-> s, more |-> FALSE]
    BY <2>2, <2>3, <2>4 DEF NextEntry, s
  <2> QED
    BY <2>2, <2>3, <2>5 DEF l
<1>6. CASE k > e
  <2>1. ~(k <= e) /\ ~(k + 1 <= e)
    BY <1>1, <1>6
  <2>2. l = [s |-> t, more |-> FALSE] /\ Shown(t, i, k + 1) = [s |-> t, more |-> FALSE]
    BY <2>1 DEF Shown
  <2>3. ~ l.more
    BY <2>2
  <2> HIDE DEF l
  <2>4. NextEntry(l, i) = l
    BY <2>3 DEF NextEntry
  <2> QED
    BY <2>2, <2>4 DEF l
<1> QED
  BY <1>1, <1>4, <1>5, <1>6

(* A look at one value: the loop leaves a key if it was not ended by       *)
(* lua_next.                                                               *)
LEMMA OneShown ==
  ASSUME NEW t \in Seq(Values), NEW i \in 1 .. Len(t)
  PROVE  _print_one_lua_val(t, i) = IF Entries(t[i]) >= 5 THEN Append(t, NthKey(5)) ELSE t
<1> DEFINE e == Entries(t[i])
           Turn(l) == NextEntry(l, i)
           f(k) == Shown(t, i, k)
<1>1. e \in Nat
  BY DEF Entries
<1>2. CASE t[i] \in Tables
  <2>1. f(0) = [s |-> Append(t, NthKey(0)), more |-> TRUE]
    BY <1>1 DEF Shown
  <2>2. Turn(f(0)) = f(1) /\ Turn(f(1)) = f(2) /\ Turn(f(2)) = f(3) /\ Turn(f(3)) = f(4) /\ Turn(f(4)) = f(5)
    <3>1. \A k \in Nat : Turn(f(k)) = f(k + 1)
      BY EntryShown
    <3>2. 0 + 1 = 1 /\ 1 + 1 = 2 /\ 2 + 1 = 3 /\ 3 + 1 = 4 /\ 4 + 1 = 5
      OBVIOUS
    <3>3. Turn(f(0)) = f(0 + 1) /\ Turn(f(1)) = f(1 + 1) /\ Turn(f(2)) = f(2 + 1)
          /\ Turn(f(3)) = f(3 + 1) /\ Turn(f(4)) = f(4 + 1)
      BY <3>1
    <3> HIDE DEF Turn, f
    <3> QED
      BY <3>2, <3>3
  <2>3. _print_one_lua_val(t, i) = Turn(Turn(Turn(Turn(Turn([s |-> Append(t, NthKey(0)), more |-> TRUE]))))).s
    BY <1>2 DEF _print_one_lua_val
  <2>4. _print_one_lua_val(t, i) = f(5).s
    BY <2>1, <2>2, <2>3
  <2> QED
    BY <1>1, <2>4 DEF Shown
<1>3. CASE t[i] \notin Tables
  <2>1. e = 0
    BY <1>3 DEF Tables, Entries
  <2> QED
    BY <1>3, <2>1 DEF _print_one_lua_val
<1> QED
  BY <1>2, <1>3

LEMMA OneLooked ==
  ASSUME NEW s \in Seq(Values), NEW k \in 1 .. Len(s), NEW t, Looked(t, s, k - 1)
  PROVE  Looked(_print_one_lua_val(t, Len(s) + 1 - k), s, k)
<1> DEFINE n == Len(s)
           i == n + 1 - k
           now == _print_one_lua_val(t, i)
<1>1. n \in Nat /\ k \in 1 .. n /\ i \in 1 .. n /\ t[i] = s[i] /\ t \in Seq(Values)
  BY LenProperties DEF Looked
<1>2. IsFiniteSet(Wide(s, k - 1)) /\ Cardinality(Wide(s, k - 1)) \in Nat
  <2>1. IsFiniteSet(n + 1 - (k - 1) .. n)
    BY <1>1, FS_Interval
  <2>2. IsFiniteSet(Wide(s, k - 1))
    BY <2>1, FS_Subset DEF Wide
  <2> QED
    BY <2>2, FS_CardinalityType
<1>3. \A j \in n + 1 - k .. n : j = i \/ j \in n + 1 - (k - 1) .. n
  BY <1>1
<1>4. n + 1 - (k - 1) .. n \subseteq n + 1 - k .. n /\ i \in n + 1 - k .. n /\ i \notin n + 1 - (k - 1) .. n
  BY <1>1
<1>5. i \notin Wide(s, k - 1)
  BY <1>4 DEF Wide
<1>8. i \in 1 .. Len(t)
  <2>1. Len(t) = n + Cardinality(Wide(s, k - 1))
    BY DEF Looked
  <2> QED
    BY <1>1, <1>2, <2>1
<1> HIDE DEF i
<1>6. CASE Entries(s[i]) >= 5
  <2>1. Wide(s, k) = Wide(s, k - 1) \union {i}
    BY <1>3, <1>4, <1>6 DEF Wide
  <2>2. Cardinality(Wide(s, k)) = Cardinality(Wide(s, k - 1)) + 1
    BY <1>2, <1>5, <2>1, FS_AddElement
  <2> DEFINE last == NthKey(5)
  <2>3. now = Append(t, last)
    BY <1>1, <1>6, <1>8, OneShown
  <2>9. last \in Values
    BY KeysAre
  <2> HIDE DEF last
  <2>4. /\ Append(t, last) \in Seq(Values) /\ Len(Append(t, last)) = Len(t) + 1
        /\ \A j \in 1 .. Len(t) : Append(t, last)[j] = t[j]
    BY <1>1, <2>9, AppendProperties
  <2>5. Len(t) = n + Cardinality(Wide(s, k - 1)) /\ \A j \in 1 .. n : t[j] = s[j]
    BY DEF Looked
  <2> HIDE DEF now, n
  <2>6. Len(now) = n + Cardinality(Wide(s, k))
    BY <1>1, <1>2, <2>2, <2>3, <2>4, <2>5
  <2>7. \A j \in 1 .. n : now[j] = s[j]
    BY <1>1, <1>2, <2>3, <2>4, <2>5
  <2> QED
    BY <2>3, <2>4, <2>6, <2>7 DEF Looked, n, now, i
<1>7. CASE ~(Entries(s[i]) >= 5)
  <2>1. Wide(s, k) = Wide(s, k - 1)
    BY <1>3, <1>4, <1>7 DEF Wide
  <2>2. now = t
    BY <1>1, <1>7, <1>8, OneShown
  <2> QED
    BY <2>1, <2>2 DEF Looked, i
<1> QED
  BY <1>6, <1>7

LEMMA PrintedLooked ==
  ASSUME NEW s \in Seq(Values)
  PROVE  Looked(Printed(s), s, Len(s))
<1> DEFINE n == Len(s)
           below[k \in 0 .. n] ==
             IF k = 0 THEN s ELSE _print_one_lua_val(below[k - 1], n + 1 - k)
<1>1. n \in Nat
  BY LenProperties
<1>2. below = [k \in 0 .. n |->
                 IF k = 0 THEN s ELSE _print_one_lua_val(below[k - 1], n + 1 - k)]
  <2> SUFFICES \E g : g = [k \in 0 .. n |->
                             IF k = 0 THEN s ELSE _print_one_lua_val(g[k - 1], n + 1 - k)]
    OBVIOUS
  <2> DEFINE Turn(t, k) == _print_one_lua_val(t, n + 1 - k)
             T == {t \in Seq(Values) : Len(t) >= n}
             step == [k \in 1 .. n |-> [t \in T |-> Turn(t, k)]]
  <2>1. ASSUME NEW k \in 1 .. n, NEW t \in T PROVE Turn(t, k) \in T
    <3> DEFINE i == n + 1 - k
               last == NthKey(5)
    <3>1. i \in 1 .. Len(t) /\ t \in Seq(Values) /\ Len(t) >= n /\ Len(t) \in Nat
      BY <1>1, LenProperties
    <3>2. Turn(t, k) = IF Entries(t[i]) >= 5 THEN Append(t, last) ELSE t
      BY <3>1, OneShown
    <3>3. last \in Values
      BY KeysAre
    <3> HIDE DEF last, i, Turn
    <3>4. Append(t, last) \in Seq(Values) /\ Len(Append(t, last)) = Len(t) + 1
      BY <3>1, <3>3, PoppedIs
    <3>5. Append(t, last) \in T /\ t \in T
      BY <1>1, <3>1, <3>4
    <3> QED
      BY <3>2, <3>5
  <2> HIDE DEF Turn
  <2>7. s \in T
    BY <1>1
  <2> HIDE DEF T
  <2>2. step \in [1 .. n -> [T -> T]]
    BY <2>1
  <2>3. \A k \in 1 .. n : \A t \in T : step[k][t] = Turn(t, k)
    OBVIOUS
  <2> HIDE DEF step, n
  <2>4. PICK g \in [0 .. n -> T] : g[0] = s /\ \A k \in 1 .. n : g[k] = step[k][g[k - 1]]
    <3>1. step \in Steps(n, T)
      BY <2>2 DEF Steps
    <3>2. \E g : Follows(g, n, T, s, step)
      BY <1>1, <2>7, <3>1, Recursion
    <3> QED
      BY <3>2 DEF Follows
  <2>5. ASSUME NEW k \in 0 .. n PROVE g[k] = IF k = 0 THEN s ELSE Turn(g[k - 1], k)
    <3>1. CASE k = 0
      BY <2>4, <3>1
    <3>2. CASE k # 0
      <4>1. k \in 1 .. n /\ k - 1 \in 0 .. n
        BY <1>1, <3>2
      <4>2. g[k - 1] \in T /\ g[k] = step[k][g[k - 1]]
        BY <2>4, <4>1
      <4> QED
        BY <2>3, <3>2, <4>1, <4>2
    <3> QED
      BY <3>1, <3>2
  <2>6. g = [k \in 0 .. n |-> IF k = 0 THEN s ELSE Turn(g[k - 1], k)]
    BY <2>4, <2>5
  <2> QED
    BY <2>6 DEF Turn, n
<1>3. Printed(s) = below[n]
  BY DEF Printed
<1> HIDE DEF below
<1> DEFINE S == {k \in 0 .. n : Looked(below[k], s, k)}
<1>4. 0 \in S
  <2>1. below[0] = s /\ 0 \in 0 .. n
    BY <1>1, <1>2
  <2>2. Wide(s, 0) = {}
    BY <1>1 DEF Wide
  <2>3. Cardinality(Wide(s, 0)) = 0
    BY <2>2, FS_EmptySet
  <2>4. Looked(s, s, 0)
    BY <1>1, <2>3 DEF Looked
  <2> QED
    BY <2>1, <2>4
<1>5. ASSUME NEW k \in 1 .. n, k - 1 \in S PROVE k \in S
  <2>1. k \in 0 .. n /\ k # 0 /\ Looked(below[k - 1], s, k - 1)
    BY <1>1, <1>5
  <2>2. below[k] = _print_one_lua_val(below[k - 1], n + 1 - k)
    BY <1>2, <2>1
  <2>3. Looked(_print_one_lua_val(below[k - 1], n + 1 - k), s, k)
    BY <2>1, OneLooked
  <2> QED
    BY <2>1, <2>2, <2>3
<1> HIDE DEF S, n
<1>6. \A k \in 0 .. n : k \in S
  BY <1>1, <1>4, <1>5, UpTo
<1>7. n \in 0 .. n
  BY <1>1
<1> QED
  BY <1>3, <1>6, <1>7 DEF S, n

-----------------------------------------------------------------------------
(* What a list of names is when it has been chosen among those `seen', of  *)
(* which stat knew `known'.                                                *)
Split(l, known, seen, which) ==
  /\ l \in Seq(seen) /\ IsInjective(l)
  /\ ToSet(l) \subseteq seen \ Hidden /\ known \subseteq seen
  /\ \A name \in known : name \in ToSet(l) <=> (which = "lsdir") = (here[name] \in Bit4000)

ScanIInv ==
  /\ left \subseteq there
  /\ DOMAIN lists = {"lsdir", "lsfile"} /\ reading \in {"none", "lsdir", "lsfile"}
  /\ reading # "none" => Split(list, answered, there \ left, reading)
  /\ \A which \in DOMAIN lists :
       lists[which] # NotYet => Split(lists[which].names, lists[which].answered, there, which)

LEMMA SetOfAppend ==
  ASSUME NEW S, NEW l \in Seq(S), NEW v \in S
  PROVE  /\ ToSet(Append(l, v)) = ToSet(l) \union {v}
         /\ IsInjective(l) /\ v \notin ToSet(l) => IsInjective(Append(l, v))
<1> DEFINE n == Len(l)
           m == Append(l, v)
<1>1. n \in Nat /\ DOMAIN l = 1 .. n
  BY LenProperties
<1>2. m \in Seq(S) /\ Len(m) = n + 1 /\ (\A i \in 1 .. n : m[i] = l[i]) /\ m[n + 1] = v
  BY AppendProperties
<1>3. DOMAIN m = 1 .. n + 1
  BY <1>2, LenProperties
<1> HIDE DEF m, n
<1>4. 1 .. n + 1 = 1 .. n \union {n + 1}
  BY <1>1
<1>5. ToSet(m) = ToSet(l) \union {v}
  BY <1>1, <1>2, <1>3, <1>4 DEF ToSet
<1>6. ASSUME IsInjective(l), v \notin ToSet(l), NEW i \in DOMAIN m, NEW j \in DOMAIN m, m[i] = m[j]
      PROVE  i = j
  <2>1. \A k \in 1 .. n : l[k] # v
    BY <1>1, <1>6 DEF ToSet
  <2>2. CASE i \in 1 .. n /\ j \in 1 .. n
    BY <1>1, <1>2, <1>6, <2>2 DEF IsInjective
  <2>3. CASE i = n + 1 \/ j = n + 1
    BY <1>2, <1>3, <1>4, <1>6, <2>1, <2>3
  <2> QED
    BY <1>3, <1>4, <1>6, <2>2, <2>3
<1>7. IsInjective(l) /\ v \notin ToSet(l) => IsInjective(m)
  BY <1>6 DEF IsInjective
<1> QED
  BY <1>5, <1>7 DEF m

LEMMA ScanKept ==
  ASSUME ScanIInv, ScanNext
  PROVE  ScanIInv'
<1>0. /\ left \subseteq there
      /\ DOMAIN lists = {"lsdir", "lsfile"} /\ reading \in {"none", "lsdir", "lsfile"}
      /\ reading # "none" => Split(list, answered, there \ left, reading)
      /\ \A which \in DOMAIN lists :
           lists[which] # NotYet => Split(lists[which].names, lists[which].answered, there, which)
  BY DEF ScanIInv
<1>a. here' = here /\ there' = there
  BY DEF ScanNext, opendir, readdir, EndOfDirectory
<1>b. \A l, known, seen, which : Split(l, known, seen, which)' = Split(l, known, seen, which)
  BY <1>a DEF Split
<1>1. ASSUME NEW which \in {"lsdir", "lsfile"}, opendir(which) PROVE ScanIInv'
  <2>1. reading' = which /\ left' = there /\ list' = <<>> /\ answered' = {} /\ lists' = lists
    BY <1>1 DEF opendir
  <2>2. Split(<<>>, {}, {}, which)
    <3>1. ToSet(<<>>) = {} /\ IsInjective(<<>>) /\ <<>> \in Seq({})
      BY EmptySeq DEF ToSet, IsInjective
    <3> QED
      BY <3>1 DEF Split
  <2>3. there' \ left' = {}
    BY <1>a, <2>1
  <2>4. Split(list', answered', there' \ left', reading')
    BY <2>1, <2>2, <2>3
  <2> QED
    BY <1>0, <1>a, <1>1, <2>1, <2>4 DEF ScanIInv, Split
<1>2. CASE readdir
  <2>1. PICK name \in left :
          /\ left' = left \ {name}
          /\ IF name \in Hidden THEN UNCHANGED <<v_st, answered, list>>
             ELSE stat(name) /\ list' = IF Keeps(v_st') THEN Append(list, name) ELSE list
    BY <1>2 DEF readdir
  <2>2. UNCHANGED <<reading, lists>> /\ reading # "none"
    BY <1>2 DEF readdir
  <2> DEFINE seen == there \ left
             now == there \ left'
             kept == name \notin Hidden /\ Keeps(v_st')
  <2>3. now = seen \union {name} /\ name \notin seen
    BY <1>0, <2>1
  <2>4. /\ list \in Seq(seen) /\ IsInjective(list) /\ ToSet(list) \subseteq seen \ Hidden
        /\ answered \subseteq seen
        /\ \A x \in answered : x \in ToSet(list) <=> (reading = "lsdir") = (here[x] \in Bit4000)
    BY <1>0, <2>2 DEF Split
  <2>5. \/ answered' = answered
        \/ /\ answered' = answered \union {name} /\ name \notin Hidden
           /\ Keeps(v_st') <=> (reading = "lsdir") = (here[name] \in Bit4000)
    BY <2>1 DEF Keeps, stat
  <2> HIDE DEF seen, now
  <2>6. list \in Seq(now) /\ name \notin ToSet(list) /\ name \notin answered
    BY <2>3, <2>4, SeqMonotonic
  <2>7. Split(list', answered', now, reading)
    <3>1. CASE kept
      <4>1. list' = Append(list, name)
        BY <2>1, <3>1
      <4>2. Append(list, name) \in Seq(now)
        BY <2>3, <2>6, AppendProperties
      <4>3. ToSet(Append(list, name)) = ToSet(list) \union {name} /\ IsInjective(Append(list, name))
        BY <2>3, <2>4, <2>6, SetOfAppend
      <4>4. ToSet(Append(list, name)) \subseteq now \ Hidden /\ answered' \subseteq now
        BY <2>3, <2>4, <2>5, <3>1, <4>3
      <4>5. ASSUME NEW x \in answered'
            PROVE  x \in ToSet(Append(list, name)) <=> (reading = "lsdir") = (here[x] \in Bit4000)
        <5>1. CASE x = name
          BY <2>4, <2>5, <2>6, <3>1, <4>3, <4>5, <5>1
        <5>2. CASE x # name
          BY <2>4, <2>5, <4>3, <4>5, <5>2
        <5> QED
          BY <5>1, <5>2
      <4> QED
        BY <4>1, <4>2, <4>3, <4>4, <4>5 DEF Split
    <3>2. CASE ~kept
      <4>1. list' = list
        BY <2>1, <3>2
      <4>2. ToSet(list) \subseteq now \ Hidden /\ answered' \subseteq now
        BY <2>3, <2>4, <2>5
      <4>3. ASSUME NEW x \in answered'
            PROVE  x \in ToSet(list) <=> (reading = "lsdir") = (here[x] \in Bit4000)
        BY <2>4, <2>5, <2>6, <3>2, <4>3
      <4> QED
        BY <2>4, <2>6, <4>1, <4>2, <4>3 DEF Split
    <3> QED
      BY <3>1, <3>2
  <2>8. left' \subseteq there' /\ there' \ left' = now
    BY <1>0, <1>a, <2>1 DEF now
  <2> QED
    BY <1>0, <1>a, <2>2, <2>7, <2>8 DEF ScanIInv, Split
<1>3. CASE EndOfDirectory
  <2> DEFINE done == [names |-> list, answered |-> answered]
  <2>1. /\ reading # "none" /\ left = {} /\ lists' = [lists EXCEPT ![reading] = done]
        /\ reading' = "none" /\ left' = left
    BY <1>3 DEF EndOfDirectory
  <2>2. Split(done.names, done.answered, there, reading)
    BY <1>0, <2>1
  <2> HIDE DEF done
  <2>3. DOMAIN lists' = DOMAIN lists
    BY <2>1
  <2>4. ASSUME NEW which \in DOMAIN lists, lists'[which] # NotYet
        PROVE  Split(lists'[which].names, lists'[which].answered, there, which)
    <3>1. CASE which = reading
      BY <2>1, <2>2, <2>4, <3>1
    <3>2. CASE which # reading
      BY <1>0, <2>1, <2>4, <3>2
    <3> QED
      BY <3>1, <3>2
  <2> QED
    BY <1>0, <1>a, <2>1, <2>3, <2>4 DEF ScanIInv, Split
<1> QED
  BY <1>1, <1>2, <1>3 DEF ScanNext

(* For any names in any order, any modes, and stat failing for any of      *)
(* them: of the names stat succeeded for, lsdir lists those whose mode has *)
(* the bit 0x4000 and lsfile the others, and no name is listed twice       *)
(* (extlua.c:471-491).                                                     *)
THEOREM ListsSplitAlways == Spec => []ListsSplit
<1>1. Init => ScanIInv
  <2> SUFFICES ASSUME ScanStart PROVE ScanIInv
    BY DEF Init
  <2>1. /\ left = {} /\ reading = "none"
        /\ lists = [which \in {"lsdir", "lsfile"} |-> NotYet]
    BY DEF ScanStart
  <2> QED
    BY <2>1 DEF ScanIInv
<1>2. ScanIInv /\ [Next]_vars => ScanIInv'
  <2> SUFFICES ASSUME ScanIInv, [Next]_vars PROVE ScanIInv'
    OBVIOUS
  <2>1. ScanNext \/ UNCHANGED scanvars
    <3>1. CASE Host \/ Pb \/ Js \/ Utest
      BY <3>1 DEF Host, Pb, Js, Utest
    <3>2. CASE Logging \/ Lisp \/ Scan \/ UNCHANGED vars
      BY <3>2 DEF Logging, Lisp, Scan, vars
    <3> QED
      BY <3>1, <3>2 DEF Next
  <2>2. CASE UNCHANGED scanvars
    BY <2>2 DEF scanvars, ScanIInv, Split
  <2> QED
    BY <2>1, <2>2, ScanKept
<1>3. ScanIInv => ListsSplit
  BY DEF ScanIInv, Split, ListsSplit
<1> QED
  BY <1>1, <1>2, <1>3, PTL DEF Spec

-----------------------------------------------------------------------------
(***************************************************************************)
(* The command line of pb: the words of a line, and what a script is       *)
(* called with.                                                            *)
(***************************************************************************)
(* The rank of a number among those of a finite set.                       *)
LEMMA RankStep ==
  ASSUME NEW n \in Nat, NEW S, S \subseteq 1 .. n, NEW i \in Int
  PROVE  /\ Rank(S, i) \in Nat
         /\ i \in S => Rank(S, i) = Rank(S, i - 1) + 1
         /\ i \notin S => Rank(S, i) = Rank(S, i - 1)
<1> DEFINE To(k) == {j \in S : j <= k}
<1>1. IsFiniteSet(S)
  <2>1. IsFiniteSet(1 .. n)
    BY FS_Interval
  <2> QED
    BY <2>1, FS_Subset
<1>2. IsFiniteSet(To(i)) /\ IsFiniteSet(To(i - 1))
  BY <1>1, FS_Subset
<1>3. \A j \in S : j <= i <=> (j <= i - 1 \/ j = i)
  <2>1. ASSUME NEW j \in Int PROVE j <= i <=> (j <= i - 1 \/ j = i)
    OBVIOUS
  <2> QED
    BY <2>1
<1>4. i \notin To(i - 1)
  OBVIOUS
<1>5. i \in S => To(i) = To(i - 1) \union {i}
  BY <1>3
<1>6. i \notin S => To(i) = To(i - 1)
  BY <1>3
<1> HIDE DEF To
<1>7. Cardinality(To(i)) \in Nat /\ Cardinality(To(i - 1)) \in Nat
  BY <1>2, FS_CardinalityType
<1>8. i \in S => Cardinality(To(i)) = Cardinality(To(i - 1)) + 1
  BY <1>2, <1>4, <1>5, FS_AddElement
<1> QED
  BY <1>6, <1>7, <1>8 DEF Rank, To

LEMMA RankGrows ==
  ASSUME NEW n \in Nat, NEW S, S \subseteq 1 .. n, NEW i \in S, NEW j \in S, i < j
  PROVE  Rank(S, i) < Rank(S, j)
<1> DEFINE To(k) == {l \in S : l <= k}
<1>1. IsFiniteSet(S)
  <2>1. IsFiniteSet(1 .. n)
    BY FS_Interval
  <2> QED
    BY <2>1, FS_Subset
<1>2. IsFiniteSet(To(i)) /\ IsFiniteSet(To(j - 1))
  BY <1>1, FS_Subset
<1>3. i \in Int /\ j \in Int /\ \A l \in S : l \in Int
  OBVIOUS
<1>4. To(i) \subseteq To(j - 1)
  <2>1. ASSUME NEW l \in Int, l <= i PROVE l <= j - 1
    BY <1>3, <2>1
  <2> QED
    BY <1>3, <2>1
<1> HIDE DEF To
<1>5. Cardinality(To(i)) <= Cardinality(To(j - 1))
  BY <1>2, <1>4, FS_Subset
<1>6. Rank(S, i) <= Rank(S, j - 1)
  BY <1>5 DEF Rank, To
<1>7. Rank(S, j) = Rank(S, j - 1) + 1 /\ Rank(S, i) \in Nat
  BY <1>3, RankStep
<1>8. Rank(S, j - 1) \in Nat
  <2>1. j - 1 \in Int
    BY <1>3
  <2> QED
    BY <2>1, RankStep
<1> QED
  BY <1>6, <1>7, <1>8

LEMMA NthIs ==
  ASSUME NEW n \in Nat, NEW S, S \subseteq 1 .. n, NEW i \in S
  PROVE  Nth(S, Rank(S, i)) = i
<1> DEFINE r == Rank(S, i)
<1>1. ASSUME NEW j \in S, Rank(S, j) = r PROVE j = i
  <2>1. i \in Int /\ j \in Int /\ Rank(S, i) \in Nat /\ Rank(S, j) \in Nat
    <3>1. i \in Int /\ j \in Int
      OBVIOUS
    <3> QED
      BY <3>1, RankStep
  <2>2. ~(i < j) /\ ~(j < i)
    <3>1. i < j => Rank(S, i) < Rank(S, j)
      BY RankGrows
    <3>2. j < i => Rank(S, j) < Rank(S, i)
      BY RankGrows
    <3> QED
      BY <1>1, <2>1, <3>1, <3>2
  <2> QED
    BY <2>1, <2>2
<1> QED
  BY <1>1 DEF Nth

-----------------------------------------------------------------------------
(* What the scan of wa_split_args knows after i characters: whether it is  *)
(* inside a word, where that began, and the words before it.               *)
WordAt(text, w, k) ==
  \E b \in Begins(text), e \in Ends(text) :
    w = SubSeq(text, b, e) /\ Rank(Begins(text), b) = k /\ Rank(Ends(text), e) = k

ScannedTo(s, text, i) ==
  /\ s.words \in Seq(Seq(STRING)) /\ s.start \in 0 .. Len(text)
  /\ s.start = 0 <=> ~Inside(text, i)
  /\ s.start # 0 => /\ s.start \in Begins(text)
                    /\ Rank(Begins(text), s.start) = Len(s.words) + 1
                    /\ Rank(Begins(text), i) = Len(s.words) + 1
  /\ s.start = 0 => Rank(Begins(text), i) = Len(s.words)
  /\ Rank(Ends(text), i - 1) = Len(s.words)
  /\ \A k \in 1 .. Len(s.words) : WordAt(text, s.words[k], k)

Turn(text, s, i) ==
  IF isspace(text[i])
  THEN IF s.start = 0 THEN s
       ELSE [words |-> Append(s.words, SubSeq(text, s.start, i - 1)), start |-> 0]
  ELSE IF s.start = 0 THEN [s EXCEPT !.start = i] ELSE s

LEMMA BeginsEnds ==
  ASSUME NEW text \in Seq(STRING)
  PROVE  /\ Len(text) \in Nat /\ DOMAIN text = 1 .. Len(text)
         /\ Begins(text) \subseteq 1 .. Len(text) /\ Ends(text) \subseteq 1 .. Len(text)
         /\ \A i \in 1 .. Len(text) : text[i] \in STRING
  BY LenProperties, ElementOfSeq DEF Begins, Ends

(* A word is added behind the others.                                      *)
LEMMA WordAdded ==
  ASSUME NEW text \in Seq(STRING), NEW words \in Seq(Seq(STRING)),
         \A k \in 1 .. Len(words) : WordAt(text, words[k], k),
         NEW b \in Begins(text), NEW e \in Ends(text),
         Rank(Begins(text), b) = Len(words) + 1, Rank(Ends(text), e) = Len(words) + 1,
         NEW more, more = Append(words, SubSeq(text, b, e))
  PROVE  /\ more \in Seq(Seq(STRING)) /\ Len(more) = Len(words) + 1
         /\ \A k \in 1 .. Len(more) : WordAt(text, more[k], k)
<1> DEFINE w == SubSeq(text, b, e)
<1>1. w \in Seq(STRING)
  <2>1. b \in 1 .. Len(text) /\ e \in 1 .. Len(text) /\ Len(text) \in Nat
        /\ \A i \in 1 .. Len(text) : text[i] \in STRING
    BY BeginsEnds
  <2>2. b \in Int /\ e \in Int /\ \A i \in b .. e : text[i] \in STRING
    BY <2>1
  <2> QED
    BY <2>2, SubSeqProperties
<1>2. WordAt(text, w, Len(words) + 1)
  BY DEF WordAt
<1> HIDE DEF w
<1>3. /\ Append(words, w) \in Seq(Seq(STRING)) /\ Len(Append(words, w)) = Len(words) + 1
      /\ \A k \in 1 .. Len(words) : Append(words, w)[k] = words[k]
      /\ Append(words, w)[Len(words) + 1] = w
  BY <1>1, AppendProperties
<1>4. more = Append(words, w) /\ Len(words) \in Nat
  BY LenProperties DEF w
<1>5. ASSUME NEW k \in 1 .. Len(more) PROVE WordAt(text, more[k], k)
  <2>1. k = Len(words) + 1 \/ k \in 1 .. Len(words)
    BY <1>3, <1>4
  <2>2. CASE k = Len(words) + 1
    BY <1>2, <1>3, <1>4, <2>2
  <2>3. CASE k \in 1 .. Len(words)
    <3>1. more[k] = words[k]
      BY <1>3, <1>4, <2>3
    <3> QED
      BY <2>3, <3>1
  <2> QED
    BY <2>1, <2>2, <2>3
<1> QED
  BY <1>3, <1>4, <1>5

LEMMA OneScanned ==
  ASSUME NEW text \in Seq(STRING), NEW i \in 1 .. Len(text), NEW s, ScannedTo(s, text, i - 1),
         s \in [words : Seq(Seq(STRING)), start : 0 .. Len(text)]
  PROVE  ScannedTo(Turn(text, s, i), text, i)
<1> DEFINE n == Len(text)
           B == Begins(text)
           E == Ends(text)
           m == Len(s.words)
           t == Turn(text, s, i)
<1>1. n \in Nat /\ i \in 1 .. n /\ i \in Int /\ i - 1 \in Int /\ i \in DOMAIN text
  BY BeginsEnds
<1>2. Inside(text, i) <=> ~isspace(text[i])
  BY <1>1 DEF Inside
<1>3. i \in B <=> Inside(text, i) /\ ~Inside(text, i - 1)
  BY <1>1 DEF Begins
<1>4. i - 1 \in E <=> Inside(text, i - 1) /\ ~Inside(text, i)
  <2>1. i - 1 + 1 = i
    BY <1>1
  <2>2. Inside(text, i - 1) => i - 1 \in DOMAIN text
    BY DEF Inside
  <2> QED
    BY <2>1, <2>2 DEF Ends
<1>5. /\ i \in B => Rank(B, i) = Rank(B, i - 1) + 1
      /\ i \notin B => Rank(B, i) = Rank(B, i - 1)
  BY <1>1, BeginsEnds, RankStep
<1>6. /\ i - 1 \in E => Rank(E, i - 1) = Rank(E, i - 1 - 1) + 1
      /\ i - 1 \notin E => Rank(E, i - 1) = Rank(E, i - 1 - 1)
  BY <1>1, BeginsEnds, RankStep
<1>7. /\ s.words \in Seq(Seq(STRING)) /\ s.start \in 0 .. n /\ m \in Nat
      /\ s.start = 0 <=> ~Inside(text, i - 1)
      /\ s.start # 0 => s.start \in B /\ Rank(B, s.start) = m + 1 /\ Rank(B, i - 1) = m + 1
      /\ s.start = 0 => Rank(B, i - 1) = m
      /\ Rank(E, i - 1 - 1) = m
      /\ \A k \in 1 .. m : WordAt(text, s.words[k], k)
  BY LenProperties DEF ScannedTo
<1> HIDE DEF n, B, E, m
<1>8. CASE isspace(text[i]) /\ s.start = 0
  <2>1. t = s /\ i \notin B /\ i - 1 \notin E
    BY <1>2, <1>3, <1>4, <1>7, <1>8 DEF Turn
  <2>2. Rank(B, i) = m /\ Rank(E, i - 1) = m
    BY <1>5, <1>6, <1>7, <1>8, <2>1
  <2> QED
    BY <1>2, <1>7, <1>8, <2>1, <2>2 DEF ScannedTo, n, B, E, m
<1>9. CASE isspace(text[i]) /\ s.start # 0
  <2> DEFINE more == Append(s.words, SubSeq(text, s.start, i - 1))
  <2>1. t = [words |-> more, start |-> 0] /\ i \notin B /\ i - 1 \in E
    BY <1>2, <1>3, <1>4, <1>7, <1>9 DEF Turn
  <2>2. Rank(B, i) = m + 1 /\ Rank(E, i - 1) = m + 1
    BY <1>5, <1>6, <1>7, <1>9, <2>1
  <2>3. /\ more \in Seq(Seq(STRING)) /\ Len(more) = m + 1
        /\ \A k \in 1 .. Len(more) : WordAt(text, more[k], k)
    <3>1. /\ s.start \in Begins(text) /\ i - 1 \in Ends(text)
          /\ Rank(Begins(text), s.start) = Len(s.words) + 1
          /\ Rank(Ends(text), i - 1) = Len(s.words) + 1
      BY <1>7, <1>9, <2>1, <2>2 DEF B, E, m
    <3>2. /\ s.words \in Seq(Seq(STRING))
          /\ \A k \in 1 .. Len(s.words) : WordAt(text, s.words[k], k)
      BY <1>7 DEF m
    <3> HIDE DEF more
    <3>3. more = Append(s.words, SubSeq(text, s.start, i - 1))
      BY DEF more
    <3> QED
      BY <3>1, <3>2, <3>3, WordAdded DEF m
  <2> HIDE DEF more
  <2>4. t.words = more /\ t.start = 0 /\ 0 \in 0 .. n
    BY <1>1, <2>1
  <2> QED
    BY <1>2, <1>9, <2>2, <2>3, <2>4 DEF ScannedTo, n, B, E, m
<1>10. CASE ~isspace(text[i]) /\ s.start = 0
  <2>1. t = [s EXCEPT !.start = i] /\ i \in B /\ i - 1 \notin E
    BY <1>2, <1>3, <1>4, <1>7, <1>10 DEF Turn
  <2>2. Rank(B, i) = m + 1 /\ Rank(E, i - 1) = m
    BY <1>5, <1>6, <1>7, <1>10, <2>1
  <2>3. t.words = s.words /\ t.start = i /\ i # 0 /\ i \in 0 .. n
    BY <1>1, <2>1
  <2> QED
    BY <1>2, <1>7, <1>10, <2>1, <2>2, <2>3 DEF ScannedTo, n, B, E, m
<1>11. CASE ~isspace(text[i]) /\ s.start # 0
  <2>1. t = s /\ i \notin B /\ i - 1 \notin E
    BY <1>2, <1>3, <1>4, <1>7, <1>11 DEF Turn
  <2>2. Rank(B, i) = m + 1 /\ Rank(E, i - 1) = m
    BY <1>5, <1>6, <1>7, <1>11, <2>1
  <2> QED
    BY <1>2, <1>7, <1>11, <2>1, <2>2 DEF ScannedTo, n, B, E, m
<1> QED
  BY <1>8, <1>9, <1>10, <1>11

LEMMA TurnTyped ==
  ASSUME NEW text \in Seq(STRING), NEW i \in 1 .. Len(text),
         NEW s \in [words : Seq(Seq(STRING)), start : 0 .. Len(text)]
  PROVE  Turn(text, s, i) \in [words : Seq(Seq(STRING)), start : 0 .. Len(text)]
<1> DEFINE n == Len(text)
<1>1. n \in Nat /\ i \in 1 .. n /\ \A j \in 1 .. n : text[j] \in STRING
  BY BeginsEnds
<1> HIDE DEF n
<1>2. s.words \in Seq(Seq(STRING)) /\ s.start \in 0 .. n
  BY DEF n
<1>3. CASE isspace(text[i]) /\ s.start # 0
  <2> DEFINE w == SubSeq(text, s.start, i - 1)
  <2>1. \A j \in s.start .. i - 1 : text[j] \in STRING
    BY <1>1, <1>2, <1>3
  <2>2. s.start \in Int /\ i - 1 \in Int
    BY <1>1, <1>2
  <2>3. w \in Seq(STRING)
    BY <2>1, <2>2, SubSeqProperties
  <2> HIDE DEF w
  <2>4. Append(s.words, w) \in Seq(Seq(STRING))
    BY <1>2, <2>3, AppendProperties
  <2>5. Turn(text, s, i) = [words |-> Append(s.words, w), start |-> 0]
    BY <1>3 DEF Turn, w
  <2>6. 0 \in 0 .. n
    BY <1>1
  <2> QED
    BY <2>4, <2>5, <2>6 DEF n
<1>4. CASE ~isspace(text[i]) /\ s.start = 0
  <2>1. Turn(text, s, i) = [s EXCEPT !.start = i] /\ i \in 0 .. n
    BY <1>1, <1>4 DEF Turn
  <2> QED
    BY <2>1 DEF n
<1>5. CASE isspace(text[i]) <=> s.start = 0
  BY <1>5 DEF Turn
<1> QED
  BY <1>3, <1>4, <1>5

LEMMA AllScanned ==
  ASSUME NEW text \in Seq(STRING)
  PROVE  /\ ScannedTo(Scanned(text), text, Len(text))
         /\ Scanned(text) \in [words : Seq(Seq(STRING)), start : 0 .. Len(text)]
<1> DEFINE n == Len(text)
           Scans == [words : Seq(Seq(STRING)), start : 0 .. n]
           begin == [words |-> <<>>, start |-> 0]
           scan[i \in 0 .. n] ==
             IF i = 0 THEN begin
             ELSE LET s == scan[i - 1]
                  IN IF isspace(text[i])
                     THEN IF s.start = 0 THEN s
                          ELSE [words |-> Append(s.words, SubSeq(text, s.start, i - 1)), start |-> 0]
                     ELSE IF s.start = 0 THEN [s EXCEPT !.start = i] ELSE s
<1>1. n \in Nat
  BY LenProperties
<1>2. begin \in Scans
  <2>1. <<>> \in Seq(Seq(STRING)) /\ 0 \in 0 .. n
    BY <1>1, EmptySeq
  <2> QED
    BY <2>1
<1>3. \A i \in 1 .. n : \A s \in Scans : Turn(text, s, i) \in Scans
  BY TurnTyped
<1>4. scan = [i \in 0 .. n |-> IF i = 0 THEN begin ELSE Turn(text, scan[i - 1], i)]
  <2> SUFFICES \E g : g = [i \in 0 .. n |-> IF i = 0 THEN begin ELSE Turn(text, g[i - 1], i)]
    BY DEF Turn
  <2> DEFINE step == [i \in 1 .. n |-> [s \in Scans |-> Turn(text, s, i)]]
  <2> HIDE DEF n, Scans, begin
  <2>1. step \in Steps(n, Scans)
    BY <1>3 DEF Steps
  <2>2. \A i \in 1 .. n : \A s \in Scans : step[i][s] = Turn(text, s, i)
    OBVIOUS
  <2> HIDE DEF step
  <2>3. PICK g : Follows(g, n, Scans, begin, step)
    BY <1>1, <1>2, <2>1, Recursion
  <2>4. g \in [0 .. n -> Scans] /\ g[0] = begin /\ \A i \in 1 .. n : g[i] = step[i][g[i - 1]]
    BY <2>3 DEF Follows
  <2>5. ASSUME NEW i \in 0 .. n PROVE g[i] = IF i = 0 THEN begin ELSE Turn(text, g[i - 1], i)
    <3>1. CASE i = 0
      BY <2>4, <3>1
    <3>2. CASE i # 0
      <4>1. i \in 1 .. n /\ i - 1 \in 0 .. n
        BY <1>1, <3>2
      <4>2. g[i - 1] \in Scans /\ g[i] = step[i][g[i - 1]]
        BY <2>4, <4>1
      <4> QED
        BY <2>2, <3>2, <4>1, <4>2
    <3> QED
      BY <3>1, <3>2
  <2> QED
    BY <2>4, <2>5
<1>5. Scanned(text) = scan[n]
  BY DEF Scanned
<1> HIDE DEF scan
<1> DEFINE S == {i \in 0 .. n : scan[i] \in Scans /\ ScannedTo(scan[i], text, i)}
<1>6. 0 \in S
  <2>1. scan[0] = begin /\ 0 \in 0 .. n
    BY <1>1, <1>4
  <2>2. ~Inside(text, 0)
    BY BeginsEnds DEF Inside
  <2>3. Rank(Begins(text), 0) = 0 /\ Rank(Ends(text), 0 - 1) = 0
    <3>1. {j \in Begins(text) : j <= 0} = {} /\ {j \in Ends(text) : j <= 0 - 1} = {}
      BY <1>1, BeginsEnds
    <3> QED
      BY <3>1, FS_EmptySet DEF Rank
  <2>4. begin.words = <<>> /\ begin.start = 0 /\ Len(<<>>) = 0 /\ <<>> \in Seq(Seq(STRING))
    BY EmptySeq
  <2> HIDE DEF begin
  <2>5. ScannedTo(begin, text, 0)
    BY <1>1, <2>2, <2>3, <2>4 DEF ScannedTo
  <2> QED
    BY <1>2, <2>1, <2>5
<1>7. ASSUME NEW i \in 1 .. n, i - 1 \in S PROVE i \in S
  <2>1. i \in 0 .. n /\ i # 0 /\ scan[i - 1] \in Scans /\ ScannedTo(scan[i - 1], text, i - 1)
    BY <1>1, <1>7
  <2>2. scan[i] = Turn(text, scan[i - 1], i)
    BY <1>4, <2>1
  <2>3. Turn(text, scan[i - 1], i) \in Scans
    BY <1>3, <2>1
  <2>4. ScannedTo(Turn(text, scan[i - 1], i), text, i)
    BY <2>1, OneScanned
  <2> QED
    BY <2>1, <2>2, <2>3, <2>4
<1> HIDE DEF S, n
<1>8. \A i \in 0 .. n : i \in S
  BY <1>1, <1>6, <1>7, UpTo
<1>9. n \in 0 .. n
  BY <1>1
<1> QED
  BY <1>5, <1>8, <1>9 DEF S, n

(* wa_split_args finds the words of any line.                              *)
THEOREM SplitFindsWords ==
  ASSUME NEW text \in Seq(STRING)
  PROVE  wa_split_args(text) \in Seq(Seq(STRING)) /\ wa_split_args(text) = WordsOf(text)
<1> DEFINE n == Len(text)
           B == Begins(text)
           E == Ends(text)
           s == Scanned(text)
           words == wa_split_args(text)
<1>1. n \in Nat /\ B \subseteq 1 .. n /\ E \subseteq 1 .. n /\ DOMAIN text = 1 .. n
  BY BeginsEnds
<1>2. /\ s.words \in Seq(Seq(STRING)) /\ s.start \in 0 .. n /\ Len(s.words) \in Nat
      /\ s.start = 0 <=> ~Inside(text, n)
      /\ s.start # 0 => s.start \in B /\ Rank(B, s.start) = Len(s.words) + 1 /\ Rank(B, n) = Len(s.words) + 1
      /\ s.start = 0 => Rank(B, n) = Len(s.words)
      /\ Rank(E, n - 1) = Len(s.words)
      /\ \A k \in 1 .. Len(s.words) : WordAt(text, s.words[k], k)
  BY AllScanned, LenProperties DEF ScannedTo
<1>3. Rank(B, n) = Cardinality(B)
  <2>1. {j \in B : j <= n} = B
    BY <1>1
  <2> QED
    BY <2>1 DEF Rank
<1>4. /\ words \in Seq(Seq(STRING)) /\ Len(words) = Cardinality(B)
      /\ \A k \in 1 .. Len(words) : WordAt(text, words[k], k)
  <2>1. CASE s.start = 0
    <3>1. words = s.words
      BY <2>1 DEF wa_split_args
    <3> QED
      BY <1>2, <1>3, <2>1, <3>1
  <2>2. CASE s.start # 0
    <3>1. words = Append(s.words, SubSeq(text, s.start, n))
      BY <2>2 DEF wa_split_args
    <3>2. n \in E
      <4>1. Inside(text, n)
        BY <1>2, <2>2
      <4>2. n \in DOMAIN text /\ n + 1 \notin DOMAIN text
        BY <1>1, <4>1 DEF Inside
      <4> QED
        BY <4>1, <4>2 DEF Ends, Inside
    <3>3. Rank(E, n) = Rank(E, n - 1) + 1
      <4>1. n \in Int
        BY <1>1
      <4> QED
        BY <1>1, <3>2, <4>1, RankStep
    <3>4. Rank(E, n) = Len(s.words) + 1 /\ s.start \in B
      BY <1>2, <2>2, <3>3
    <3> HIDE DEF words, s, n
    <3>5. /\ words \in Seq(Seq(STRING)) /\ Len(words) = Len(s.words) + 1
          /\ \A k \in 1 .. Len(words) : WordAt(text, words[k], k)
      BY <1>2, <2>2, <3>1, <3>2, <3>4, WordAdded
    <3> QED
      BY <1>2, <1>3, <2>2, <3>5
  <2> QED
    BY <2>1, <2>2
<1> HIDE DEF words
<1>5. ASSUME NEW k \in 1 .. Cardinality(B) PROVE words[k] = SubSeq(text, Nth(B, k), Nth(E, k))
  <2>1. WordAt(text, words[k], k)
    BY <1>4
  <2>2. PICK b \in B, e \in E :
          words[k] = SubSeq(text, b, e) /\ Rank(B, b) = k /\ Rank(E, e) = k
    BY <2>1 DEF WordAt
  <2>3. Nth(B, k) = b /\ Nth(E, k) = e
    BY <1>1, <2>2, NthIs
  <2> QED
    BY <2>2, <2>3
<1>6. words = [k \in 1 .. Cardinality(B) |-> SubSeq(text, Nth(B, k), Nth(E, k))]
  <2>1. words \in [1 .. Cardinality(B) -> Seq(STRING)]
    BY <1>4, LenProperties
  <2> QED
    BY <1>5, <2>1
<1> QED
  BY <1>4, <1>6 DEF WordsOf, words

-----------------------------------------------------------------------------
(* The stack holds values, the command words; before run_lua no file ran,  *)
(* which a command without words never reaches, and only pb has a command. *)
PbIInv ==
  /\ stack \in Seq(Values) /\ argv \in Seq(Seq(STRING))
  /\ program # "pb" => argv = <<>> /\ line = <<>>
  /\ program = "pb" /\ pc \in {"main", "cli_entry", "linit", "run_lua"} => called = NoCall
  /\ pc = "main" => argv = <<>> /\ line = <<>>
  /\ pc \in {"linit", "run_lua"} => argv # <<>>
  /\ ArgsAgree

LEMMA ReturnsAreValues ==
  \A rest \in Returns \union {<<Message>>} : rest \in Seq(Values)
<1>1. ASSUME NEW rest \in Returns PROVE rest \in Seq(Values)
  BY LuaAssumption, WordsAreValues
<1>2. <<Message>> \in Seq(Values)
  BY ValuesAre
<1> QED
  BY <1>1, <1>2

LEMMA PrintedIsStack ==
  ASSUME NEW s \in Seq(Values)
  PROVE  Printed(s) \in Seq(Values)
  BY PrintedLooked DEF Looked

(* What the bridge does for a program of its own.                          *)
LEMMA LuaKept ==
  ASSUME PbIInv, program = "host", LuaNext, UNCHANGED <<pbvars, program>>
  PROVE  PbIInv'
<1>0. /\ stack \in Seq(Values) /\ argv = <<>> /\ line = <<>> /\ CalledInOrder
      /\ argv \in Seq(Seq(STRING))
  BY DEF PbIInv, ArgsAgree
<1>1. SUFFICES stack' \in Seq(Values) /\ CalledInOrder'
  <2>1. Len(<<>>) = 0 /\ ~(0 > 1)
    OBVIOUS
  <2>2. argc' = 0 /\ argv' = argv /\ line' = line /\ prgv' = prgv /\ program' = program /\ pc' = pc
    BY <1>0, <2>1 DEF argc, pbvars
  <2> QED
    BY <1>0, <2>1, <2>2 DEF PbIInv, ArgsAgree
<1>2. CASE wa_linit \/ wa_lclose
  <2>1. stack' = <<>> /\ called' = called
    BY <1>2 DEF wa_linit, wa_lclose
  <2> QED
    BY <1>0, <2>1, EmptySeq DEF CalledInOrder
<1>3. ASSUME NEW v \in Values, PushValue(v) PROVE stack' \in Seq(Values) /\ CalledInOrder'
  <2>1. stack' = Append(stack, v) /\ called' = called
    BY <1>3 DEF PushValue
  <2> QED
    BY <1>0, <2>1, AppendProperties DEF CalledInOrder
<1>4. ASSUME Len(stack) < Len(Args), PushValue(Args[Len(stack) + 1])
      PROVE  stack' \in Seq(Values) /\ CalledInOrder'
  <2>1. Len(stack) \in Nat /\ Args \in Seq(Values) /\ Len(Args) \in Nat
    BY <1>0, LuaAssumption, WordsAreValues, LenProperties
  <2>2. Len(stack) + 1 \in 1 .. Len(Args)
    BY <1>4, <2>1
  <2>3. Args[Len(stack) + 1] \in Values
    BY <2>1, <2>2, ElementOfSeq
  <2> QED
    BY <1>3, <1>4, <2>3
<1>5. ASSUME NEW narg \in {0, Len(stack)}, NEW loads, NEW runs, wa_ldofile(narg, loads, runs)
      PROVE  stack' \in Seq(Values) /\ CalledInOrder'
  <2>1. /\ stack' = <<>>
        /\ called' = NoCall \/ (called'.fn = Chunk /\ called'.msgh = Traceback
                                /\ called'.args = called'.pushed)
    BY <1>0, <1>5, FileCalled DEF wa_ldofile
  <2> QED
    BY <2>1, EmptySeq DEF CalledInOrder
<1>6. CASE wa_debug_lua
  <2>1. stack' = Printed(stack) /\ called' = called
    BY <1>6 DEF wa_debug_lua
  <2> QED
    BY <1>0, <2>1, PrintedIsStack DEF CalledInOrder
<1>7. ASSUME NEW v \in Tables, PushValue(v) PROVE stack' \in Seq(Values) /\ CalledInOrder'
  BY <1>3, <1>7, ValuesAre
<1> QED
  BY <1>2, <1>4, <1>5, <1>6, <1>7 DEF LuaNext

(* The words after the command, which pb pushes.                           *)
LEMMA PushedWords ==
  ASSUME argv \in Seq(Seq(STRING)), argc # 0
  PROVE  /\ SubSeq(argv, 2, argc) \in Seq(Values)
         /\ Len(SubSeq(argv, 2, argc)) = argc - 1 /\ argc \in Nat
<1>1. argc \in Nat /\ \A i \in 1 .. argc : argv[i] \in Seq(STRING)
  BY LenProperties, ElementOfSeq DEF argc
<1>2. \A i \in 2 .. argc : argv[i] \in Seq(STRING)
  BY <1>1
<1> HIDE DEF argc
<1>3. /\ SubSeq(argv, 2, argc) \in Seq(Seq(STRING))
      /\ Len(SubSeq(argv, 2, argc)) = IF 2 <= argc THEN argc - 2 + 1 ELSE 0
  BY <1>1, <1>2, SubSeqProperties
<1>4. Len(SubSeq(argv, 2, argc)) = argc - 1
  BY <1>1, <1>3
<1> QED
  BY <1>1, <1>3, <1>4, WordsAreValues

(* What pb does about Lua, once its command is known.                      *)
LEMMA RunKept ==
  ASSUME PbIInv, program = "pb", run_lua, program' = program
  PROVE  PbIInv'
<1>0. /\ stack \in Seq(Values) /\ argv \in Seq(Seq(STRING)) /\ called = NoCall
      /\ line # <<>> /\ prgv # "refused" => argv = WordsOf(line)
      /\ argv' = argv /\ line' = line /\ prgv' = prgv /\ argc' = argc
  BY DEF PbIInv, ArgsAgree, run_lua, argc
<1>1. pc' \in {"lclose", "exited"}
  BY DEF run_lua, Goto, usage
<1>2. ASSUME stack' \in Seq(Values), CalledInOrder',
             called' # NoCall /\ argc > 1 =>
               called'.args = SubSeq(argv, 2, argc) /\ arg' = [at |-> 0, words |-> called'.args]
      PROVE  PbIInv'
  <2>1. pc' \notin {"main", "cli_entry", "linit", "run_lua"} /\ program' = "pb"
    BY <1>1
  <2> QED
    BY <1>0, <1>2, <2>1 DEF PbIInv, ArgsAgree
<1>3. CASE argc = 1
  <2>1. PICK loads, runs : RunFile(<<>>, 0, loads, runs)
    BY <1>3 DEF run_lua
  <2>2. <<>> \in Seq(Values)
    BY EmptySeq
  <2>3. /\ stack' = <<>>
        /\ called' = NoCall \/ (called'.fn = Chunk /\ called'.msgh = Traceback
                                /\ called'.args = called'.pushed)
    BY <2>1, <2>2, FileCalled
  <2> QED
    BY <1>2, <1>3, <2>2, <2>3 DEF CalledInOrder
<1>4. ASSUME called' = called, stack' \in Seq(Values) PROVE PbIInv'
  BY <1>0, <1>2, <1>4 DEF CalledInOrder
<1>5. CASE Idle
  BY <1>0, <1>4, <1>5 DEF Idle, luavars
<1>6. CASE _lua_help
  <2>1. called' = called /\ stack' = <<<<"table3">>, <<"doc">>>>
    BY <1>6 DEF _lua_help
  <2>2. <<"table3">> \in Values /\ <<"doc">> \in Values
    BY DEF Values, Tables
  <2>3. <<<<"table3">>, <<"doc">>>> \in Seq(Values)
    BY <2>2
  <2> QED
    BY <1>4, <2>1, <2>3
<1>7. CASE _lua_expr
  <2>1. PICK rest \in Returns \union {<<Message>>} : stack' = Printed(rest) /\ called' = called
    BY <1>7 DEF _lua_expr
  <2> QED
    BY <1>4, <2>1, ReturnsAreValues, PrintedIsStack
<1>8. CASE argc # 1 /\ argc # 0 /\ _lua_dofile
  <2>1. PushWords \in Seq(Values) /\ Len(PushWords) = argc - 1 /\ argc \in Nat
    BY <1>0, <1>8, PushedWords DEF PushWords
  <2>2. CASE IsLisp
    <3>1. PICK rest \in Returns : stack' = stack \o PushWords \o rest
      BY <1>8, <2>2 DEF _lua_dofile
    <3>2. stack \o PushWords \in Seq(Values)
      BY <1>0, <2>1, ConcatProperties
    <3>3. stack' \in Seq(Values)
      BY <3>1, <3>2, ReturnsAreValues, ConcatProperties
    <3> QED
      BY <1>4, <1>8, <2>2, <3>3 DEF _lua_dofile
  <2>3. CASE ~IsLisp
    <3>1. PICK loads, runs : RunFile(PushWords, argc - 1, loads, runs)
      BY <1>8, <2>3 DEF _lua_dofile
    <3>2. arg' = [at |-> 0, words |-> SubSeq(argv, 2, argc)]
      BY <1>8, <2>3 DEF _lua_dofile, ArgTable
    <3>3. argc - 1 \in {0, Len(PushWords)} /\ argc - 1 # 0
      BY <1>8, <2>1
    <3>4. /\ stack' = <<>>
          /\ called' = NoCall \/ (called'.fn = Chunk /\ called'.msgh = Traceback
                                  /\ called'.args = PushWords /\ called'.pushed = PushWords)
      BY <2>1, <3>1, <3>3, FileCalled
    <3> QED
      BY <1>2, <3>2, <3>4, EmptySeq DEF CalledInOrder, PushWords
  <2> QED
    BY <2>2, <2>3
<1>9. argc # 0
  <2>1. argv \in Seq(Seq(STRING)) /\ argv # <<>>
    BY DEF PbIInv, run_lua
  <2> QED
    BY <2>1, EmptySeq DEF argc
<1> QED
  BY <1>3, <1>5, <1>6, <1>7, <1>8, <1>9 DEF run_lua

LEMMA PbKept ==
  ASSUME PbIInv, Pb
  PROVE  PbIInv'
<1>0. /\ stack \in Seq(Values) /\ argv \in Seq(Seq(STRING)) /\ CalledInOrder
      /\ pc = "main" => argv = <<>> /\ line = <<>>
      /\ pc \in {"main", "cli_entry", "linit", "run_lua"} => called = NoCall
      /\ pc \in {"linit", "run_lua"} => argv # <<>>
      /\ line # <<>> /\ prgv # "refused" => argv = WordsOf(line)
      /\ program = "pb" /\ program' = "pb"
  BY DEF PbIInv, Pb, ArgsAgree
<1>1. ASSUME stack' \in Seq(Values), called' = called, argv' = argv, line' = line, arg' = arg,
             pc \in {"main", "cli_entry", "linit"}
               \/ pc' \notin {"main", "cli_entry", "linit", "run_lua"},
             pc' \in {"linit", "run_lua"} => argv # <<>>, pc' # "main",
             prgv = "refused" => prgv' = "refused"
      PROVE  PbIInv'
  <2>1. argc' = argc
    BY <1>1 DEF argc
  <2> QED
    BY <1>0, <1>1, <2>1 DEF PbIInv, ArgsAgree, CalledInOrder
<1>2. CASE main
  <2>1. stack' = stack /\ called' = called /\ arg' = arg /\ called = NoCall /\ pc' \in {"cli_entry", "exited"}
    BY <1>0, <1>2 DEF main, Idle, luavars, Goto
  <2>2. /\ argv' \in Seq(Seq(STRING))
        /\ line' # <<>> /\ prgv' # "refused" => argv' = WordsOf(line')
    <3>1. CASE \E words \in Commands : argv' = words /\ Goto("cli_entry") /\ UNCHANGED <<line, prgv>>
      BY <1>0, <1>2, <3>1, PbAssumption DEF main
    <3>2. CASE \E text \in Lines : line' = text /\ argv' = wa_split_args(text)
      <4>1. PICK text \in Lines : line' = text /\ argv' = wa_split_args(text)
        BY <3>2
      <4> QED
        BY <4>1, PbAssumption, SplitFindsWords
    <3>3. CASE UNCHANGED <<line, argv, prgv>>
      BY <1>0, <1>2, <3>3 DEF main
    <3>4. CASE argv' = <<>> /\ prgv' = "refused"
      BY <3>4, EmptySeq
    <3> QED
      BY <1>2, <3>1, <3>2, <3>3, <3>4 DEF main
  <2> QED
    BY <1>0, <2>1, <2>2 DEF PbIInv, ArgsAgree, CalledInOrder
<1>3. CASE cli_entry
  <2>1. UNCHANGED <<stack, called, argv, line, prgv, arg>> /\ pc = "cli_entry"
    BY <1>3 DEF cli_entry, Idle, luavars
  <2>2. pc' # "main" /\ (pc' = "linit" => argc # 0) /\ pc' # "run_lua"
    BY <1>3 DEF cli_entry, usage, Goto
  <2>3. argc # 0 => argv # <<>>
    BY EmptySeq DEF argc
  <2> QED
    BY <1>0, <1>1, <2>1, <2>2, <2>3
<1>4. CASE linit
  <2>1. UNCHANGED <<called, argv, line, prgv, arg>> /\ pc = "linit" /\ stack' = <<>> /\ pc' \in {"lsnip", "run_lua"}
    BY <1>4 DEF linit, wa_linit, Goto
  <2> QED
    BY <1>0, <1>1, <2>1, EmptySeq
<1>5. CASE run_lua
  BY <1>0, <1>5, RunKept
<1>6. CASE lclose
  <2>1. UNCHANGED <<called, argv, line, prgv, arg>> /\ stack' = <<>> /\ pc' = "return"
    BY <1>6 DEF lclose, Goto
  <2> QED
    BY <1>1, <2>1, EmptySeq
<1>7. CASE lsnip
  <2>1. UNCHANGED <<called, argv, line, prgv, arg>> /\ stack' \in Returns \union {<<Message>>} /\ pc' = "return"
    BY <1>7 DEF lsnip, Goto
  <2> QED
    BY <1>1, <2>1, ReturnsAreValues
<1>8. CASE enc_lua
  <2>1. UNCHANGED <<stack, called, argv, line, prgv, arg>> /\ pc' = "return"
    BY <1>8 DEF enc_lua, Goto
  <2> QED
    BY <1>0, <1>1, <2>1
<1>9. CASE Return
  <2>1. UNCHANGED <<stack, called, argv, line, arg>> /\ pc' = "exited"
        /\ (prgv = "refused" => prgv' = "refused")
    BY <1>9 DEF Return, Goto, Idle, luavars
  <2> QED
    BY <1>0, <1>1, <2>1
<1> QED
  BY <1>2, <1>3, <1>4, <1>5, <1>6, <1>7, <1>8, <1>9 DEF Pb, PbNext

LEMMA PbStep ==
  PbIInv /\ [Next]_vars => PbIInv'
<1> SUFFICES ASSUME PbIInv, [Next]_vars PROVE PbIInv'
  OBVIOUS
<1>1. CASE UNCHANGED <<luavars, pbvars, program>>
  <2>1. /\ UNCHANGED <<stack, called, argv, line, prgv, arg, pc, program>> /\ argc' = argc
    BY <1>1 DEF luavars, pbvars, argc
  <2> QED
    BY <2>1 DEF PbIInv, ArgsAgree, CalledInOrder
<1>2. CASE Host
  <2>1. CASE LuaNext
    BY <1>2, <2>1, LuaKept DEF Host
  <2>2. CASE UNCHANGED luavars
    BY <1>1, <1>2, <2>2 DEF Host
  <2> QED
    BY <1>2, <2>1, <2>2 DEF Host
<1>3. CASE Js \/ Utest \/ Logging
  BY <1>1, <1>3 DEF Js, Utest, Logging
<1>4. CASE Lisp \/ Scan \/ UNCHANGED vars
  BY <1>1, <1>4 DEF Lisp, Scan, vars
<1> QED
  BY <1>2, <1>3, <1>4, PbKept DEF Next

LEMMA PbStarts == Init => PbIInv
<1> SUFFICES ASSUME LuaStart, PbStart PROVE PbIInv
  BY DEF Init
<1>1. stack = <<>> /\ called = NoCall /\ argv = <<>> /\ line = <<>> /\ pc = "main"
  BY DEF LuaStart, PbStart
<1> QED
  BY <1>1, EmptySeq DEF PbIInv, ArgsAgree, CalledInOrder

(* For any command or line of a pipe, and whatever a program has pushed:   *)
(* the words are those of the line, and a file is called with what was     *)
(* pushed for it, which for pb is the words after the command.             *)
THEOREM ArgsAgreeAlways == Spec => []ArgsAgree
<1>1. PbIInv => ArgsAgree
  BY DEF PbIInv
<1> QED
  BY <1>1, PbStarts, PbStep, PTL DEF Spec

(* wa_debug_lua leaves any stack as it was, and a key above it for each    *)
(* table of five entries.                                                  *)
THEOREM DebugKeepsAlways == Spec => DebugKeeps
<1> DEFINE StackKept ==
      /\ Len(stack') = Len(stack) + Cardinality({i \in DOMAIN stack : Entries(stack[i]) >= 5})
      /\ SubSeq(stack', 1, Len(stack)) = stack
<1>1. ASSUME PbIInv, wa_debug_lua PROVE StackKept
  <2> DEFINE n == Len(stack)
             t == Printed(stack)
  <2>1. stack \in Seq(Values) /\ n \in Nat /\ DOMAIN stack = 1 .. n
    BY <1>1, LenProperties DEF PbIInv
  <2>2. t \in Seq(Values) /\ Len(t) = n + Cardinality(Wide(stack, n)) /\ \A j \in 1 .. n : t[j] = stack[j]
    BY <2>1, PrintedLooked DEF Looked
  <2>3. stack' = t
    BY <1>1 DEF wa_debug_lua
  <2>4. n + 1 - n .. n = 1 .. n
    BY <2>1
  <2>5. Wide(stack, n) = {i \in DOMAIN stack : Entries(stack[i]) >= 5}
    BY <2>1, <2>4 DEF Wide
  <2>6. SubSeq(t, 1, n) = stack
    <3> DEFINE u == SubSeq(t, 1, n)
    <3>1. \A j \in 1 .. n : t[j] \in Values
      BY <2>1, <2>2, ElementOfSeq
    <3> HIDE DEF t, n
    <3>2. /\ u \in Seq(Values) /\ Len(u) = IF 1 <= n THEN n - 1 + 1 ELSE 0
          /\ \A j \in 1 .. n - 1 + 1 : u[j] = t[1 + j - 1]
      BY <2>1, <3>1, SubSeqProperties
    <3> HIDE DEF u
    <3>3. n - 1 + 1 = n /\ (~(1 <= n) => n = 0) /\ \A j \in 1 .. n : 1 + j - 1 = j
      BY <2>1
    <3>4. Len(u) = n /\ \A j \in 1 .. n : u[j] = stack[j]
      BY <2>2, <3>2, <3>3
    <3>5. u = stack
      BY <2>1, <3>2, <3>4, SeqEqual DEF n
    <3> QED
      BY <3>5 DEF u
  <2> HIDE DEF t
  <2> QED
    BY <2>2, <2>3, <2>5, <2>6
<1>2. PbIInv /\ [Next]_vars => [wa_debug_lua => StackKept]_<<luavars, prtvars>>
  BY <1>1
<1> QED
  BY <1>2, PbStarts, PbStep, PTL DEF Spec, DebugKeeps

-----------------------------------------------------------------------------
(* A test: its name, and the lines of its checks, in a file of less than   *)
(* a thousand lines.                                                       *)
TestSet == {Tests[k] : k \in DOMAIN Tests}
LineNumbers == 1 .. 999

LEMMA LinesAre ==
  ASSUME NEW a \in LineNumbers, NEW b \in LineNumbers, NEW c \in LineNumbers
  PROVE  /\ << >> \in Seq(LineNumbers) /\ << a >> \in Seq(LineNumbers)
         /\ << a, b >> \in Seq(LineNumbers) /\ << a, b, c >> \in Seq(LineNumbers)
OBVIOUS

LEMMA TestsAre ==
  /\ Tests \in Seq(TestSet) /\ Len(Tests) = 14 /\ DOMAIN Tests = 1 .. 14
  /\ \A t \in TestSet : t.lines \in Seq(LineNumbers)
  /\ \A i, j \in 1 .. 14 : Tests[i].name = Tests[j].name => i = j
<1>1. DOMAIN Tests = 1 .. 14
  BY DEF Tests
<1>2. Len(Tests) = 14
  BY DEF Tests
<1>3. Tests \in Seq(TestSet)
  <2>1. Tests = [k \in 1 .. 14 |-> Tests[k]]
    BY <1>1 DEF Tests
  <2>2. [k \in 1 .. 14 |-> Tests[k]] \in [1 .. 14 -> TestSet]
    BY <1>1 DEF TestSet
  <2> QED
    BY <2>1, <2>2
<1>4. /\ Tests[1].name = "_md5" /\ Tests[1].lines = << 8, 10, 12 >>
      /\ Tests[2].name = "_sha1" /\ Tests[2].lines = << 21, 23, 25 >>
      /\ Tests[3].name = "_base64" /\ Tests[3].lines = << 34 >>
      /\ Tests[4].name = "_base16" /\ Tests[4].lines = << 44, 46 >>
      /\ Tests[5].name = "_convA" /\ Tests[5].lines = <<  >>
      /\ Tests[6].name = "_convW" /\ Tests[6].lines = <<  >>
      /\ Tests[7].name = "_calendar" /\ Tests[7].lines = << 107, 108 >>
      /\ Tests[8].name = "_datediff" /\ Tests[8].lines = << 113 >>
      /\ Tests[9].name = "_rand" /\ Tests[9].lines = <<  >>
      /\ Tests[10].name = "_match" /\ Tests[10].lines = << 130 >>
      /\ Tests[11].name = "_file" /\ Tests[11].lines = << 187, 188 >>
      /\ Tests[12].name = "_log" /\ Tests[12].lines = <<  >>
      /\ Tests[13].name = "_clean" /\ Tests[13].lines = <<  >>
      /\ Tests[14].name = "_prtcs" /\ Tests[14].lines = <<  >>
  BY DEF Tests
<1>5. \A k \in 1 .. 14 :
        k \in {1, 2, 3, 4, 5, 6, 7, 8, 9, 10, 11, 12, 13, 14}
  OBVIOUS
<1>6. \A k \in 1 .. 14 : Tests[k].lines \in Seq(LineNumbers)
  <2>1. \A k \in 1 .. 999 : k \in LineNumbers
    BY DEF LineNumbers
  <2>2. Tests[1].lines \in Seq(LineNumbers)
    BY <1>4, <2>1, LinesAre
  <2>3. Tests[2].lines \in Seq(LineNumbers)
    BY <1>4, <2>1, LinesAre
  <2>4. Tests[3].lines \in Seq(LineNumbers)
    BY <1>4, <2>1, LinesAre
  <2>5. Tests[4].lines \in Seq(LineNumbers)
    BY <1>4, <2>1, LinesAre
  <2>6. Tests[5].lines \in Seq(LineNumbers)
    BY <1>4, <2>1, LinesAre
  <2>7. Tests[6].lines \in Seq(LineNumbers)
    BY <1>4, <2>1, LinesAre
  <2>8. Tests[7].lines \in Seq(LineNumbers)
    BY <1>4, <2>1, LinesAre
  <2>9. Tests[8].lines \in Seq(LineNumbers)
    BY <1>4, <2>1, LinesAre
  <2>10. Tests[9].lines \in Seq(LineNumbers)
    BY <1>4, <2>1, LinesAre
  <2>11. Tests[10].lines \in Seq(LineNumbers)
    BY <1>4, <2>1, LinesAre
  <2>12. Tests[11].lines \in Seq(LineNumbers)
    BY <1>4, <2>1, LinesAre
  <2>13. Tests[12].lines \in Seq(LineNumbers)
    BY <1>4, <2>1, LinesAre
  <2>14. Tests[13].lines \in Seq(LineNumbers)
    BY <1>4, <2>1, LinesAre
  <2>15. Tests[14].lines \in Seq(LineNumbers)
    BY <1>4, <2>1, LinesAre
  <2> QED
    BY ONLY <1>5, <2>2, <2>3, <2>4, <2>5, <2>6, <2>7, <2>8, <2>9, <2>10, <2>11, <2>12, <2>13, <2>14, <2>15
<1>7. /\ Tests[1].name = "_md5"
      /\ Tests[2].name = "_sha1"
      /\ Tests[3].name = "_base64"
      /\ Tests[4].name = "_base16"
      /\ Tests[5].name = "_convA"
      /\ Tests[6].name = "_convW"
      /\ Tests[7].name = "_calendar"
      /\ Tests[8].name = "_datediff"
      /\ Tests[9].name = "_rand"
      /\ Tests[10].name = "_match"
      /\ Tests[11].name = "_file"
      /\ Tests[12].name = "_log"
      /\ Tests[13].name = "_clean"
      /\ Tests[14].name = "_prtcs"
  BY <1>4
<1>8. \A i, j \in 1 .. 14 : Tests[i].name = Tests[j].name => i = j
  BY ONLY <1>5, <1>7
<1> QED
  BY <1>1, <1>2, <1>3, <1>6, <1>8 DEF TestSet

-----------------------------------------------------------------------------
(* Sums over a sequence of numbers, as Total adds them up.                 *)
Sums(counts) ==
  LET upTo[k \in 0 .. Len(counts)] == IF k = 0 THEN 0 ELSE upTo[k - 1] + counts[k]
  IN upTo

LEMMA SumsAre ==
  ASSUME NEW c \in Seq(Nat)
  PROVE  /\ Total(c) = Sums(c)[Len(c)] /\ Sums(c)[0] = 0
         /\ \A k \in 0 .. Len(c) : Sums(c)[k] \in Nat
         /\ \A k \in 1 .. Len(c) : Sums(c)[k] = Sums(c)[k - 1] + c[k]
<1> DEFINE n == Len(c)
           Eq(f) == f = [k \in 0 .. n |-> IF k = 0 THEN 0 ELSE f[k - 1] + c[k]]
           step == [k \in 1 .. n |-> [x \in Nat |-> x + c[k]]]
           f == CHOOSE f_ : Eq(f_)
<1>1. n \in Nat /\ \A k \in 1 .. n : c[k] \in Nat
  BY LenProperties, ElementOfSeq
<1>2. step \in Steps(n, Nat)
  BY <1>1 DEF Steps
<1>3. \A k \in 1 .. n, x \in Nat : step[k][x] = x + c[k]
  OBVIOUS
<1> HIDE DEF step
<1>4. \E g : Follows(g, n, Nat, 0, step)
  BY <1>1, <1>2, Recursion
<1>5. PICK g \in [0 .. n -> Nat] : g[0] = 0 /\ \A k \in 1 .. n : g[k] = step[k][g[k - 1]]
  BY <1>4 DEF Follows
<1>6. Eq(g)
  <2>1. ASSUME NEW k \in 0 .. n PROVE g[k] = IF k = 0 THEN 0 ELSE g[k - 1] + c[k]
    <3>1. CASE k = 0
      BY <1>5, <3>1
    <3>2. CASE k # 0
      <4>1. k \in 1 .. n /\ k - 1 \in 0 .. n
        BY <1>1, <3>2
      <4>2. g[k - 1] \in Nat
        BY <4>1
      <4> QED
        BY <1>3, <1>5, <3>2, <4>1, <4>2
    <3> QED
      BY <3>1, <3>2
  <2> QED
    BY <2>1
<1>7. Eq(f)
  BY <1>6
<1>8. Sums(c) = f /\ Total(c) = f[n]
  BY DEF Sums, Total
<1> HIDE DEF f
<1>9. f[0] = 0 /\ \A k \in 1 .. n : f[k] = f[k - 1] + c[k]
  <2>1. 0 \in 0 .. n /\ \A k \in 1 .. n : k \in 0 .. n /\ k # 0
    BY <1>1
  <2> QED
    BY <1>7, <2>1
<1> DEFINE T == {k \in 0 .. n : f[k] \in Nat}
<1>10. ASSUME NEW k \in 1 .. n, k - 1 \in T PROVE k \in T
  <2>1. f[k - 1] \in Nat /\ c[k] \in Nat /\ f[k] = f[k - 1] + c[k] /\ k \in 0 .. n
    BY <1>1, <1>9, <1>10
  <2>2. f[k] \in Nat
    BY ONLY <2>1
  <2> QED
    BY <2>1, <2>2
<1>11. 0 \in T
  BY <1>1, <1>9
<1> HIDE DEF T
<1>12. \A k \in 0 .. n : k \in T
  BY <1>1, <1>10, <1>11, UpTo
<1> QED
  BY <1>8, <1>9, <1>12 DEF T

(* A total grows by what is appended, and by what takes the place of 0.    *)
LEMMA TotalOfAppend ==
  ASSUME NEW c \in Seq(Nat), NEW x \in Nat
  PROVE  Total(Append(c, x)) = Total(c) + x /\ Total(c) \in Nat
<1> DEFINE d == Append(c, x)
           n == Len(c)
<1>1. n \in Nat /\ d \in Seq(Nat) /\ Len(d) = n + 1 /\ (\A k \in 1 .. n : d[k] = c[k]) /\ d[n + 1] = x
  BY AppendProperties, LenProperties
<1> HIDE DEF d
<1> DEFINE S == {k \in 0 .. n : Sums(d)[k] = Sums(c)[k]}
<1>2. 0 \in S
  BY <1>1, SumsAre
<1>3. ASSUME NEW k \in 1 .. n, k - 1 \in S PROVE k \in S
  <2>1. k \in 0 .. n /\ k \in 1 .. n + 1 /\ Sums(d)[k - 1] = Sums(c)[k - 1] /\ d[k] = c[k]
    BY <1>1, <1>3
  <2>2. Sums(c)[k] = Sums(c)[k - 1] + c[k]
    BY SumsAre
  <2>3. Sums(d)[k] = Sums(d)[k - 1] + d[k]
    BY <1>1, <2>1, SumsAre
  <2> QED
    BY <2>1, <2>2, <2>3
<1> HIDE DEF S
<1>4. \A k \in 0 .. n : k \in S
  BY <1>1, <1>2, <1>3, UpTo
<1>5. n \in 0 .. n /\ n + 1 \in 1 .. n + 1 /\ n + 1 - 1 = n
  BY <1>1
<1>6. Sums(d)[n] = Sums(c)[n]
  BY <1>4, <1>5 DEF S
<1>7. Sums(d)[n + 1] = Sums(d)[n] + x /\ Total(d) = Sums(d)[n + 1]
  BY <1>1, <1>5, SumsAre
<1>8. Total(c) = Sums(c)[n] /\ Sums(c)[n] \in Nat
  BY <1>5, SumsAre
<1> QED
  BY <1>6, <1>7, <1>8 DEF d

LEMMA TotalOfChange ==
  ASSUME NEW c \in Seq(Nat), NEW d \in Seq(Nat), Len(d) = Len(c),
         NEW j \in 1 .. Len(c), c[j] = 0, \A k \in 1 .. Len(c) : k # j => d[k] = c[k]
  PROVE  Total(d) = Total(c) + d[j]
<1> DEFINE n == Len(c)
           S == {k \in 0 .. n : Sums(d)[k] = Sums(c)[k] + (IF k < j THEN 0 ELSE d[j])}
<1>1. n \in Nat /\ j \in 1 .. n /\ \A k \in 1 .. n : d[k] \in Nat /\ c[k] \in Nat
  BY LenProperties, ElementOfSeq
<1>2. 0 \in S
  BY <1>1, SumsAre
<1>3. ASSUME NEW k \in 1 .. n, k - 1 \in S PROVE k \in S
  <2> DEFINE x == Sums(c)[k - 1]
             y == Sums(d)[k - 1]
  <2>1. k \in 0 .. n /\ k - 1 \in 0 .. n /\ y = x + (IF k - 1 < j THEN 0 ELSE d[j])
    BY <1>1, <1>3
  <2>2. x \in Nat /\ y \in Nat /\ Sums(c)[k] = x + c[k] /\ Sums(d)[k] = y + d[k]
    BY <2>1, SumsAre
  <2>3. c[k] \in Nat /\ d[k] \in Nat /\ d[j] \in Nat /\ (k # j => d[k] = c[k]) /\ (k = j => c[k] = 0)
    BY <1>1
  <2> HIDE DEF x, y
  <2>4. Sums(d)[k] = Sums(c)[k] + (IF k < j THEN 0 ELSE d[j])
    <3>1. CASE k = j
      <4>1. k - 1 < j /\ ~ (k < j)
        BY <1>1, <3>1
      <4> QED
        BY <2>1, <2>2, <2>3, <3>1, <4>1
    <3>2. CASE k # j
      <4>1. k - 1 < j <=> k < j
        BY <1>1, <3>2
      <4> QED
        BY <2>1, <2>2, <2>3, <3>2, <4>1
    <3> QED
      BY <3>1, <3>2
  <2> QED
    BY <2>1, <2>4
<1> HIDE DEF S
<1>4. \A k \in 0 .. n : k \in S
  BY <1>1, <1>2, <1>3, UpTo
<1>5. n \in 0 .. n /\ ~ (n < j)
  BY <1>1
<1>6. Sums(d)[n] = Sums(c)[n] + d[j]
  BY <1>4, <1>5 DEF S
<1> QED
  BY <1>6, SumsAre

-----------------------------------------------------------------------------
(* A mark of a line below a thousand fits into seven characters.           *)
Marks == [mark : LineNumbers, size : 0 .. 7]
Results == [ok : Nat, err : Nat, ret : Nat, text : Seq(Marks)]

LEMMA MarkFits ==
  ASSUME NEW l \in LineNumbers
  PROVE  Mark(l) \in Marks
<1> DEFINE D == {d \in 0 .. 9 : 10 ^ d <= l}
<1>1. l \in Nat /\ l <= 999
  BY DEF LineNumbers
<1>2. D \subseteq 0 .. 2
  <2> DEFINE p(d) == 10 ^ d
  <2>1. p(3) = 1000 /\ p(4) = 10000 /\ p(5) = 100000 /\ p(6) = 1000000
    OBVIOUS
  <2>2. p(7) = 10000000 /\ p(8) = 100000000 /\ p(9) = 1000000000
    OBVIOUS
  <2>3. D = {d \in 0 .. 9 : p(d) <= l}
    OBVIOUS
  <2> HIDE DEF p, D
  <2>4. \A d \in 0 .. 9 : d \in 0 .. 2 \/ d = 3 \/ d = 4 \/ d = 5 \/ d = 6 \/ d = 7 \/ d = 8 \/ d = 9
    OBVIOUS
  <2> QED
    BY <1>1, <2>1, <2>2, <2>3, <2>4
<1>3. IsFiniteSet(0 .. 2) /\ Cardinality(0 .. 2) = 3
  <2>1. 0 \in Int /\ 2 \in Int /\ ~ (0 > 2) /\ 2 - 0 + 1 = 3
    OBVIOUS
  <2>2. IsFiniteSet(0 .. 2) /\ Cardinality(0 .. 2) = IF 0 > 2 THEN 0 ELSE 2 - 0 + 1
    BY ONLY FS_Interval, <2>1
  <2> QED
    BY <2>1, <2>2
<1>4. Cardinality(D) \in Nat /\ Cardinality(D) <= 3
  BY <1>2, <1>3, FS_Subset, FS_CardinalityType
<1>5. Digits(l) = Cardinality(D)
  BY DEF Digits
<1> HIDE DEF D
<1> QED
  BY <1>4, <1>5 DEF Mark, Marks

(* What the checks of a test come to, line by line.                        *)
Added(s, lines, passes, i) ==
  LET r == _wa_utok(i \in passes, lines[i])
  IN [ok |-> s.ok + r.ok, err |-> s.err + r.err, ret |-> s.ret + r.ret, text |-> s.text \o r.text]

CheckedTo(s, k) ==
  s \in Results /\ s.ok + s.err = k /\ s.ret = s.err /\ Len(s.text) = s.err

LEMMA OneChecked ==
  ASSUME NEW lines \in Seq(LineNumbers), NEW passes, NEW i \in 1 .. Len(lines), NEW s \in Results
  PROVE  /\ Added(s, lines, passes, i) \in Results
         /\ CheckedTo(s, i - 1) => CheckedTo(Added(s, lines, passes, i), i)
<1> DEFINE m == Mark(lines[i])
           one == << m >>
           t == Added(s, lines, passes, i)
<1>1. lines[i] \in LineNumbers /\ i \in Nat
  BY ElementOfSeq, LenProperties
<1>2. m \in Marks
  BY <1>1, MarkFits
<1> HIDE DEF m
<1>3. one \in Seq(Marks) /\ Len(one) = 1
  BY <1>2
<1>4. s.ok \in Nat /\ s.err \in Nat /\ s.ret \in Nat /\ s.text \in Seq(Marks)
  BY DEF Results
<1>5. CASE i \in passes
  <2>1. t = [ok |-> s.ok + 1, err |-> s.err + 0, ret |-> s.ret + 0, text |-> s.text \o << >>]
    BY <1>5 DEF Added, _wa_utok
  <2>2. s.text \o << >> = s.text
    BY <1>4, ConcatEmptySeq
  <2>3. t.ok = s.ok + 1 /\ t.err = s.err /\ t.ret = s.ret /\ t.text = s.text
    BY <1>4, <2>1, <2>2
  <2>4. t \in Results
    BY <1>4, <2>1, <2>2 DEF Results
  <2> HIDE DEF t
  <2>5. CheckedTo(s, i - 1) => CheckedTo(t, i)
    BY <1>1, <1>4, <2>3, <2>4 DEF CheckedTo
  <2> QED
    BY <2>4, <2>5 DEF t
<1>6. CASE i \notin passes
  <2>1. t = [ok |-> s.ok + 0, err |-> s.err + 1, ret |-> s.ret + 1, text |-> s.text \o one]
    BY <1>6 DEF Added, _wa_utok, m
  <2> DEFINE x == s.text \o one
  <2>2. x \in Seq(Marks) /\ Len(x) = Len(s.text) + 1
    BY <1>3, <1>4, ConcatProperties
  <2>3. t = [ok |-> s.ok + 0, err |-> s.err + 1, ret |-> s.ret + 1, text |-> x]
    BY <2>1
  <2> HIDE DEF x
  <2>4. t.ok = s.ok /\ t.err = s.err + 1 /\ t.ret = s.ret + 1 /\ t.text = x
    BY <1>4, <2>3
  <2>5. t \in Results
    BY <1>4, <2>2, <2>3 DEF Results
  <2> HIDE DEF t
  <2>6. CheckedTo(s, i - 1) => CheckedTo(t, i)
    BY <1>1, <1>4, <2>2, <2>4, <2>5 DEF CheckedTo
  <2> QED
    BY <2>5, <2>6 DEF t
<1> QED
  BY <1>5, <1>6

LEMMA AllChecked ==
  ASSUME NEW lines \in Seq(LineNumbers), NEW passes
  PROVE  CheckedTo(Checked(lines, passes), Len(lines))
<1> DEFINE n == Len(lines)
           begin == [ok |-> 0, err |-> 0, ret |-> 0, text |-> << >>]
           Eq(f) == f = [i \in 0 .. n |-> IF i = 0 THEN begin ELSE Added(f[i - 1], lines, passes, i)]
           step == [i \in 1 .. n |-> [s \in Results |-> Added(s, lines, passes, i)]]
           f == CHOOSE f_ : Eq(f_)
<1>1. n \in Nat
  BY LenProperties
<1>2. begin \in Results /\ CheckedTo(begin, 0)
  <2>1. << >> \in Seq(Marks) /\ Len(<< >>) = 0
    BY EmptySeq
  <2> QED
    BY <2>1 DEF Results, CheckedTo
<1>3. step \in Steps(n, Results)
  BY OneChecked DEF Steps
<1>4. \A i \in 1 .. n, s \in Results : step[i][s] = Added(s, lines, passes, i)
  OBVIOUS
<1> HIDE DEF step, begin
<1>5. \E g : Follows(g, n, Results, begin, step)
  BY <1>1, <1>2, <1>3, Recursion
<1>6. PICK g \in [0 .. n -> Results] : g[0] = begin /\ \A i \in 1 .. n : g[i] = step[i][g[i - 1]]
  BY <1>5 DEF Follows
<1>7. Eq(g)
  <2>1. ASSUME NEW i \in 0 .. n PROVE g[i] = IF i = 0 THEN begin ELSE Added(g[i - 1], lines, passes, i)
    <3>1. CASE i = 0
      BY <1>6, <3>1
    <3>2. CASE i # 0
      <4>1. i \in 1 .. n /\ i - 1 \in 0 .. n
        BY <1>1, <3>2
      <4>2. g[i - 1] \in Results
        BY <1>6, <4>1
      <4> QED
        BY <1>4, <1>6, <3>2, <4>1, <4>2
    <3> QED
      BY <3>1, <3>2
  <2> QED
    BY <1>6, <2>1
<1>8. Eq(f)
  BY <1>7
<1>9. Checked(lines, passes) = f[n]
  BY DEF Checked, begin, Added
<1> HIDE DEF f
<1>10. f[0] = begin /\ \A i \in 1 .. n : f[i] = Added(f[i - 1], lines, passes, i)
  <2>1. 0 \in 0 .. n /\ \A i \in 1 .. n : i \in 0 .. n /\ i # 0
    BY <1>1
  <2> QED
    BY <1>8, <2>1
<1> DEFINE T == {i \in 0 .. n : CheckedTo(f[i], i)}
<1>11. 0 \in T
  BY <1>1, <1>2, <1>10
<1>12. ASSUME NEW i \in 1 .. n, i - 1 \in T PROVE i \in T
  <2>1. CheckedTo(f[i - 1], i - 1) /\ i \in 0 .. n
    BY <1>1, <1>12
  <2>2. f[i - 1] \in Results
    BY <2>1 DEF CheckedTo
  <2>3. CheckedTo(Added(f[i - 1], lines, passes, i), i)
    BY <2>1, <2>2, OneChecked
  <2> QED
    BY <1>10, <2>1, <2>3
<1> HIDE DEF T
<1>13. \A i \in 0 .. n : i \in T
  BY <1>1, <1>11, <1>12, UpTo
<1> QED
  BY <1>1, <1>9, <1>13 DEF T

(* The tests that are left to run are different ones.                      *)
Distinct(s) == \A i, j \in DOMAIN s : s[i].name = s[j].name => i = j

LEMMA TestsCompiled ==
  ASSUME NEW groups
  PROVE  Compiled(groups) \in Seq(TestSet) /\ Distinct(Compiled(groups))
<1> DEFINE n == Len(Tests)
           One(s, k) == IF Tests[k].group \in groups THEN Append(s, Tests[k]) ELSE s
           Eq(f) == f = [k \in 0 .. n |-> IF k = 0 THEN << >> ELSE One(f[k - 1], k)]
           step == [k \in 1 .. n |-> [s \in Seq(TestSet) |-> One(s, k)]]
           f == CHOOSE f_ : Eq(f_)
<1>1. n \in Nat /\ \A k \in 1 .. n : Tests[k] \in TestSet
  BY TestsAre DEF TestSet
<1>2. \A i, j \in 1 .. n : Tests[i].name = Tests[j].name => i = j
  BY TestsAre
<1>3. Compiled(groups) = f[n]
  BY DEF Compiled
<1>4. \A k \in 1 .. n, s \in Seq(TestSet) : One(s, k) \in Seq(TestSet)
  BY <1>1, AppendProperties
<1>5. \A k \in 1 .. n : \A s : One(s, k) = Append(s, Tests[k]) \/ One(s, k) = s
  OBVIOUS
<1> HIDE DEF n, One
<1>6. step \in Steps(n, Seq(TestSet))
  BY <1>4 DEF Steps
<1>7. \A k \in 1 .. n, s \in Seq(TestSet) : step[k][s] = One(s, k)
  OBVIOUS
<1> HIDE DEF step
<1>8. \E g : Follows(g, n, Seq(TestSet), << >>, step)
  BY <1>1, <1>6, Recursion, EmptySeq
<1>9. PICK g \in [0 .. n -> Seq(TestSet)] : g[0] = << >> /\ \A k \in 1 .. n : g[k] = step[k][g[k - 1]]
  BY <1>8 DEF Follows
<1>10. Eq(g)
  <2>1. ASSUME NEW k \in 0 .. n PROVE g[k] = IF k = 0 THEN << >> ELSE One(g[k - 1], k)
    <3>1. CASE k = 0
      BY <1>9, <3>1
    <3>2. CASE k # 0
      <4>1. k \in 1 .. n /\ k - 1 \in 0 .. n
        BY <1>1, <3>2
      <4>2. g[k - 1] \in Seq(TestSet)
        BY <1>9, <4>1
      <4> QED
        BY <1>7, <1>9, <3>2, <4>1, <4>2
    <3> QED
      BY <3>1, <3>2
  <2> QED
    BY <1>9, <2>1
<1>11. Eq(f)
  BY <1>10
<1> HIDE DEF f
<1>12. f[0] = << >> /\ \A k \in 1 .. n : f[k] = One(f[k - 1], k)
  <2>1. 0 \in 0 .. n /\ \A k \in 1 .. n : k \in 0 .. n /\ k # 0
    BY <1>1
  <2> QED
    BY <1>11, <2>1
<1> DEFINE Among(s, k) == /\ s \in Seq(TestSet) /\ Distinct(s)
                          /\ \A i \in DOMAIN s : \E j \in 1 .. k : s[i] = Tests[j]
           T == {k \in 0 .. n : Among(f[k], k)}
<1>13. 0 \in T
  <2>1. << >> \in Seq(TestSet) /\ DOMAIN << >> = {}
    BY EmptySeq
  <2>2. Among(<< >>, 0)
    BY <2>1 DEF Distinct
  <2>3. 0 \in 0 .. n
    BY <1>1
  <2> QED
    BY <1>12, <2>2, <2>3
<1>14. ASSUME NEW k \in 1 .. n, k - 1 \in T PROVE k \in T
  <2> DEFINE s == f[k - 1]
             t == Append(s, Tests[k])
             m == Len(s)
  <2>1. Among(s, k - 1) /\ k \in 0 .. n /\ k \in Nat
    BY <1>1, <1>14
  <2>2. f[k] = One(s, k)
    BY <1>12
  <2> HIDE DEF s
  <2>3. Among(s, k)
    BY <2>1
  <2>4. m \in Nat /\ DOMAIN s = 1 .. m
    BY <2>1, LenProperties
  <2>5. t \in Seq(TestSet) /\ Len(t) = m + 1 /\ (\A i \in 1 .. m : t[i] = s[i]) /\ t[m + 1] = Tests[k]
    BY <1>1, <2>1, AppendProperties
  <2>6. DOMAIN t = 1 .. m + 1
    BY <2>5, LenProperties
  <2> HIDE DEF t, m
  <2>7. \A i \in 1 .. m + 1 : i \in 1 .. m \/ i = m + 1
    BY <2>4
  <2>8. \A i \in 1 .. m : t[i].name # Tests[k].name
    <3> SUFFICES ASSUME NEW i \in 1 .. m, t[i].name = Tests[k].name PROVE FALSE
      OBVIOUS
    <3>1. PICK j \in 1 .. k - 1 : s[i] = Tests[j]
      BY <2>1, <2>4
    <3>2. j \in 1 .. n /\ j # k
      BY <1>1, <3>1
    <3> QED
      BY <1>2, <2>5, <3>1, <3>2
  <2>9. Distinct(t)
    <3>1. \A i, j \in 1 .. m : t[i].name = t[j].name => i = j
      BY <2>1, <2>4, <2>5 DEF Distinct
    <3> QED
      BY <2>5, <2>6, <2>7, <2>8, <3>1 DEF Distinct
  <2>10. \A i \in DOMAIN t : \E j \in 1 .. k : t[i] = Tests[j]
    <3>1. k \in 1 .. k
      BY <2>1
    <3> QED
      BY <2>3, <2>4, <2>5, <2>6, <2>7, <3>1
  <2>11. Among(t, k)
    BY <2>5, <2>9, <2>10
  <2>12. f[k] = s \/ f[k] = t
    BY <1>5, <2>2 DEF t
  <2>13. Among(f[k], k)
    BY <2>3, <2>11, <2>12
  <2> HIDE DEF Among
  <2> QED
    BY <2>1, <2>13
<1> HIDE DEF T
<1>15. \A k \in 0 .. n : k \in T
  BY <1>1, <1>13, <1>14, UpTo
<1>16. f[n] \in Seq(TestSet) /\ Distinct(f[n])
  <2>1. n \in T
    BY <1>1, <1>15
  <2>2. Among(f[n], n)
    BY <2>1 DEF T
  <2> QED
    BY <2>2
<1> QED
  BY <1>3, <1>16

-----------------------------------------------------------------------------
(* What the report holds of each test, and what it adds up to.             *)
Reports == [name : {t.name : t \in TestSet}, marks : Seq(Marks), fail : Nat]

MarksIn(run) == [k \in DOMAIN run |-> Len(run[k].marks)]
ChecksIn(run) ==
  [k \in DOMAIN Tests |->
     IF \E i \in DOMAIN run : run[i].name = Tests[k].name THEN Len(Tests[k].lines) ELSE 0]

LEMMA SeqOfNumbers ==
  ASSUME NEW n \in Nat, NEW c \in [1 .. n -> Nat]
  PROVE  c \in Seq(Nat) /\ Len(c) = n
OBVIOUS

LEMMA MarksAdded ==
  ASSUME NEW run \in Seq(Reports), NEW r \in Reports
  PROVE  Total(MarksIn(Append(run, r))) = Total(MarksIn(run)) + Len(r.marks)
<1> DEFINE n == Len(run)
           a == MarksIn(run)
           b == MarksIn(Append(run, r))
           x == Len(r.marks)
<1>1. n \in Nat /\ DOMAIN run = 1 .. n /\ \A k \in 1 .. n : run[k] \in Reports
  BY LenProperties, ElementOfSeq
<1>2. \A q \in Reports : Len(q.marks) \in Nat
  BY LenProperties DEF Reports
<1>3. a \in Seq(Nat) /\ Len(a) = n /\ \A k \in 1 .. n : a[k] = Len(run[k].marks)
  <2>1. a = [k \in 1 .. n |-> Len(run[k].marks)]
    BY <1>1 DEF MarksIn
  <2>2. \A k \in 1 .. n : Len(run[k].marks) \in Nat
    BY <1>1, <1>2
  <2> HIDE DEF a, n
  <2> QED
    BY <1>1, <2>1, <2>2
<1>4. /\ Append(run, r) \in Seq(Reports) /\ Len(Append(run, r)) = n + 1
      /\ (\A k \in 1 .. n : Append(run, r)[k] = run[k]) /\ Append(run, r)[n + 1] = r
  BY <1>1, AppendProperties
<1>5. DOMAIN Append(run, r) = 1 .. n + 1
  BY <1>4, LenProperties
<1>6. /\ b = [k \in 1 .. n + 1 |-> Len(Append(run, r)[k].marks)]
  BY <1>5 DEF MarksIn
<1>7. x \in Nat
  BY <1>2
<1>8. /\ Append(a, x) \in Seq(Nat) /\ Len(Append(a, x)) = n + 1
      /\ (\A k \in 1 .. n : Append(a, x)[k] = a[k]) /\ Append(a, x)[n + 1] = x
  BY <1>3, <1>7, AppendProperties
<1> HIDE DEF a, b, n
<1>9. \A k \in 1 .. n + 1 : k \in 1 .. n \/ k = n + 1
  BY <1>1
<1>10. \A k \in 1 .. n + 1 : b[k] = Append(a, x)[k]
  BY <1>3, <1>4, <1>6, <1>8, <1>9
<1>11. b \in Seq(Nat) /\ Len(b) = n + 1
  <2>1. \A k \in 1 .. n + 1 : b[k] \in Nat
    BY <1>8, <1>10, ElementOfSeq
  <2>2. b = [k \in 1 .. n + 1 |-> b[k]]
    BY <1>6
  <2>3. b \in [1 .. n + 1 -> Nat] /\ n + 1 \in Nat
    BY <1>1, <2>1, <2>2
  <2> QED
    BY <2>3
<1>12. b = Append(a, x)
  BY <1>8, <1>10, <1>11, SeqEqual
<1> QED
  BY <1>3, <1>7, <1>12, TotalOfAppend DEF a, b

LEMMA ChecksAdded ==
  ASSUME NEW run \in Seq(Reports), NEW r \in Reports, NEW t \in TestSet, r.name = t.name,
         \A k \in DOMAIN run : run[k].name # t.name
  PROVE  Total(ChecksIn(Append(run, r))) = Total(ChecksIn(run)) + Len(t.lines)
<1> DEFINE n == Len(run)
           s == Append(run, r)
           a == ChecksIn(run)
           b == ChecksIn(s)
<1>1. n \in Nat /\ DOMAIN run = 1 .. n
  BY LenProperties
<1>2. /\ s \in Seq(Reports) /\ Len(s) = n + 1
      /\ (\A k \in 1 .. n : s[k] = run[k]) /\ s[n + 1] = r
  BY <1>1, AppendProperties
<1>3. DOMAIN s = 1 .. n + 1
  BY <1>2, LenProperties
<1> HIDE DEF s, n
<1>4. \A name : (\E i \in DOMAIN s : s[i].name = name)
                  <=> (name = t.name \/ \E i \in DOMAIN run : run[i].name = name)
  <2>1. (\A k \in 1 .. n + 1 : k \in 1 .. n \/ k = n + 1) /\ (\A k \in 1 .. n : k \in 1 .. n + 1)
        /\ n + 1 \in 1 .. n + 1
    BY <1>1
  <2> QED
    BY <1>1, <1>2, <1>3, <2>1
<1>5. DOMAIN Tests = 1 .. 14 /\ \A k \in 1 .. 14 : Tests[k] \in TestSet
  BY TestsAre DEF TestSet
<1>6. \A k \in 1 .. 14 : Len(Tests[k].lines) \in Nat
  BY <1>5, TestsAre, LenProperties
<1>7. PICK j \in 1 .. 14 : Tests[j] = t
  BY <1>5 DEF TestSet
<1>8. \A k \in 1 .. 14 : Tests[k].name = t.name => k = j
  BY <1>7, TestsAre
<1>9. \A run_ : ChecksIn(run_) \in Seq(Nat) /\ Len(ChecksIn(run_)) = 14
  <2> SUFFICES ASSUME NEW run_ PROVE ChecksIn(run_) \in Seq(Nat) /\ Len(ChecksIn(run_)) = 14
    OBVIOUS
  <2> DEFINE c == ChecksIn(run_)
             v(k) == IF \E i \in DOMAIN run_ : run_[i].name = Tests[k].name THEN Len(Tests[k].lines) ELSE 0
  <2>1. c = [k \in 1 .. 14 |-> v(k)]
    BY <1>5 DEF ChecksIn
  <2>2. \A k \in 1 .. 14 : v(k) \in Nat
    BY <1>6
  <2> HIDE DEF c, v
  <2>3. c \in [1 .. 14 -> Nat] /\ 14 \in Nat
    BY <2>1, <2>2
  <2>4. c \in Seq(Nat) /\ Len(c) = 14
    BY ONLY <2>3, SeqOfNumbers
  <2> QED
    BY <2>4 DEF c
<1>10. a[j] = 0 /\ b[j] = Len(t.lines)
  <2>1. j \in DOMAIN Tests /\ Tests[j].name = t.name /\ Tests[j].lines = t.lines
    BY <1>5, <1>7
  <2> QED
    BY <1>4, <2>1 DEF ChecksIn
<1>11. \A k \in 1 .. 14 : k # j => b[k] = a[k]
  <2> SUFFICES ASSUME NEW k \in 1 .. 14, k # j PROVE b[k] = a[k]
    OBVIOUS
  <2>1. k \in DOMAIN Tests /\ Tests[k].name # t.name
    BY <1>5, <1>8
  <2>2. (\E i \in DOMAIN s : s[i].name = Tests[k].name)
          <=> \E i \in DOMAIN run : run[i].name = Tests[k].name
    BY <1>4, <2>1
  <2> QED
    BY <2>1, <2>2 DEF ChecksIn
<1>12. a \in Seq(Nat) /\ b \in Seq(Nat) /\ Len(a) = 14 /\ Len(b) = 14
  BY <1>9
<1> HIDE DEF a, b
<1>13. Total(b) = Total(a) + b[j]
  <2>1. Len(b) = Len(a) /\ j \in 1 .. Len(a) /\ \A k \in 1 .. Len(a) : k # j => b[k] = a[k]
    BY <1>11, <1>12
  <2> QED
    BY ONLY <1>10, <1>12, <2>1, TotalOfChange
<1> QED
  BY <1>10, <1>13 DEF a, b, s

(* The report, the tests that are left, and how they agree.                *)
UtIInv ==
  /\ s_utresult.report \in Seq(Reports) /\ s_utresult.ok_sum \in Nat /\ s_utresult.err_sum \in Nat
  /\ tests \in Seq(TestSet) /\ Distinct(tests)
  /\ \A i \in DOMAIN tests, k \in DOMAIN s_utresult.report :
       s_utresult.report[k].name # tests[i].name
  /\ \A k \in DOMAIN s_utresult.report :
       s_utresult.report[k].fail = Len(s_utresult.report[k].marks)
  /\ s_utresult.err_sum = Total(MarksIn(s_utresult.report))
  /\ s_utresult.ok_sum + s_utresult.err_sum = Total(ChecksIn(s_utresult.report))

LEMMA TestRun ==
  ASSUME UtIInv, RunTest
  PROVE  UtIInv'
<1> DEFINE run == s_utresult.report
           t == Head(tests)
<1>1. PICK passes \in SUBSET (1 .. Len(t.lines)) : wa_utrun(t, passes)
  BY DEF RunTest
<1> DEFINE f == Checked(t.lines, passes)
           r == [name |-> t.name, marks |-> f.text, fail |-> f.ret]
           m == Len(tests)
<1>2. tests # << >> /\ tests' = Tail(tests) /\ tests \in Seq(TestSet)
  BY DEF RunTest, UtIInv
<1>3. m \in Nat /\ DOMAIN tests = 1 .. m /\ m # 0 /\ t \in TestSet /\ t = tests[1]
  BY <1>2, LenProperties, EmptySeq, HeadTailProperties, ElementOfSeq
<1>4. t.lines \in Seq(LineNumbers)
  BY <1>3, TestsAre
<1>5. CheckedTo(f, Len(t.lines)) /\ Len(t.lines) \in Nat
  BY <1>4, AllChecked, LenProperties
<1>6. /\ s_utresult'.report = Append(run, r)
      /\ s_utresult'.ok_sum = s_utresult.ok_sum + f.ok
      /\ s_utresult'.err_sum = s_utresult.err_sum + f.err
  BY <1>1 DEF wa_utrun
<1> HIDE DEF f, t, m
<1>7. /\ f.ok \in Nat /\ f.err \in Nat /\ f.ret \in Nat /\ f.text \in Seq(Marks)
      /\ f.ok + f.err = Len(t.lines) /\ f.ret = f.err /\ Len(f.text) = f.err
  BY <1>5 DEF CheckedTo, Results
<1>8. r \in Reports /\ r.name = t.name /\ r.marks = f.text /\ r.fail = f.err
  BY <1>3, <1>7 DEF Reports
<1> HIDE DEF r
<1>9. run \in Seq(Reports) /\ s_utresult.ok_sum \in Nat /\ s_utresult.err_sum \in Nat
  BY DEF UtIInv
<1>10. /\ \A i \in DOMAIN tests, k \in DOMAIN run : run[k].name # tests[i].name
       /\ \A k \in DOMAIN run : run[k].fail = Len(run[k].marks)
       /\ s_utresult.err_sum = Total(MarksIn(run))
       /\ s_utresult.ok_sum + s_utresult.err_sum = Total(ChecksIn(run))
  BY DEF UtIInv
<1> DEFINE n == Len(run)
           now == Append(run, r)
<1>11. /\ n \in Nat /\ DOMAIN run = 1 .. n
       /\ now \in Seq(Reports) /\ Len(now) = n + 1
       /\ (\A k \in 1 .. n : now[k] = run[k]) /\ now[n + 1] = r
  BY <1>8, <1>9, LenProperties, AppendProperties
<1>12. DOMAIN now = 1 .. n + 1 /\ \A k \in 1 .. n + 1 : k \in 1 .. n \/ k = n + 1
  BY <1>11, LenProperties
<1>13. /\ tests' \in Seq(TestSet) /\ DOMAIN tests' = 1 .. m - 1
       /\ \A i \in 1 .. m - 1 : i + 1 \in 1 .. m /\ i + 1 # 1 /\ tests'[i] = tests[i + 1]
  BY <1>2, <1>3, HeadTailProperties, LenProperties DEF m
<1>14. 1 \in DOMAIN tests
  BY <1>3
<1>15. \A k \in DOMAIN run : run[k].name # t.name
  BY <1>3, <1>10, <1>14
<1>16. Total(ChecksIn(now)) = Total(ChecksIn(run)) + Len(t.lines)
  BY <1>3, <1>8, <1>9, <1>15, ChecksAdded
<1>17. Total(MarksIn(now)) = Total(MarksIn(run)) + f.err
  BY <1>7, <1>8, <1>9, MarksAdded
<1> HIDE DEF now, n
<1>18. \A k \in DOMAIN now : now[k].fail = Len(now[k].marks)
  BY <1>7, <1>8, <1>10, <1>11, <1>12
<1>19. Distinct(tests)
  BY DEF UtIInv
<1>20. Distinct(tests')
  <2> SUFFICES ASSUME NEW i \in DOMAIN tests', NEW j \in DOMAIN tests', tests'[i].name = tests'[j].name
               PROVE  i = j
    BY DEF Distinct
  <2>1. i \in Int /\ j \in Int /\ i + 1 = j + 1
    BY <1>3, <1>13, <1>19 DEF Distinct
  <2> QED
    BY <2>1
<1>21. \A i \in DOMAIN tests', k \in DOMAIN now : now[k].name # tests'[i].name
  <2> SUFFICES ASSUME NEW i \in DOMAIN tests', NEW k \in DOMAIN now, now[k].name = tests'[i].name
               PROVE  FALSE
    OBVIOUS
  <2>1. i + 1 \in DOMAIN tests /\ i + 1 # 1 /\ tests'[i] = tests[i + 1]
    BY <1>3, <1>13
  <2>2. CASE k \in 1 .. n
    BY <1>10, <1>11, <2>1, <2>2
  <2>3. CASE k = n + 1
    BY <1>3, <1>8, <1>11, <1>14, <1>19, <2>1, <2>3 DEF Distinct
  <2> QED
    BY <1>12, <2>2, <2>3
<1>22. s_utresult'.report = now
  BY <1>6 DEF now
<1>23. /\ s_utresult'.err_sum = Total(MarksIn(now)) /\ s_utresult'.err_sum \in Nat
       /\ s_utresult'.ok_sum + s_utresult'.err_sum = Total(ChecksIn(now)) /\ s_utresult'.ok_sum \in Nat
  BY <1>6, <1>7, <1>9, <1>10, <1>16, <1>17
<1> QED
  BY <1>11, <1>13, <1>18, <1>20, <1>21, <1>22, <1>23 DEF UtIInv

(* Over any choice of the tests, and whichever of their checks fail, the   *)
(* report, the sums and the results of the tests agree.                    *)
THEOREM ReportAgreesAlways == Spec => []ReportAgrees
<1>1. Init => UtIInv
  <2> SUFFICES ASSUME Init PROVE UtIInv
    OBVIOUS
  <2>1. s_utresult = [report |-> << >>, ok_sum |-> 0, err_sum |-> 0]
    BY DEF Init, UtestStart
  <2>2. tests \in Seq(TestSet) /\ Distinct(tests)
    <3>1. PICK groups : tests = Compiled(groups)
      BY DEF Init, UtestStart
    <3> QED
      BY <3>1, TestsCompiled
  <2>3. << >> \in Seq(Reports) /\ DOMAIN << >> = {} /\ << >> \in Seq(Nat) /\ Len(<< >>) = 0
    BY EmptySeq
  <2>4. MarksIn(<< >>) = << >>
    BY <2>3 DEF MarksIn
  <2>5. Total(<< >>) = 0
    BY <2>3, SumsAre
  <2> DEFINE none == ChecksIn(<< >>)
  <2>6. none = [k \in 1 .. 14 |-> 0]
    BY <2>3, TestsAre DEF ChecksIn
  <2> HIDE DEF none
  <2>7. none \in Seq(Nat) /\ Len(none) = 14 /\ \A k \in 1 .. 14 : none[k] = 0
    BY <2>6
  <2>8. Total(none) = 0
    <3> DEFINE S == {k \in 0 .. 14 : Sums(none)[k] = 0}
    <3>1. 0 \in S
      BY <2>7, SumsAre
    <3>2. ASSUME NEW k \in 1 .. 14, k - 1 \in S PROVE k \in S
      <4>1. Sums(none)[k] = Sums(none)[k - 1] + none[k]
        BY <2>7, SumsAre
      <4> QED
        BY <2>7, <3>2, <4>1
    <3> HIDE DEF S
    <3>3. \A k \in 0 .. 14 : k \in S
      BY <3>1, <3>2, UpTo
    <3>4. 14 \in 0 .. 14
      OBVIOUS
    <3>5. Sums(none)[14] = 0
      BY <3>3, <3>4 DEF S
    <3> QED
      BY <2>7, <3>5, SumsAre
  <2> QED
    BY <2>1, <2>2, <2>3, <2>4, <2>5, <2>8 DEF UtIInv, none
<1>2. UtIInv /\ [Next]_vars => UtIInv'
  <2> SUFFICES ASSUME UtIInv, [Next]_vars PROVE UtIInv'
    OBVIOUS
  <2>1. CASE UNCHANGED utvars
    BY <2>1 DEF UtIInv, utvars
  <2>2. CASE Host \/ Pb \/ Js
    BY <2>1, <2>2 DEF Host, Pb, Js
  <2>3. CASE Logging \/ Lisp \/ Scan \/ UNCHANGED vars
    BY <2>1, <2>3 DEF Logging, Lisp, Scan, vars
  <2>4. CASE Utest
    BY <2>4, TestRun DEF Utest
  <2> QED
    BY <2>2, <2>3, <2>4 DEF Next
<1>3. UtIInv => ReportAgrees
  <2> SUFFICES ASSUME UtIInv PROVE ReportAgrees
    OBVIOUS
  <2> DEFINE run == s_utresult.report
  <2>1. /\ run \in Seq(Reports) /\ \A k \in DOMAIN run : run[k].fail = Len(run[k].marks)
        /\ s_utresult.err_sum = Total(MarksIn(run))
        /\ wa_utsum = Total(ChecksIn(run))
    BY DEF UtIInv, wa_utsum
  <2>2. \A k \in DOMAIN run : run[k].marks \in Seq(Marks)
    <3>1. \A k \in DOMAIN run : run[k] \in Reports
      BY <2>1, ElementOfSeq, LenProperties
    <3> QED
      BY <3>1 DEF Reports
  <2>3. \A k \in DOMAIN run : \A m \in DOMAIN run[k].marks : run[k].marks[m] \in Marks
    BY <2>2, ElementOfSeq, LenProperties
  <2>4. \A m \in Marks : m.size < 8
    BY DEF Marks
  <2> QED
    BY <2>1, <2>3, <2>4 DEF ReportAgrees, MarksIn, ChecksIn
<1> QED
  BY <1>1, <1>2, <1>3, PTL DEF Spec

-----------------------------------------------------------------------------
(* Indentation of Lisp files: IndentKeeps.                                 *)
(* Characters that are not seen, and what is seen of a text.               *)
Shade(c) == c \in {" ", "\t", "\n", "\r"}

LEMMA SpaceIsShade ==
  ASSUME NEW c
  PROVE  isspaceline(<< c >>) <=> Shade(c)
<1>1. DOMAIN << c >> = {1} /\ << c >>[1] = c
  OBVIOUS
<1> QED
  BY <1>1 DEF isspaceline, Shade

Seen(text) ==
  LET upTo[i \in 0 .. Len(text)] ==
        IF i = 0 THEN <<>>
        ELSE IF isspaceline(<<text[i]>>) THEN upTo[i - 1] ELSE Append(upTo[i - 1], text[i])
  IN upTo

LEMMA SeenIs ==
  ASSUME NEW C, NEW s \in Seq(C)
  PROVE  /\ Visible(s) = Seen(s)[Len(s)] /\ Seen(s)[0] = << >>
         /\ \A k \in 0 .. Len(s) : Seen(s)[k] \in Seq(C)
         /\ \A k \in 1 .. Len(s) :
              Seen(s)[k] = IF Shade(s[k]) THEN Seen(s)[k - 1] ELSE Append(Seen(s)[k - 1], s[k])
<1> DEFINE n == Len(s)
           One(t, k) == IF isspaceline(<< s[k] >>) THEN t ELSE Append(t, s[k])
           Eq(f) == f = [k \in 0 .. n |-> IF k = 0 THEN << >> ELSE One(f[k - 1], k)]
           step == [k \in 1 .. n |-> [t \in Seq(C) |-> One(t, k)]]
           f == CHOOSE f_ : Eq(f_)
<1>1. n \in Nat /\ \A k \in 1 .. n : s[k] \in C
  BY LenProperties, ElementOfSeq
<1>2. Visible(s) = f[n] /\ Seen(s) = f
  BY DEF Visible, Seen
<1>3. \A k \in 1 .. n, t \in Seq(C) : One(t, k) \in Seq(C)
  BY <1>1, AppendProperties
<1>4. \A k \in 1 .. n : \A t : One(t, k) = IF Shade(s[k]) THEN t ELSE Append(t, s[k])
  BY SpaceIsShade
<1> HIDE DEF n, One
<1>5. step \in Steps(n, Seq(C))
  BY <1>3 DEF Steps
<1>6. \A k \in 1 .. n, t \in Seq(C) : step[k][t] = One(t, k)
  OBVIOUS
<1> HIDE DEF step
<1>7. \E g : Follows(g, n, Seq(C), << >>, step)
  BY <1>1, <1>5, Recursion, EmptySeq
<1>8. PICK g \in [0 .. n -> Seq(C)] : g[0] = << >> /\ \A k \in 1 .. n : g[k] = step[k][g[k - 1]]
  BY <1>7 DEF Follows
<1>9. Eq(g)
  <2>1. ASSUME NEW k \in 0 .. n PROVE g[k] = IF k = 0 THEN << >> ELSE One(g[k - 1], k)
    <3>1. CASE k = 0
      BY <1>8, <3>1
    <3>2. CASE k # 0
      <4>1. k \in 1 .. n /\ k - 1 \in 0 .. n
        BY <1>1, <3>2
      <4>2. g[k - 1] \in Seq(C)
        BY <1>8, <4>1
      <4> QED
        BY <1>6, <1>8, <3>2, <4>1, <4>2
    <3> QED
      BY <3>1, <3>2
  <2> QED
    BY <1>8, <2>1
<1>10. Eq(f)
  BY <1>9
<1> HIDE DEF f
<1>11. f[0] = << >> /\ \A k \in 1 .. n : f[k] = One(f[k - 1], k)
  <2>1. 0 \in 0 .. n /\ \A k \in 1 .. n : k \in 0 .. n /\ k # 0
    BY <1>1
  <2> QED
    BY <1>10, <2>1
<1> DEFINE T == {k \in 0 .. n : f[k] \in Seq(C)}
<1>12. 0 \in T
  <2>1. << >> \in Seq(C) /\ 0 \in 0 .. n
    BY <1>1, EmptySeq
  <2> QED
    BY <1>11, <2>1
<1>13. ASSUME NEW k \in 1 .. n, k - 1 \in T PROVE k \in T
  BY <1>1, <1>3, <1>11, <1>13
<1> HIDE DEF T
<1>14. \A k \in 0 .. n : k \in T
  BY <1>1, <1>12, <1>13, UpTo
<1>15. \A k \in 0 .. n : f[k] \in Seq(C)
  BY <1>14 DEF T
<1> QED
  BY <1>2, <1>4, <1>11, <1>15 DEF n

LEMMA SeenOfPrefix ==
  ASSUME NEW C, NEW a \in Seq(C), NEW b \in Seq(C), NEW n \in Nat, n <= Len(a), n <= Len(b),
         \A k \in 1 .. n : a[k] = b[k]
  PROVE  Seen(a)[n] = Seen(b)[n]
<1> DEFINE T == {k \in 0 .. n : Seen(a)[k] = Seen(b)[k]}
<1>1. Len(a) \in Nat /\ Len(b) \in Nat
  BY LenProperties
<1>2. 0 \in T
  BY SeenIs
<1>3. ASSUME NEW k \in 1 .. n, k - 1 \in T PROVE k \in T
  <2>1. k \in 1 .. Len(a) /\ k \in 1 .. Len(b) /\ a[k] = b[k] /\ k \in 0 .. n
    BY <1>1
  <2>2. Seen(a)[k] = IF Shade(a[k]) THEN Seen(a)[k - 1] ELSE Append(Seen(a)[k - 1], a[k])
    BY <2>1, SeenIs
  <2>3. Seen(b)[k] = IF Shade(b[k]) THEN Seen(b)[k - 1] ELSE Append(Seen(b)[k - 1], b[k])
    BY <2>1, SeenIs
  <2> QED
    BY <1>3, <2>1, <2>2, <2>3
<1> HIDE DEF T
<1>4. \A k \in 0 .. n : k \in T
  BY <1>2, <1>3, UpTo
<1> QED
  BY <1>4 DEF T

Joins(s, t, e) == Append(s \o t, e) = s \o Append(t, e)

LEMMA Joined ==
  ASSUME NEW C, NEW s \in Seq(C), NEW t \in Seq(C), NEW e \in C
  PROVE  Joins(s, t, e)
<1>1. << e >> \in Seq(C) /\ s \o t \in Seq(C)
  BY ConcatProperties
<1>2. Append(s \o t, e) = (s \o t) \o << e >> /\ Append(t, e) = t \o << e >>
  BY <1>1, AppendIsConcat
<1> QED
  BY <1>1, <1>2, ConcatAssociative DEF Joins

LEMMA VisibleOfConcat ==
  ASSUME NEW C, NEW a \in Seq(C), NEW b \in Seq(C)
  PROVE  Visible(a \o b) = Visible(a) \o Visible(b)
<1> DEFINE n == Len(a)
           m == Len(b)
           s == a \o b
           T == {k \in 0 .. m : Seen(s)[n + k] = Visible(a) \o Seen(b)[k]}
<1>1. n \in Nat /\ m \in Nat
  BY LenProperties
<1>2. /\ s \in Seq(C) /\ Len(s) = n + m
      /\ (\A k \in 1 .. n : s[k] = a[k]) /\ \A k \in 1 .. m : s[n + k] = b[k]
  <2>1. /\ s \in Seq(C) /\ Len(s) = n + m
        /\ \A k \in 1 .. n + m : s[k] = IF k <= n THEN a[k] ELSE b[k - n]
    BY ConcatProperties
  <2>2. \A k \in 1 .. n : k \in 1 .. n + m /\ k <= n
    BY <1>1
  <2>3. \A k \in 1 .. m : n + k \in 1 .. n + m /\ ~ (n + k <= n) /\ n + k - n = k
    BY <1>1
  <2> QED
    BY <2>1, <2>2, <2>3
<1> HIDE DEF s
<1>3. Visible(a) \in Seq(C) /\ Visible(a) = Seen(a)[n]
  BY <1>1, SeenIs
<1>4. 0 \in T
  <2>1. Seen(s)[n] = Seen(a)[n]
    <3>1. n <= Len(a) /\ n <= Len(s) /\ n \in Nat /\ \A k \in 1 .. n : s[k] = a[k]
      BY <1>1, <1>2
    <3> HIDE DEF n
    <3> QED
      BY ONLY <1>2, <3>1, a \in Seq(C), SeenOfPrefix
  <2>2. Visible(a) \o << >> = Visible(a)
    BY <1>3, ConcatEmptySeq
  <2>3. Seen(b)[0] = << >> /\ n + 0 = n /\ 0 \in 0 .. m
    BY <1>1, SeenIs
  <2> QED
    BY <1>3, <2>1, <2>2, <2>3
<1>5. ASSUME NEW k \in 1 .. m, k - 1 \in T PROVE k \in T
  <2> DEFINE x == Seen(b)[k - 1]
             e == b[k]
  <2>1. k \in 0 .. m /\ k - 1 \in 0 .. m /\ n + k \in 1 .. n + m /\ n + k - 1 = n + (k - 1)
    BY <1>1
  <2>2. s[n + k] = e /\ e \in C /\ x \in Seq(C)
    BY <1>2, <2>1, ElementOfSeq, SeenIs
  <2>3. Seen(s)[n + k - 1] = Visible(a) \o x
    BY <1>5, <2>1
  <2>4. Seen(b)[k] = IF Shade(e) THEN x ELSE Append(x, e)
    BY SeenIs
  <2>5. Seen(s)[n + k] = IF Shade(e) THEN Visible(a) \o x ELSE Append(Visible(a) \o x, e)
    <3>1. n + k \in 1 .. Len(s)
      BY <1>2, <2>1
    <3>2. Seen(s)[n + k] = IF Shade(s[n + k]) THEN Seen(s)[n + k - 1] ELSE Append(Seen(s)[n + k - 1], s[n + k])
      <4>1. \A q \in 1 .. Len(s) :
              Seen(s)[q] = IF Shade(s[q]) THEN Seen(s)[q - 1] ELSE Append(Seen(s)[q - 1], s[q])
        BY <1>2, SeenIs
      <4> QED
        BY ONLY <3>1, <4>1
    <3> QED
      BY <2>2, <2>3, <3>2
  <2> HIDE DEF x, e
  <2>6. Append(Visible(a) \o x, e) = Visible(a) \o Append(x, e)
    <3>1. Visible(a) \in Seq(C)
      BY <1>3
    <3>2. x \in Seq(C)
      BY <2>2
    <3>3. e \in C
      BY <2>2
    <3>4. Joins(Visible(a), x, e)
      BY ONLY <3>1, <3>2, <3>3, Joined
    <3> QED
      BY ONLY <3>4 DEF Joins
  <2> QED
    BY <2>1, <2>4, <2>5, <2>6 DEF x, e
<1> HIDE DEF T, n, m
<1>6. \A k \in 0 .. m : k \in T
  BY <1>1, <1>4, <1>5, UpTo
<1>7. m \in 0 .. m
  BY <1>1
<1>8. Seen(s)[n + m] = Visible(a) \o Seen(b)[m]
  BY <1>6, <1>7 DEF T
<1>9. Visible(s) = Seen(s)[n + m] /\ Visible(b) = Seen(b)[m]
  BY <1>2, SeenIs DEF m
<1> QED
  BY <1>8, <1>9 DEF s

LEMMA VisibleOfShade ==
  ASSUME NEW C, NEW s \in Seq(C), \A k \in 1 .. Len(s) : Shade(s[k])
  PROVE  Visible(s) = << >>
<1> DEFINE n == Len(s)
           T == {k \in 0 .. n : Seen(s)[k] = << >>}
<1>1. n \in Nat
  BY LenProperties
<1>2. 0 \in T
  BY <1>1, SeenIs
<1>3. ASSUME NEW k \in 1 .. n, k - 1 \in T PROVE k \in T
  <2>1. Seen(s)[k] = IF Shade(s[k]) THEN Seen(s)[k - 1] ELSE Append(Seen(s)[k - 1], s[k])
    BY SeenIs
  <2> QED
    BY <1>1, <1>3, <2>1
<1> HIDE DEF T
<1>4. \A k \in 0 .. n : k \in T
  BY <1>1, <1>2, <1>3, UpTo
<1>5. n \in T
  BY <1>1, <1>4
<1>6. Seen(s)[n] = << >>
  BY <1>5 DEF T
<1> QED
  BY <1>6, SeenIs

(* How often a character comes in a text.                                  *)
LEMMA CountIs ==
  ASSUME NEW C, NEW s \in Seq(C), NEW c
  PROVE  Count(s, c) \in Nat /\ (c \notin {s[k] : k \in 1 .. Len(s)} => Count(s, c) = 0)
<1> DEFINE A == {i \in DOMAIN s : s[i] = c}
<1>1. DOMAIN s = 1 .. Len(s) /\ Len(s) \in Nat
  BY LenProperties
<1>2. IsFiniteSet(A)
  <2>1. IsFiniteSet(1 .. Len(s)) /\ A \subseteq 1 .. Len(s)
    BY <1>1, FS_Interval
  <2> HIDE DEF A
  <2> QED
    BY <2>1, FS_Subset
<1>3. c \notin {s[k] : k \in 1 .. Len(s)} => A = {}
  BY <1>1
<1> QED
  BY <1>2, <1>3, FS_CardinalityType, FS_EmptySet DEF Count

LEMMA CountOfConcat ==
  ASSUME NEW C, NEW a \in Seq(C), NEW b \in Seq(C), NEW c
  PROVE  Count(a \o b, c) = Count(a, c) + Count(b, c)
<1> DEFINE n == Len(a)
           m == Len(b)
           s == a \o b
           A == {i \in DOMAIN a : a[i] = c}
           B == {i \in DOMAIN b : b[i] = c}
           D == {i \in n + 1 .. n + m : b[i - n] = c}
           f == [i \in B |-> n + i]
<1>1. n \in Nat /\ m \in Nat /\ DOMAIN a = 1 .. n /\ DOMAIN b = 1 .. m
  BY LenProperties
<1>2. /\ s \in Seq(C) /\ Len(s) = n + m
      /\ \A k \in 1 .. n + m : s[k] = IF k <= n THEN a[k] ELSE b[k - n]
  BY ConcatProperties
<1>3. DOMAIN s = 1 .. n + m
  BY <1>2, LenProperties
<1> HIDE DEF s, n, m
<1>4. {i \in DOMAIN s : s[i] = c} = A \union D /\ A \intersect D = {}
  <2>1. \A i \in 1 .. n + m : i \in 1 .. n \/ i \in n + 1 .. n + m
    BY <1>1
  <2>2. \A i \in 1 .. n : i \in 1 .. n + m /\ i <= n /\ i \notin n + 1 .. n + m
    BY <1>1
  <2>3. \A i \in n + 1 .. n + m : i \in 1 .. n + m /\ ~ (i <= n)
    BY <1>1
  <2> QED
    BY <1>1, <1>2, <1>3, <2>1, <2>2, <2>3
<1>5. f \in Bijection(B, D)
  <2>1. \A i \in B : n + i \in D /\ n + i - n = i
    BY <1>1
  <2>2. \A d \in D : d - n \in B /\ n + (d - n) = d
    BY <1>1
  <2>3. f \in [B -> D] /\ \A i \in B : f[i] = n + i
    BY <2>1
  <2>4. \A i, j \in B : f[i] = f[j] => i = j
    <3>1. \A i \in B : i \in Int
      BY <1>1
    <3>2. \A i, j \in Int : n + i = n + j => i = j
      BY <1>1
    <3> HIDE DEF f, B
    <3> QED
      BY <2>3, <3>1, <3>2
  <2> HIDE DEF f, B, D
  <2>5. \A d \in D : \E i \in B : f[i] = d
    BY <2>2, <2>3
  <2> QED
    BY <2>3, <2>4, <2>5 DEF Bijection, Injection, Surjection, IsInjective
<1>6. IsFiniteSet(A) /\ IsFiniteSet(B)
  <2>1. IsFiniteSet(1 .. n) /\ IsFiniteSet(1 .. m)
    BY <1>1, FS_Interval
  <2>2. A \subseteq 1 .. n /\ B \subseteq 1 .. m
    BY <1>1
  <2> HIDE DEF A, B
  <2> QED
    BY <2>1, <2>2, FS_Subset
<1> HIDE DEF A, B, D, f
<1>7. IsFiniteSet(D) /\ Cardinality(D) = Cardinality(B)
  BY <1>5, <1>6, FS_Bijection DEF ExistsBijection
<1>8. Cardinality(A \union D) = Cardinality(A) + Cardinality(D) - Cardinality(A \intersect D)
  BY <1>6, <1>7, FS_Union
<1>9. Cardinality(A \intersect D) = 0 /\ Cardinality(A) \in Nat /\ Cardinality(B) \in Nat
  BY <1>4, <1>6, FS_EmptySet, FS_CardinalityType
<1>10. /\ Count(s, c) = Cardinality(A \union D)
       /\ Count(a, c) = Cardinality(A) /\ Count(b, c) = Cardinality(B)
  BY <1>4 DEF Count, A, B
<1> QED
  BY <1>7, <1>8, <1>9, <1>10 DEF s

LEMMA LeastIs ==
  ASSUME NEW T, T \subseteq Nat, T # {}
  PROVE  Min(T) \in T /\ \A k \in T : Min(T) <= k
<1>1. \E m \in T : \A k \in T : m <= k
  BY LeastNumber
<1> QED
  BY <1>1 DEF Min

LEMMA GreatestIs ==
  ASSUME NEW n \in Nat, NEW T, T \subseteq 0 .. n, T # {}
  PROVE  Max(T) \in T /\ \A k \in T : k <= Max(T)
<1>1. \E m \in T : \A k \in T : m >= k
  <2>1. PICK m \in T : \A k \in T : k <= m
    BY GreatestNumber
  <2> QED
    BY <2>1
<1> QED
  BY <1>1 DEF Max

(* A text, its beginning and its rest.                                     *)
Upto(s, k) == SubSeq(s, 1, k)
From(s, k) == SubSeq(s, k, Len(s))

LEMMA Parts ==
  ASSUME NEW C, NEW s \in Seq(C), NEW k \in 0 .. Len(s)
  PROVE  /\ Upto(s, k) \in Seq(C) /\ Len(Upto(s, k)) = k /\ \A i \in 1 .. k : Upto(s, k)[i] = s[i]
         /\ From(s, k + 1) \in Seq(C) /\ Len(From(s, k + 1)) = Len(s) - k
         /\ \A i \in 1 .. Len(s) - k : From(s, k + 1)[i] = s[k + i]
<1> DEFINE n == Len(s)
<1>1. n \in Nat /\ k \in Int /\ \A i \in 1 .. n : s[i] \in C
  BY LenProperties, ElementOfSeq
<1> HIDE DEF n
<1>2. k \in 0 .. n
  BY DEF n
<1>3. /\ Upto(s, k) \in Seq(C) /\ Len(Upto(s, k)) = IF 1 <= k THEN k - 1 + 1 ELSE 0
      /\ \A i \in 1 .. k - 1 + 1 : Upto(s, k)[i] = s[1 + i - 1]
  BY <1>1, <1>2, SubSeqProperties DEF Upto
<1>4. /\ From(s, k + 1) \in Seq(C) /\ Len(From(s, k + 1)) = IF k + 1 <= n THEN n - (k + 1) + 1 ELSE 0
      /\ \A i \in 1 .. n - (k + 1) + 1 : From(s, k + 1)[i] = s[k + 1 + i - 1]
  <2>1. \A i \in k + 1 .. n : s[i] \in C
    BY <1>1, <1>2
  <2>2. k + 1 \in Int /\ n \in Int
    BY <1>1, <1>2
  <2> QED
    BY <2>1, <2>2, SubSeqProperties DEF From, n
<1>5. k - 1 + 1 = k /\ (~ (1 <= k) => k = 0) /\ \A i \in 1 .. k : 1 + i - 1 = i
  BY <1>2
<1>6. /\ n - (k + 1) + 1 = n - k /\ (~ (k + 1 <= n) => n - k = 0)
      /\ \A i \in 1 .. n - k : k + 1 + i - 1 = k + i
  BY <1>1, <1>2
<1>7. Upto(s, k) \in Seq(C) /\ Len(Upto(s, k)) = k /\ \A i \in 1 .. k : Upto(s, k)[i] = s[i]
  BY <1>3, <1>5
<1>8. /\ From(s, k + 1) \in Seq(C) /\ Len(From(s, k + 1)) = n - k
      /\ \A i \in 1 .. n - k : From(s, k + 1)[i] = s[k + i]
  BY <1>4, <1>6
<1> QED
  BY <1>7, <1>8 DEF n

(* What joining two texts comes to.                                        *)
Join(s, a, b, n, m) ==
  /\ n \in Nat /\ m \in Nat /\ Len(s) = n + m
  /\ (\A k \in 1 .. n : s[k] = a[k]) /\ \A k \in 1 .. m : s[n + k] = b[k]

LEMMA JoinIs ==
  ASSUME NEW C, NEW a \in Seq(C), NEW b \in Seq(C)
  PROVE  a \o b \in Seq(C) /\ Join(a \o b, a, b, Len(a), Len(b))
<1> DEFINE n == Len(a)
           m == Len(b)
           s == a \o b
<1>1. n \in Nat /\ m \in Nat
  BY LenProperties
<1>2. /\ s \in Seq(C) /\ Len(s) = n + m
      /\ \A k \in 1 .. n + m : s[k] = IF k <= n THEN a[k] ELSE b[k - n]
  BY ConcatProperties
<1>3. \A k \in 1 .. n : k \in 1 .. n + m /\ k <= n
  BY <1>1
<1>4. \A k \in 1 .. m : n + k \in 1 .. n + m /\ ~ (n + k <= n) /\ n + k - n = k
  BY <1>1
<1> QED
  BY <1>1, <1>2, <1>3, <1>4 DEF Join

LEMMA Rejoined ==
  ASSUME NEW C, NEW s \in Seq(C), NEW k \in 0 .. Len(s)
  PROVE  s = Upto(s, k) \o From(s, k + 1)
<1> DEFINE a == Upto(s, k)
           b == From(s, k + 1)
           n == Len(s)
<1>1. /\ a \in Seq(C) /\ Len(a) = k /\ \A i \in 1 .. k : a[i] = s[i]
      /\ b \in Seq(C) /\ Len(b) = n - k /\ \A i \in 1 .. n - k : b[i] = s[k + i]
  BY Parts
<1> HIDE DEF a, b
<1>2. a \o b \in Seq(C) /\ Join(a \o b, a, b, k, n - k)
  BY <1>1, JoinIs
<1>3. n \in Nat
  BY LenProperties
<1>4. Len(a \o b) = n
  BY <1>2, <1>3 DEF Join
<1>5. ASSUME NEW i \in 1 .. n PROVE s[i] = (a \o b)[i]
  <2>1. CASE i \in 1 .. k
    BY <1>1, <1>2, <2>1 DEF Join
  <2>2. CASE i \notin 1 .. k
    <3> DEFINE e == i - k
    <3>1. e \in 1 .. n - k /\ k + e = i
      BY <1>3, <2>2
    <3> HIDE DEF e
    <3>2. b[e] = s[k + e] /\ (a \o b)[k + e] = b[e]
      BY <1>1, <1>2, <3>1 DEF Join
    <3> QED
      BY <3>1, <3>2
  <2> QED
    BY <2>1, <2>2
<1> HIDE DEF n
<1>6. Len(s) = n
  BY DEF n
<1>7. s = a \o b
  BY <1>2, <1>4, <1>5, <1>6, SeqEqual
<1> QED
  BY <1>7 DEF a, b

Assoc(s, t, u) == (s \o t) \o u = s \o (t \o u)

LEMMA Associates ==
  ASSUME NEW C, NEW s \in Seq(C), NEW t \in Seq(C), NEW u \in Seq(C)
  PROVE  Assoc(s, t, u)
BY ConcatAssociative DEF Assoc

(* Texts that look the same: what is seen of them, and their brackets.     *)
Same(a, b) ==
  Visible(a) = Visible(b) /\ \A c \in {"(", ")"} : Count(a, c) = Count(b, c)

LEMMA SameOfConcat ==
  ASSUME NEW C, NEW a \in Seq(C), NEW b \in Seq(C), NEW x \in Seq(C), NEW y \in Seq(C),
         Same(a, b), Same(x, y)
  PROVE  Same(a \o x, b \o y)
<1>1. Visible(a \o x) = Visible(a) \o Visible(x) /\ Visible(b \o y) = Visible(b) \o Visible(y)
  BY VisibleOfConcat
<1>2. \A c : Count(a \o x, c) = Count(a, c) + Count(x, c) /\ Count(b \o y, c) = Count(b, c) + Count(y, c)
  BY CountOfConcat
<1> QED
  BY <1>1, <1>2 DEF Same

LEMMA SameWithShade ==
  ASSUME NEW C, NEW a \in Seq(C), NEW r \in Seq(C), \A k \in 1 .. Len(r) : Shade(r[k])
  PROVE  Same(a \o r, a) /\ Same(r \o a, a)
<1>1. Visible(a) \in Seq(C)
  <2>1. Len(a) \in 0 .. Len(a) /\ Len(a) \in Nat
    BY LenProperties
  <2>2. \A k \in 0 .. Len(a) : Seen(a)[k] \in Seq(C)
    BY SeenIs
  <2>3. Visible(a) = Seen(a)[Len(a)]
    BY SeenIs
  <2> QED
    BY ONLY <2>1, <2>2, <2>3
<1>2. Visible(r) = << >>
  BY VisibleOfShade
<1>3. Visible(a \o r) = Visible(a) \o << >> /\ Visible(r \o a) = << >> \o Visible(a)
  BY <1>2, VisibleOfConcat
<1>4. Visible(a) \o << >> = Visible(a) /\ << >> \o Visible(a) = Visible(a)
  BY <1>1, ConcatEmptySeq
<1>5. ASSUME NEW c \in {"(", ")"} PROVE Count(a \o r, c) = Count(a, c) /\ Count(r \o a, c) = Count(a, c)
  <2>1. ~ Shade(c)
    BY <1>5 DEF Shade
  <2>2. c \notin {r[k] : k \in 1 .. Len(r)}
    BY <2>1
  <2>3. Count(r, c) = 0 /\ Count(a, c) \in Nat
    BY <2>2, CountIs
  <2>4. Count(a \o r, c) = Count(a, c) + Count(r, c) /\ Count(r \o a, c) = Count(r, c) + Count(a, c)
    BY CountOfConcat
  <2> QED
    BY <2>3, <2>4
<1> QED
  BY <1>3, <1>4, <1>5 DEF Same

(* The line without the spaces and tabs before it.                         *)
LineOK(t) ==
  /\ t[1] \notin {" ", "\t"} /\ Len(t) \in Nat
  /\ \E q \in 1 .. Len(t) : ~ Shade(t[q])
  /\ \A k \in 1 .. Len(t) - 1 : t[k] # "\n"

LEMMA FirstOfLine ==
  ASSUME NEW C, NEW s \in Seq(C), ~ isspaceline(s), \A k \in 1 .. Len(s) - 1 : s[k] # "\n"
  PROVE  pfirst(s) \in Seq(C) /\ Same(pfirst(s), s) /\ LineOK(pfirst(s))
<1> DEFINE n == Len(s)
           I == {i \in 1 .. n : s[i] \notin {" ", "\t"}}
           f == Min(I)
           t == From(s, f)
           r == Upto(s, f - 1)
<1>1. n \in Nat /\ DOMAIN s = 1 .. n
  BY LenProperties
<1>2. PICK q \in 1 .. n : ~ Shade(s[q])
  BY <1>1 DEF isspaceline, Shade
<1>3. q \in I
  BY <1>2 DEF Shade
<1>4. f \in I /\ \A k \in I : f <= k
  <2>1. I \subseteq 1 .. n
    OBVIOUS
  <2> HIDE DEF I
  <2>2. I \subseteq Nat /\ I # {}
    <3>1. \A k \in 1 .. n : k \in Nat
      OBVIOUS
    <3> QED
      BY <1>3, <2>1, <3>1
  <2> QED
    BY ONLY <2>2, LeastIs
<1>5. pfirst(s) = t
  <2>1. SelectInSeq(s, LAMBDA c : c \notin {" ", "\t"}) = f
    BY <1>3 DEF SelectInSeq
  <2> QED
    BY <2>1 DEF pfirst, From
<1> HIDE DEF f
<1>6. f \in 1 .. n /\ s[f] \notin {" ", "\t"} /\ f <= q /\ \A k \in 1 .. f - 1 : s[k] \in {" ", "\t"}
  <2>1. f \in 1 .. n /\ s[f] \notin {" ", "\t"} /\ f <= q
    BY <1>3, <1>4
  <2>2. \A k \in 1 .. f - 1 : k \in 1 .. n /\ ~ (f <= k)
    <3> HIDE DEF n
    <3>1. f \in 1 .. n
      BY <2>1
    <3>2. n \in Nat
      BY <1>1
    <3> QED
      BY ONLY <3>1, <3>2
  <2> QED
    BY <1>4, <2>1, <2>2
<1> HIDE DEF I, n
<1> DEFINE e == f - 1
           m == n - e
<1>7. f \in 1 .. n /\ n \in Nat /\ q \in 1 .. n /\ f <= q
  BY <1>1, <1>2, <1>6 DEF n
<1>13. e \in 0 .. n /\ e + 1 = f /\ m \in Nat
  BY ONLY <1>7
<1>14. 1 \in 1 .. m /\ e + 1 = f /\ q - e \in 1 .. m /\ e + (q - e) = q
  BY ONLY <1>7
<1>15. \A k \in 1 .. m - 1 : k \in 1 .. m /\ e + k \in 1 .. n - 1
  BY ONLY <1>7
<1> HIDE DEF e
<1>8. /\ r \in Seq(C) /\ Len(r) = e /\ \A i \in 1 .. e : r[i] = s[i]
      /\ t \in Seq(C) /\ Len(t) = m /\ \A i \in 1 .. m : t[i] = s[e + i]
  <2>1. r = Upto(s, e) /\ t = From(s, e + 1) /\ e \in 0 .. Len(s)
    BY <1>13 DEF e, n
  <2> HIDE DEF r, t
  <2> QED
    BY <2>1, Parts DEF n
<1>9. s = r \o t
  <2>1. r = Upto(s, e) /\ t = From(s, e + 1) /\ e \in 0 .. Len(s)
    BY <1>13 DEF e, n
  <2> HIDE DEF r, t
  <2> QED
    BY <2>1, Rejoined
<1> HIDE DEF r, t, m
<1>10. \A k \in 1 .. Len(r) : Shade(r[k])
  BY <1>6, <1>8 DEF Shade, e
<1>11. Same(t, s)
  <2>1. Same(r \o t, t)
    BY <1>8, <1>10, SameWithShade
  <2> QED
    BY <1>9, <2>1 DEF Same
<1>12. LineOK(t)
  <2>1. \A k \in 1 .. n - 1 : s[k] # "\n"
    BY DEF n
  <2>2. t[1] \notin {" ", "\t"}
    BY <1>6, <1>8, <1>14
  <2>3. ~ Shade(t[q - e])
    BY <1>2, <1>8, <1>14
  <2>4. \A k \in 1 .. m - 1 : t[k] # "\n"
    BY <1>8, <1>15, <2>1
  <2> QED
    BY <1>8, <1>13, <1>14, <2>2, <2>3, <2>4 DEF LineOK
<1> QED
  BY <1>5, <1>8, <1>11, <1>12

(* What is kept without the end of its last line.                          *)
LEMMA StrippedIs ==
  ASSUME NEW C, output \in Seq(C)
  PROVE  \E n \in 0 .. Len(output) :
           Stripped = Upto(output, n) /\ \A k \in n + 1 .. Len(output) : output[k] \in {"\n", "\r"}
<1> DEFINE m == Len(output)
           I == {i \in 1 .. m : output[i] \notin {"\n", "\r"}}
           n == IF I # {} THEN Max(I) ELSE 0
<1>1. m \in Nat
  BY LenProperties
<1>2. Stripped = Upto(output, n)
  BY DEF Stripped, Upto, SelectLastInSeq
<1>3. n \in 0 .. m /\ \A k \in n + 1 .. m : k \notin I
  <2>1. CASE I = {}
    BY <1>1, <2>1
  <2>2. CASE I # {}
    <3>1. I \subseteq 0 .. m
      OBVIOUS
    <3>2. Max(I) \in I /\ \A k \in I : k <= Max(I)
      <4> HIDE DEF I
      <4> QED
        BY <1>1, <2>2, <3>1, GreatestIs
    <3>3. n = Max(I) /\ n \in 0 .. m
      BY <2>2, <3>1, <3>2
    <3> HIDE DEF n
    <3>4. \A k \in n + 1 .. m : ~ (k <= n)
      BY <1>1, <3>3
    <3> QED
      BY <3>2, <3>3, <3>4
  <2> QED
    BY <2>1, <2>2
<1> HIDE DEF n
<1>4. \A k \in n + 1 .. m : output[k] \in {"\n", "\r"}
  <2>1. \A k \in n + 1 .. m : k \in 1 .. m
    BY <1>1, <1>3
  <2> QED
    BY <1>3, <2>1
<1> QED
  BY <1>2, <1>3, <1>4

(* The lines of a text, and that the line at i begins, after its spaces,   *)
(* at j, as far to the right as it should be, with something to be seen    *)
(* at v.                                                                   *)
LineStarts(text) == {i \in DOMAIN text : text[i] # "\n" /\ (i = 1 \/ text[i - 1] = "\n")}
AtDepth(d) == IF 2 * d < MaxIndent THEN 2 * d ELSE MaxIndent
Open(text) == Count(text, "(") - Count(text, ")")

Placed(text, i, j, v) ==
  /\ j \in i .. v /\ v \in DOMAIN text /\ ~ Shade(text[v])
  /\ \A k \in i .. v : text[k] # "\n"
  /\ \A k \in i .. j - 1 : text[k] = " "
  /\ text[j] # " " /\ (text[j] = ")" \/ j - i = AtDepth(Open(Upto(text, i - 1))))

WellPlaced(text) == \A i \in LineStarts(text) : \E j, v \in Nat : Placed(text, i, j, v)

LEMMA UptoAgrees ==
  ASSUME NEW C, NEW a \in Seq(C), NEW b \in Seq(C), NEW n \in Nat, n <= Len(a), n <= Len(b),
         \A k \in 1 .. n : a[k] = b[k]
  PROVE  Upto(a, n) = Upto(b, n)
<1>1. n \in 0 .. Len(a) /\ n \in 0 .. Len(b)
  BY LenProperties
<1>2. Upto(a, n) \in Seq(C) /\ Len(Upto(a, n)) = n /\ \A i \in 1 .. n : Upto(a, n)[i] = a[i]
  BY <1>1, Parts
<1>3. Upto(b, n) \in Seq(C) /\ Len(Upto(b, n)) = n /\ \A i \in 1 .. n : Upto(b, n)[i] = b[i]
  BY <1>1, Parts
<1> QED
  BY <1>2, <1>3, SeqEqual

LEMMA PlacedKept ==
  ASSUME NEW C, NEW a \in Seq(C), NEW b \in Seq(C), NEW n \in Nat, n <= Len(a), n <= Len(b),
         \A k \in 1 .. n : a[k] = b[k],
         NEW i \in 1 .. n, NEW j \in Nat, NEW v \in Nat, v <= n, Placed(a, i, j, v)
  PROVE  Placed(b, i, j, v)
<1>1. DOMAIN a = 1 .. Len(a) /\ DOMAIN b = 1 .. Len(b) /\ Len(a) \in Nat /\ Len(b) \in Nat
  BY LenProperties
<1>2. /\ j \in i .. v /\ v \in DOMAIN a /\ ~ Shade(a[v])
      /\ \A k \in i .. v : a[k] # "\n"
      /\ \A k \in i .. j - 1 : a[k] = " "
      /\ a[j] # " " /\ (a[j] = ")" \/ j - i = AtDepth(Open(Upto(a, i - 1))))
  BY DEF Placed
<1>3. v \in 1 .. n /\ j \in 1 .. n /\ (\A k \in i .. v : k \in 1 .. n) /\ \A k \in i .. j - 1 : k \in 1 .. n
  <2>1. n \in Nat /\ i \in 1 .. n /\ j \in Nat /\ v \in Nat /\ v <= n /\ j \in i .. v
    BY <1>2
  <2> QED
    BY ONLY <2>1
<1>4. v \in DOMAIN b
  BY <1>1, <1>3
<1>5. Upto(a, i - 1) = Upto(b, i - 1)
  <2>1. i - 1 \in Nat /\ i - 1 <= Len(a) /\ i - 1 <= Len(b) /\ \A k \in 1 .. i - 1 : a[k] = b[k]
    BY <1>1
  <2> QED
    BY <2>1, UptoAgrees
<1>6. /\ \A k \in i .. v : b[k] # "\n"
      /\ \A k \in i .. j - 1 : b[k] = " "
      /\ b[v] = a[v] /\ b[j] = a[j]
  BY <1>2, <1>3
<1> QED
  BY <1>2, <1>4, <1>5, <1>6 DEF Placed

(* Cutting off ends of lines behind what is seen keeps the lines.          *)
LEMMA LinesCut ==
  ASSUME NEW C, NEW a \in Seq(C), WellPlaced(a), NEW n \in 0 .. Len(a),
         \A k \in n + 1 .. Len(a) : Shade(a[k])
  PROVE  WellPlaced(Upto(a, n))
<1> DEFINE b == Upto(a, n)
<1>1. b \in Seq(C) /\ Len(b) = n /\ \A i \in 1 .. n : b[i] = a[i]
  BY Parts
<1>2. DOMAIN a = 1 .. Len(a) /\ DOMAIN b = 1 .. n /\ Len(a) \in Nat /\ n \in Nat
  BY <1>1, LenProperties
<1> HIDE DEF b
<1>3. ASSUME NEW i \in LineStarts(b) PROVE \E j, v \in Nat : Placed(b, i, j, v)
  <2>1. i \in 1 .. n /\ b[i] # "\n" /\ (i = 1 \/ b[i - 1] = "\n")
    BY <1>2 DEF LineStarts
  <2>2. i \in 1 .. Len(a) /\ (i # 1 => i - 1 \in 1 .. n)
    BY <1>2, <2>1
  <2>3. i \in LineStarts(a)
    BY <1>1, <1>2, <2>1, <2>2 DEF LineStarts
  <2>4. PICK j, v \in Nat : Placed(a, i, j, v)
    BY <2>3 DEF WellPlaced
  <2>5. v \in 1 .. Len(a) /\ ~ Shade(a[v])
    BY <1>2, <2>4 DEF Placed
  <2>6. v <= n
    BY <1>2, <2>5
  <2>7. n <= Len(a) /\ n <= Len(b)
    BY <1>1, <1>2
  <2>8. \A k \in 1 .. n : a[k] = b[k]
    BY <1>1
  <2>9. Placed(b, i, j, v)
    BY <1>1, <1>2, <2>1, <2>4, <2>6, <2>7, <2>8, PlacedKept
  <2> QED
    BY <2>9
<1> QED
  BY <1>3 DEF WellPlaced, b

(* A text that grows keeps its lines, if those that begin behind it are    *)
(* in their place.                                                         *)
LEMMA LinesGrow ==
  ASSUME NEW C, NEW a \in Seq(C), WellPlaced(a), NEW b \in Seq(C), Len(a) <= Len(b),
         \A k \in 1 .. Len(a) : b[k] = a[k],
         \A i \in LineStarts(b) : i \in 1 .. Len(a) \/ \E j, v \in Nat : Placed(b, i, j, v)
  PROVE  WellPlaced(b)
<1> DEFINE n == Len(a)
<1>1. DOMAIN a = 1 .. n /\ DOMAIN b = 1 .. Len(b) /\ n \in Nat /\ Len(b) \in Nat
  BY LenProperties
<1>2. ASSUME NEW i \in LineStarts(b) PROVE \E j, v \in Nat : Placed(b, i, j, v)
  <2>1. CASE i \in 1 .. n
    <3>1. b[i] # "\n" /\ (i = 1 \/ b[i - 1] = "\n") /\ (i # 1 => i - 1 \in 1 .. n)
      BY <1>1, <2>1 DEF LineStarts
    <3>2. i \in LineStarts(a)
      BY <1>1, <2>1, <3>1 DEF LineStarts
    <3>3. PICK j, v \in Nat : Placed(a, i, j, v)
      BY <3>2 DEF WellPlaced
    <3>4. v \in 1 .. n
      BY <1>1, <3>3 DEF Placed
    <3>5. v <= n /\ n <= Len(a) /\ n <= Len(b)
      BY <1>1, <3>4
    <3>6. \A k \in 1 .. n : a[k] = b[k]
      OBVIOUS
    <3>7. Placed(b, i, j, v)
      BY <1>1, <2>1, <3>3, <3>5, <3>6, PlacedKept
    <3> QED
      BY <3>7
  <2> QED
    BY <1>2, <2>1
<1> QED
  BY <1>2 DEF WellPlaced

LEMMA LinesEnded ==
  ASSUME NEW C, "\n" \in C, NEW a \in Seq(C), WellPlaced(a)
  PROVE  WellPlaced(a \o << "\n" >>)
<1> DEFINE n == Len(a)
           e == << "\n" >>
           b == a \o e
<1>1. e \in Seq(C) /\ Len(e) = 1 /\ e[1] = "\n"
  OBVIOUS
<1> HIDE DEF e
<1>2. b \in Seq(C) /\ Join(b, a, e, n, 1)
  BY <1>1, JoinIs
<1> HIDE DEF b
<1>3. n \in Nat /\ Len(b) = n + 1 /\ (\A k \in 1 .. n : b[k] = a[k]) /\ b[n + 1] = "\n"
  BY <1>1, <1>2 DEF Join
<1>4. DOMAIN b = 1 .. n + 1
  BY <1>2, <1>3, LenProperties
<1>5. \A i \in LineStarts(b) : i \in 1 .. n
  <2> SUFFICES ASSUME NEW i \in 1 .. n + 1, b[i] # "\n" PROVE i \in 1 .. n
    BY <1>4 DEF LineStarts
  <2>1. i # n + 1
    BY <1>3
  <2> QED
    BY <1>3, <2>1
<1>6. Len(a) <= Len(b)
  BY <1>3
<1>7. WellPlaced(b)
  BY <1>2, <1>3, <1>5, <1>6, LinesGrow
<1> QED
  BY <1>7 DEF b, e

Spaces(p) == [i \in 1 .. p |-> " "]

LEMMA TextOf ==
  ASSUME NEW C, NEW n \in Nat, NEW c \in [1 .. n -> C]
  PROVE  c \in Seq(C) /\ Len(c) = n
OBVIOUS

LEMMA SpacesAre ==
  ASSUME NEW C, " " \in C, NEW p \in Nat
  PROVE  Spaces(p) \in Seq(C) /\ Len(Spaces(p)) = p /\ \A k \in 1 .. p : Spaces(p)[k] = " "
<1>1. Spaces(p) \in [1 .. p -> C] /\ \A k \in 1 .. p : Spaces(p)[k] = " "
  BY DEF Spaces
<1> QED
  BY <1>1, TextOf

(* A line that is put behind is in its place.                              *)
LEMMA LineAdded ==
  ASSUME NEW C, " " \in C, NEW a \in Seq(C), WellPlaced(a), NEW p \in Nat,
         NEW t \in Seq(C), LineOK(t),
         t[1] = ")" \/ p = AtDepth(Open(a))
  PROVE  WellPlaced((a \o Spaces(p)) \o t)
<1> DEFINE n == Len(a)
           h == a \o Spaces(p)
           m == Len(t)
           b == h \o t
<1>1. n \in Nat /\ m \in Nat /\ p \in Nat
  BY LenProperties
<1>2. Spaces(p) \in Seq(C) /\ Len(Spaces(p)) = p /\ \A k \in 1 .. p : Spaces(p)[k] = " "
  BY SpacesAre
<1>3. h \in Seq(C) /\ Join(h, a, Spaces(p), n, p)
  BY <1>2, JoinIs
<1> HIDE DEF h
<1>4. Len(h) = n + p /\ (\A k \in 1 .. n : h[k] = a[k]) /\ \A k \in 1 .. p : h[n + k] = " "
  BY <1>2, <1>3 DEF Join
<1>5. b \in Seq(C) /\ Join(b, h, t, n + p, m)
  BY <1>3, <1>4, JoinIs
<1> HIDE DEF b
<1>6. Len(b) = n + p + m /\ (\A k \in 1 .. n + p : b[k] = h[k]) /\ \A k \in 1 .. m : b[n + p + k] = t[k]
  BY <1>5 DEF Join
<1>7. DOMAIN b = 1 .. n + p + m
  BY <1>5, <1>6, LenProperties
<1> HIDE DEF n, m
<1>8. (\A k \in 1 .. n : k \in 1 .. n + p) /\ \A k \in 1 .. p : n + k \in 1 .. n + p
  BY ONLY <1>1
<1>9. (\A k \in 1 .. n : b[k] = a[k]) /\ \A k \in 1 .. p : b[n + k] = " "
  BY <1>4, <1>6, <1>8
<1>10. /\ t[1] # " " /\ \A k \in 1 .. m - 1 : t[k] # "\n"
  BY DEF LineOK, m
<1>11. PICK q \in 1 .. m : ~ Shade(t[q])
  BY DEF LineOK, m
<1>18. q \in 1 .. m
  BY <1>11
<1> DEFINE i0 == n + 1
           j0 == n + p + 1
           v0 == n + p + q
<1>12. /\ i0 \in Nat /\ j0 \in Nat /\ v0 \in Nat /\ j0 \in i0 .. v0 /\ v0 \in 1 .. n + p + m
       /\ 1 \in 1 .. m /\ j0 - i0 = p /\ i0 - 1 = n /\ j0 = n + p + 1 /\ v0 = n + p + q
  BY ONLY <1>1, <1>18
<1>13. Placed(b, i0, j0, v0)
  <2>1. b[j0] = t[1] /\ b[v0] = t[q]
    BY <1>6, <1>12
  <2>2. \A k \in i0 .. j0 - 1 : k - n \in 1 .. p /\ n + (k - n) = k
    BY ONLY <1>1
  <2>3. \A k \in i0 .. j0 - 1 : b[k] = " "
    BY <1>9, <2>2
  <2>4. \A k \in j0 .. v0 : k - (n + p) \in 1 .. q /\ n + p + (k - (n + p)) = k
    BY ONLY <1>1, <1>18
  <2>5. \A k \in 1 .. q : k \in 1 .. m /\ (k = q \/ k \in 1 .. m - 1)
    BY ONLY <1>1, <1>18
  <2>6. t[q] # "\n"
    BY <1>11 DEF Shade
  <2>7. \A k \in 1 .. q : t[k] # "\n"
    BY <1>10, <2>5, <2>6
  <2>8. \A k \in j0 .. v0 : b[k] # "\n"
    <3> SUFFICES ASSUME NEW k \in j0 .. v0 PROVE b[k] # "\n"
      OBVIOUS
    <3> DEFINE e == k - (n + p)
    <3>1. e \in 1 .. q /\ n + p + e = k
      BY <2>4
    <3> HIDE DEF e, j0, v0
    <3>2. e \in 1 .. m /\ t[e] # "\n"
      BY <2>5, <2>7, <3>1
    <3>3. b[n + p + e] = t[e]
      BY <1>6, <3>2
    <3> QED
      BY <3>1, <3>2, <3>3
  <2>9. \A k \in i0 .. v0 : k \in i0 .. j0 - 1 \/ k \in j0 .. v0
    BY ONLY <1>1, <1>18
  <2>10. \A k \in i0 .. v0 : b[k] # "\n"
    BY <2>3, <2>8, <2>9
  <2>11. Upto(b, n) = a
    <3>0. n \in 0 .. n + p + m
      BY ONLY <1>1
    <3>1. n \in 0 .. Len(b)
      BY <1>6, <3>0
    <3>2. Upto(b, n) \in Seq(C) /\ Len(Upto(b, n)) = n /\ \A i \in 1 .. n : Upto(b, n)[i] = b[i]
      BY <1>5, <3>1, Parts
    <3> QED
      BY <1>9, <3>2, SeqEqual DEF n
  <2>12. b[j0] = ")" \/ j0 - i0 = AtDepth(Open(Upto(b, i0 - 1)))
    BY <1>12, <2>1, <2>11
  <2>13. b[j0] # " " /\ ~ Shade(b[v0]) /\ v0 \in DOMAIN b
    BY <1>7, <1>10, <1>11, <1>12, <2>1
  <2> HIDE DEF i0, j0, v0
  <2> QED
    BY <1>12, <2>3, <2>10, <2>12, <2>13 DEF Placed
<1>14. \A i \in LineStarts(b) : i \in 1 .. n \/ i = i0
  <2> SUFFICES ASSUME NEW i \in LineStarts(b), i \notin 1 .. n, i # i0 PROVE FALSE
    OBVIOUS
  <2>0. i \in 1 .. n + p + m /\ (i = 1 \/ b[i - 1] = "\n")
    BY <1>7 DEF LineStarts
  <2>0a. i \notin 1 .. n /\ i # n + 1
    OBVIOUS
  <2>0b. b[i - 1] = "\n"
    <3>1. i # 1
      BY ONLY <1>1, <2>0, <2>0a
    <3> QED
      BY <2>0, <3>1
  <2>1. CASE i - 1 \in n + 1 .. n + p
    <3> DEFINE e == i - 1 - n
    <3>1. e \in 1 .. p /\ n + e = i - 1
      BY ONLY <1>1, <2>0, <2>1
    <3> HIDE DEF e
    <3>2. b[i - 1] = " "
      BY <1>9, <3>1
    <3> QED
      BY <2>0b, <3>2
  <2>2. CASE i - 1 \notin n + 1 .. n + p
    <3> DEFINE e == i - 1 - (n + p)
    <3>1. e \in 1 .. m - 1 /\ e \in 1 .. m /\ n + p + e = i - 1
      BY ONLY <1>1, <2>0, <2>0a, <2>2
    <3> HIDE DEF e
    <3>2. b[i - 1] = t[e] /\ t[e] # "\n"
      BY <1>6, <1>10, <3>1
    <3> QED
      BY <2>0b, <3>2
  <2> QED
    BY <2>1, <2>2
<1>15. \A i \in LineStarts(b) : i \in 1 .. n \/ \E j, v \in Nat : Placed(b, i, j, v)
  <2> HIDE DEF i0, j0, v0
  <2> QED
    BY <1>12, <1>13, <1>14
<1>16. n <= Len(b)
  <2>1. n <= n + p + m
    BY ONLY <1>1
  <2> QED
    BY <1>6, <2>1
<1>17. WellPlaced(b)
  BY <1>5, <1>9, <1>15, <1>16, LinesGrow DEF n
<1> QED
  BY <1>17 DEF b, h

(* What keeps IndentKeeps: while nothing was closed that was not open,     *)
(* what is shown and kept looks as what was read, its lines are in their   *)
(* place, and lonely is the depth.                                         *)
Letters == STRING \union {" ", "\n"}

LispOK(sh, kept, depth, read) ==
  /\ sh \in Seq(Letters) /\ kept \in Seq(Letters) /\ read \in Seq(Letters)
  /\ depth = Open(read) /\ depth >= 0
  /\ Same(sh \o kept, read) /\ WellPlaced(sh \o kept)

LispIInv == ~ closed => LispOK(shown, output, lonely, given)

LEMMA PieceIs ==
  ASSUME NEW piece \in Pieces
  PROVE  piece \in Seq(Letters) /\ \A k \in 1 .. Len(piece) - 1 : piece[k] # "\n"
<1>1. piece \in Seq(STRING)
  BY LispAssumption
<1>2. Len(piece) \in Nat /\ piece \in [1 .. Len(piece) -> STRING]
  BY <1>1, LenProperties
<1>3. piece \in [1 .. Len(piece) -> Letters]
  BY <1>2 DEF Letters
<1> HIDE DEF Letters
<1>4. piece \in Seq(Letters)
  BY ONLY <1>2, <1>3, TextOf
<1> QED
  BY <1>4, LispAssumption

LEMMA OpenIs ==
  ASSUME NEW C, NEW a \in Seq(C), NEW b \in Seq(C)
  PROVE  Open(a) \in Int /\ Open(a \o b) = Open(a) + Open(b)
<1>1. \A c : Count(a, c) \in Nat /\ Count(b, c) \in Nat /\ Count(a \o b, c) = Count(a, c) + Count(b, c)
  BY CountIs, CountOfConcat
<1> HIDE DEF Count
<1> QED
  BY <1>1 DEF Open

(* A line put behind a text that looks as what was read.                   *)
LEMMA Written ==
  ASSUME NEW C, " " \in C, NEW base \in Seq(C), WellPlaced(base), NEW p \in Nat,
         NEW read \in Seq(C), Same(base, read),
         NEW piece \in Seq(C), NEW t \in Seq(C), Same(t, piece), LineOK(t),
         t[1] = ")" \/ p = AtDepth(Open(base)),
         NEW sh \in Seq(C), NEW x \in Seq(C), sh \o x = base \o Spaces(p)
  PROVE  Same(sh \o (x \o t), read \o piece) /\ WellPlaced(sh \o (x \o t))
<1> DEFINE h == sh \o x
           b == h \o t
<1>1. Spaces(p) \in Seq(C) /\ \A k \in 1 .. Len(Spaces(p)) : Shade(Spaces(p)[k])
  BY SpacesAre DEF Shade
<1>2. h \in Seq(C)
  BY ConcatProperties
<1>3. Same(h, read)
  <2>1. Same(base \o Spaces(p), base)
    BY <1>1, SameWithShade
  <2> QED
    BY <2>1 DEF Same
<1>4. Same(b, read \o piece)
  <2> HIDE DEF h
  <2> QED
    BY <1>2, <1>3, SameOfConcat
<1>5. WellPlaced((base \o Spaces(p)) \o t)
  BY LineAdded
<1>6. b = sh \o (x \o t)
  <2>1. Assoc(sh, x, t)
    BY Associates
  <2> QED
    BY ONLY <2>1 DEF Assoc, b, h
<1>7. WellPlaced(b)
  BY <1>5
<1> HIDE DEF b
<1> QED
  BY <1>4, <1>6, <1>7

LEMMA IndentedIs ==
  ASSUME NEW C, " " \in C, output \in Seq(C), lonely \in Nat
  PROVE  Indented = output \o Spaces(AtDepth(lonely)) /\ AtDepth(lonely) \in Nat
<1> DEFINE n == Len(output)
           p == AtDepth(lonely)
           w == Spaces(MaxIndent)
           all == output \o w
           end == n + 2 * lonely
           m == IF end < Len(all) THEN end ELSE Len(all)
           b == output \o Spaces(p)
<1>1. n \in Nat /\ MaxIndent \in Nat /\ lonely \in Nat
  BY LenProperties, LispAssumption
<1>2. p \in Nat /\ p <= MaxIndent
  BY ONLY <1>1 DEF AtDepth
<1>3. w \in Seq(C) /\ Len(w) = MaxIndent /\ \A k \in 1 .. MaxIndent : w[k] = " "
  BY <1>1, SpacesAre
<1>4. Spaces(p) \in Seq(C) /\ Len(Spaces(p)) = p /\ \A k \in 1 .. p : Spaces(p)[k] = " "
  BY <1>2, SpacesAre
<1>5. Indented = Upto(all, m)
  BY DEF Indented, Upto, Spaces
<1> HIDE DEF w
<1>6. all \in Seq(C) /\ Join(all, output, w, n, MaxIndent)
  BY <1>3, JoinIs
<1> HIDE DEF all
<1>7. /\ Len(all) = n + MaxIndent /\ (\A k \in 1 .. n : all[k] = output[k])
      /\ \A k \in 1 .. MaxIndent : all[n + k] = " "
  BY <1>3, <1>6 DEF Join
<1>8. m = n + p
  <2>1. Len(all) = n + MaxIndent
    BY <1>7
  <2> QED
    BY ONLY <1>1, <2>1 DEF AtDepth
<1>9. b \in Seq(C) /\ Join(b, output, Spaces(p), n, p)
  BY <1>4, JoinIs
<1> HIDE DEF b
<1>10. Len(b) = n + p /\ (\A k \in 1 .. n : b[k] = output[k]) /\ \A k \in 1 .. p : b[n + k] = " "
  BY <1>4, <1>9 DEF Join
<1> HIDE DEF m, n, p
<1>11. n + p \in 0 .. n + MaxIndent /\ \A k \in 1 .. p : k \in 1 .. MaxIndent
  BY ONLY <1>1, <1>2
<1>12. /\ Upto(all, n + p) \in Seq(C) /\ Len(Upto(all, n + p)) = n + p
       /\ \A i \in 1 .. n + p : Upto(all, n + p)[i] = all[i]
  <2>1. all \in Seq(C)
    BY <1>6
  <2>2. n + p \in 0 .. Len(all)
    BY <1>7, <1>11
  <2> QED
    BY ONLY <2>1, <2>2, Parts
<1>13. ASSUME NEW i \in 1 .. n + p PROVE Upto(all, n + p)[i] = b[i]
  <2>1. CASE i \in 1 .. n
    BY <1>7, <1>10, <1>12, <2>1
  <2>2. CASE i \notin 1 .. n
    <3> DEFINE e == i - n
    <3>0. i \in 1 .. n + p
      OBVIOUS
    <3>1. e \in 1 .. p /\ n + e = i
      BY ONLY <1>1, <1>2, <2>2, <3>0
    <3> HIDE DEF e
    <3>2. b[n + e] = " " /\ all[n + e] = " "
      BY <1>7, <1>10, <1>11, <3>1
    <3> QED
      BY <1>12, <3>1, <3>2
  <2> QED
    BY <2>1, <2>2
<1>14. Upto(all, n + p) = b
  BY <1>9, <1>10, <1>12, <1>13, SeqEqual
<1> QED
  BY <1>2, <1>5, <1>8, <1>14 DEF b, p

LEMMA LetterIs == " " \in Letters /\ "\n" \in Letters
BY DEF Letters

(* A line keeps it: one that begins with what it closes is pulled up to    *)
(* the line before, another one is put below it.                           *)
LEMMA LineKeeps ==
  ASSUME LispOK(shown, output, lonely, given), NEW piece \in Pieces, Line(piece),
         Count(given', "(") >= Count(given', ")")
  PROVE  LispOK(shown', output', lonely', given')
<1> DEFINE text == shown \o output
           t == pfirst(piece)
           C == Letters
<1>1. /\ shown \in Seq(C) /\ output \in Seq(C) /\ given \in Seq(C) /\ lonely = Open(given) /\ lonely >= 0
      /\ Same(text, given) /\ WellPlaced(text)
  BY DEF LispOK
<1>2. piece \in Seq(C) /\ \A k \in 1 .. Len(piece) - 1 : piece[k] # "\n"
  BY PieceIs
<1>3. /\ ~ isspaceline(piece)
      /\ output' = (IF t[1] = ")" THEN Stripped ELSE Indented) \o t
      /\ lonely' = lonely + cacu_pathen(piece) /\ given' = given \o piece /\ shown' = shown
  BY DEF Line
<1> HIDE DEF C
<1>4. t \in Seq(C) /\ Same(t, piece) /\ LineOK(t)
  BY <1>2, <1>3, FirstOfLine
<1> HIDE DEF t
<1>5. " " \in C
  BY LetterIs DEF C
<1>6. given' \in Seq(C) /\ lonely' = Open(given') /\ lonely' >= 0
  <2>1. given \o piece \in Seq(C) /\ given' = given \o piece
    BY <1>1, <1>2, <1>3, ConcatProperties
  <2>2. Open(given \o piece) = Open(given) + Open(piece) /\ Open(given) \in Int /\ Open(piece) \in Int
    BY <1>1, <1>2, OpenIs
  <2>3. cacu_pathen(piece) = Open(piece)
    BY DEF cacu_pathen, Open
  <2>4. Count(given', "(") \in Nat /\ Count(given', ")") \in Nat
    BY <2>1, CountIs
  <2>5. Open(given') >= 0
    <3> HIDE DEF Count
    <3>1. Count(given', "(") - Count(given', ")") >= 0
      BY <2>4
    <3> QED
      BY <3>1 DEF Open
  <2> QED
    BY <1>1, <1>3, <2>1, <2>2, <2>3, <2>5
<1>7. text \in Seq(C)
  BY <1>1, ConcatProperties
<1>8. CASE t[1] = ")"
  <2>1. PICK n \in 0 .. Len(output) :
          Stripped = Upto(output, n) /\ \A k \in n + 1 .. Len(output) : output[k] \in {"\n", "\r"}
    BY <1>1, StrippedIs
  <2> DEFINE x == Upto(output, n)
             r == From(output, n + 1)
             base == shown \o x
  <2>2. /\ x \in Seq(C) /\ Len(x) = n /\ r \in Seq(C) /\ Len(r) = Len(output) - n
        /\ \A i \in 1 .. Len(output) - n : r[i] = output[n + i]
    BY <1>1, Parts
  <2>3. output = x \o r
    BY <1>1, Rejoined
  <2> HIDE DEF x, r
  <2>4. \A k \in 1 .. Len(r) : Shade(r[k])
    <3>1. Len(output) \in Nat /\ n \in 0 .. Len(output)
      BY <1>1, LenProperties
    <3>2. \A k \in 1 .. Len(output) - n : n + k \in n + 1 .. Len(output)
      BY ONLY <3>1
    <3> QED
      BY <2>1, <2>2, <3>2 DEF Shade
  <2>5. base \in Seq(C)
    BY <1>1, <2>2, ConcatProperties
  <2>6. text = base \o r
    <3>1. Assoc(shown, x, r)
      BY <1>1, <2>2, Associates
    <3> QED
      BY ONLY <2>3, <3>1 DEF Assoc, text, base
  <2> HIDE DEF text, base
  <2>7. Same(base, given)
    <3>1. Same(base \o r, base)
      BY <2>2, <2>4, <2>5, SameWithShade
    <3> QED
      BY <1>1, <2>6, <3>1 DEF Same
  <2>8. WellPlaced(base)
    <3> DEFINE m == Len(base)
    <3>1. Join(text, base, r, m, Len(r))
      BY <2>2, <2>5, <2>6, JoinIs
    <3>2. m \in Nat /\ Len(r) \in Nat /\ Len(text) = m + Len(r)
      BY <3>1 DEF Join
    <3>3. (\A k \in 1 .. m : text[k] = base[k]) /\ \A k \in 1 .. Len(r) : text[m + k] = r[k]
      BY <3>1 DEF Join
    <3> HIDE DEF m
    <3>4. m \in 0 .. Len(text) /\ \A k \in m + 1 .. Len(text) : k - m \in 1 .. Len(r) /\ m + (k - m) = k
      BY ONLY <3>2
    <3>5. \A k \in m + 1 .. Len(text) : Shade(text[k])
      BY <2>4, <3>3, <3>4
    <3>6. WellPlaced(Upto(text, m))
      BY <1>1, <1>7, <3>4, <3>5, LinesCut
    <3>7. Upto(text, m) \in Seq(C) /\ Len(Upto(text, m)) = m /\ \A i \in 1 .. m : Upto(text, m)[i] = text[i]
      BY <1>7, <3>4, Parts
    <3>8. Upto(text, m) = base
      BY <2>5, <3>3, <3>7, SeqEqual DEF m
    <3> QED
      BY <3>6, <3>8
  <2>9. shown \o x = base \o Spaces(0)
    <3>1. Spaces(0) \in Seq(C) /\ Len(Spaces(0)) = 0
      BY <1>5, SpacesAre
    <3>2. Spaces(0) = << >>
      BY <3>1, EmptySeq
    <3> QED
      BY <2>5, <3>2, ConcatEmptySeq DEF base
  <2>10. output' = x \o t
    BY <1>3, <1>8, <2>1 DEF x
  <2>11. 0 \in Nat
    OBVIOUS
  <2>12. Same(shown \o (x \o t), given \o piece) /\ WellPlaced(shown \o (x \o t))
    BY ONLY <1>1, <1>2, <1>4, <1>5, <1>8, <2>2, <2>5, <2>7, <2>8, <2>9, <2>11, Written
  <2>13. output' \in Seq(C)
    BY <1>4, <2>2, <2>10, ConcatProperties
  <2> QED
    BY ONLY <1>1, <1>3, <1>6, <2>10, <2>12, <2>13 DEF LispOK, C
<1>9. CASE t[1] # ")"
  <2> DEFINE x == Indented
             p == AtDepth(lonely)
  <2>1. lonely \in Nat
    <3>1. Open(given) \in Int
      BY <1>1, OpenIs
    <3> QED
      BY <1>1, <3>1
  <2>2. x = output \o Spaces(p) /\ p \in Nat
    BY <1>1, <1>5, <2>1, IndentedIs
  <2>3. Spaces(p) \in Seq(C)
    BY <1>5, <2>2, SpacesAre
  <2>4. output' = x \o t
    BY <1>3, <1>9
  <2> HIDE DEF x, p
  <2>5. x \in Seq(C)
    BY <1>1, <2>2, <2>3, ConcatProperties
  <2>6. shown \o x = text \o Spaces(p)
    <3>1. Assoc(shown, output, Spaces(p))
      BY <1>1, <2>3, Associates
    <3> QED
      BY ONLY <2>2, <3>1 DEF Assoc, text
  <2>7. p = AtDepth(Open(text))
    BY <1>1 DEF Same, Open, p
  <2> HIDE DEF text
  <2>8. Same(shown \o (x \o t), given \o piece) /\ WellPlaced(shown \o (x \o t))
    BY ONLY <1>1, <1>2, <1>4, <1>5, <1>7, <2>2, <2>5, <2>6, <2>7, Written
  <2>9. output' \in Seq(C)
    BY <1>4, <2>4, <2>5, ConcatProperties
  <2> QED
    BY ONLY <1>1, <1>3, <1>6, <2>4, <2>8, <2>9 DEF LispOK, C
<1> QED
  BY <1>8, <1>9

LEMMA BlankKeeps ==
  ASSUME LispOK(shown, output, lonely, given), NEW piece \in Pieces, Blank(piece)
  PROVE  LispOK(shown', output', lonely', given')
<1> DEFINE text == shown \o output
           e == << "\n" >>
           C == Letters
           next == text \o e
<1>1. /\ shown \in Seq(C) /\ output \in Seq(C) /\ given \in Seq(C) /\ lonely = Open(given) /\ lonely >= 0
      /\ Same(text, given) /\ WellPlaced(text)
  BY DEF LispOK
<1>2. piece \in Seq(C)
  BY PieceIs
<1>3. /\ isspaceline(piece) /\ shown' = next /\ output' = << >>
      /\ given' = given \o piece /\ lonely' = lonely
  BY DEF Blank
<1>4. \A k \in 1 .. Len(piece) : Shade(piece[k])
  BY <1>2, <1>3, LenProperties DEF isspaceline, Shade
<1>5. "\n" \in C
  BY LetterIs
<1> HIDE DEF C
<1>6. e \in Seq(C) /\ \A k \in 1 .. Len(e) : Shade(e[k])
  <2>1. e \in Seq(C) /\ Len(e) = 1 /\ e[1] = "\n"
    BY <1>5
  <2> HIDE DEF e
  <2>2. \A k \in 1 .. 1 : k = 1
    OBVIOUS
  <2> QED
    BY <2>1, <2>2 DEF Shade
<1>7. text \in Seq(C)
  BY <1>1, ConcatProperties
<1> HIDE DEF text
<1>8. WellPlaced(next)
  BY <1>1, <1>5, <1>7, LinesEnded
<1> HIDE DEF e
<1>9. next \in Seq(C)
  BY <1>6, <1>7, ConcatProperties
<1>10. Same(next, text)
  BY <1>6, <1>7, SameWithShade
<1> HIDE DEF next
<1>11. Same(given \o piece, given) /\ given \o piece \in Seq(C)
  BY <1>1, <1>2, <1>4, SameWithShade, ConcatProperties
<1>12. Same(next, given') /\ Open(given') = Open(given) /\ given' \in Seq(C)
  BY <1>1, <1>3, <1>10, <1>11 DEF Same, Open
<1>13. shown' \o output' = next /\ << >> \in Seq(C)
  BY <1>3, <1>9, ConcatEmptySeq, EmptySeq
<1>14. output' \in Seq(C) /\ shown' \in Seq(C) /\ lonely' = Open(given') /\ lonely' >= 0
  BY <1>1, <1>3, <1>9, <1>12, <1>13
<1> QED
  BY ONLY <1>8, <1>12, <1>13, <1>14 DEF LispOK, C

(* Where the lines are, as IndentKeeps finds them.                         *)
Begin(text, i) ==
  LET s == SubSeq(text, i, Len(text))
      seen == {k \in 1 .. Len(s) : s[k] # " "}
  IN i - 1 + IF seen # {} THEN Min(seen) ELSE 0
LEMMA FirstIs ==
  ASSUME NEW C, NEW text \in Seq(C), NEW i \in DOMAIN text, NEW j \in Nat, NEW v \in Nat,
         Placed(text, i, j, v)
  PROVE  Begin(text, i) = j
<1> DEFINE n == Len(text)
           s == SubSeq(text, i, n)
           I == {k \in 1 .. Len(s) : s[k] # " "}
           e == j - i + 1
           d == i - 1
<1>1. n \in Nat /\ i \in 1 .. n
  BY LenProperties
<1>2. j \in i .. v /\ v \in 1 .. n /\ text[j] # " " /\ \A k \in i .. j - 1 : text[k] = " "
  BY LenProperties DEF Placed
<1>0. j \in i .. v /\ v \in 1 .. n /\ j \in Nat
  BY <1>2
<1> HIDE DEF n
<1>3. d \in 0 .. n /\ d + 1 = i /\ e \in 1 .. n - d /\ d + e = j /\ i - 1 + e = j /\ e \in Nat
  BY ONLY <1>0, <1>1
<1>4. \A k \in 1 .. n - d : k < e => d + k \in i .. j - 1
  BY ONLY <1>0, <1>1
<1> HIDE DEF e, d
<1>5. Len(s) = n - d /\ \A k \in 1 .. n - d : s[k] = text[d + k]
  <2>1. s = From(text, d + 1) /\ d \in 0 .. Len(text)
    BY <1>3 DEF From, n
  <2> HIDE DEF s
  <2> QED
    BY <2>1, Parts DEF n
<1> HIDE DEF s
<1>6. e \in I /\ \A k \in I : ~ (k < e)
  BY <1>2, <1>3, <1>4, <1>5
<1>7. I \subseteq Nat
  <2>1. I \subseteq 1 .. Len(s)
    OBVIOUS
  <2> HIDE DEF I
  <2>2. \A k \in 1 .. Len(s) : k \in Nat
    BY ONLY <1>1, <1>3, <1>5
  <2> QED
    BY <2>1, <2>2
<1>8. Begin(text, i) = i - 1 + IF I # {} THEN Min(I) ELSE 0
  BY DEF Begin, s, n
<1> HIDE DEF I
<1>9. Min(I) \in I /\ \A k \in I : Min(I) <= k
  BY <1>6, <1>7, LeastIs
<1>10. Min(I) = e
  <2>1. Min(I) \in Nat /\ ~ (Min(I) < e) /\ Min(I) <= e
    BY <1>6, <1>7, <1>9
  <2> QED
    BY ONLY <1>3, <2>1
<1> QED
  BY <1>3, <1>6, <1>8, <1>10

LEMMA Indents ==
  ASSUME LispIInv
  PROVE  IndentKeeps
<1> DEFINE text == shown \o output
<1> SUFFICES ASSUME ~ closed
             PROVE  /\ Visible(text) = Visible(given)
                    /\ \A i \in LineStarts(text) :
                         text[Begin(text, i)] # ")" =>
                           Begin(text, i) - i = AtDepth(Open(SubSeq(text, 1, i - 1)))
  BY DEF IndentKeeps, LineStarts, AtDepth, Open, SelectInSeq, Begin
<1>1. /\ shown \in Seq(Letters) /\ output \in Seq(Letters)
      /\ Same(text, given) /\ WellPlaced(text)
  BY DEF LispIInv, LispOK
<1>2. text \in Seq(Letters)
  BY <1>1, ConcatProperties
<1> HIDE DEF text
<1>3. ASSUME NEW i \in LineStarts(text)
      PROVE  \E j \in Nat :
               /\ Begin(text, i) = j
               /\ text[j] = ")" \/ j - i = AtDepth(Open(SubSeq(text, 1, i - 1)))
  <2>1. PICK j, v \in Nat : Placed(text, i, j, v)
    BY <1>1 DEF WellPlaced
  <2>2. i \in DOMAIN text
    BY DEF LineStarts
  <2>3. Begin(text, i) = j
    BY <1>2, <2>1, <2>2, FirstIs
  <2>4. text[j] = ")" \/ j - i = AtDepth(Open(SubSeq(text, 1, i - 1)))
    BY <2>1 DEF Placed, Upto
  <2> QED
    BY <2>3, <2>4
<1> QED
  BY <1>1, <1>3 DEF Same

LEMMA NothingIsOK == LispOK(<< >>, << >>, 0, << >>)
<1> DEFINE none == << >>
<1>1. none \o none = none
  OBVIOUS
<1>2. none \in Seq(Letters) /\ Len(none) = 0 /\ DOMAIN none = {}
  BY EmptySeq
<1> HIDE DEF none
<1>3. \A c : Count(none, c) = 0
  <2>1. \A c : c \notin {none[k] : k \in 1 .. Len(none)}
    BY <1>2
  <2> QED
    BY <1>2, <2>1, CountIs
<1>4. Same(none, none) /\ Open(none) = 0
  BY <1>3 DEF Same, Open
<1>5. WellPlaced(none)
  BY <1>2 DEF WellPlaced, LineStarts
<1>6. LispOK(none, none, 0, none)
  BY <1>1, <1>2, <1>4, <1>5 DEF LispOK
<1> QED
  BY <1>6 DEF none

LEMMA LispSteps ==
  ASSUME LispIInv, LispNext
  PROVE  LispIInv'
<1>1. ASSUME NEW piece \in Pieces, Line(piece) PROVE LispIInv'
  <2> SUFFICES ASSUME ~ closed' PROVE LispOK(shown', output', lonely', given')
    BY DEF LispIInv
  <2>1. ~ closed /\ ~ (Count(given', "(") < Count(given', ")"))
    BY <1>1 DEF Line
  <2>2. LispOK(shown, output, lonely, given)
    BY <2>1 DEF LispIInv
  <2>3. Count(given', "(") \in Nat /\ Count(given', ")") \in Nat
    <3>1. given' = given \o piece
      BY <1>1 DEF Line
    <3>2. given \in Seq(Letters) /\ piece \in Seq(Letters)
      BY <2>2, PieceIs DEF LispOK
    <3>3. given' \in Seq(Letters)
      BY <3>1, <3>2, ConcatProperties
    <3> QED
      BY <3>3, CountIs
  <2>4. Count(given', "(") >= Count(given', ")")
    <3> HIDE DEF Count
    <3> QED
      BY <2>1, <2>3
  <2> QED
    BY <1>1, <2>2, <2>4, LineKeeps
<1>2. ASSUME NEW piece \in Pieces, Blank(piece) PROVE LispIInv'
  <2>1. closed' = closed
    BY <1>2 DEF Blank
  <2>2. ~ closed => LispOK(shown', output', lonely', given')
    BY <1>2, BlankKeeps DEF LispIInv
  <2> QED
    BY <2>1, <2>2 DEF LispIInv
<1>3. CASE xlispindent
  BY <1>3, NothingIsOK DEF xlispindent, LispIInv
<1> QED
  BY <1>1, <1>2, <1>3 DEF LispNext, indent_file

(* IndentKeeps for every Lisp file, whatever its lines, and whatever the   *)
(* length of ALLW.                                                         *)
LEMMA LispInvariant == Spec => []LispIInv
<1>1. Init => LispIInv
  BY NothingIsOK DEF Init, LispStart, LispIInv
<1>2. LispIInv /\ [Next]_vars => LispIInv'
  <2> SUFFICES ASSUME LispIInv, [Next]_vars PROVE LispIInv'
    OBVIOUS
  <2>1. ASSUME UNCHANGED lispvars PROVE LispIInv'
    BY <2>1 DEF lispvars, LispIInv
  <2>2. CASE Host
    BY <2>1, <2>2 DEF Host
  <2>3. CASE Pb
    BY <2>1, <2>3 DEF Pb
  <2>4. CASE Js
    BY <2>1, <2>4 DEF Js
  <2>5. CASE Utest
    BY <2>1, <2>5 DEF Utest
  <2>6. CASE Logging
    BY <2>1, <2>6 DEF Logging
  <2>7. CASE Lisp
    BY <2>7, LispSteps DEF Lisp
  <2>8. CASE Scan
    BY <2>1, <2>8 DEF Scan
  <2>9. CASE UNCHANGED vars
    BY <2>1, <2>9 DEF vars
  <2> QED
    BY <2>2, <2>3, <2>4, <2>5, <2>6, <2>7, <2>8, <2>9 DEF Next
<1> QED
  BY <1>1, <1>2, PTL DEF Spec

THEOREM IndentKeepsAlways == Spec => []IndentKeeps
<1>1. LispIInv => IndentKeeps
  BY Indents
<1> QED
  BY <1>1, LispInvariant, PTL
=============================================================================
