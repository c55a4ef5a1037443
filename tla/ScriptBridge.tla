---------------------------- MODULE ScriptBridge ----------------------------
(***************************************************************************)
(* lib/brscr.c: functions and methods of a script are called from C        *)
(* through MuJS, over its stack as the API sees it (the last element is    *)
(* the top).  MuJS is external: a global or a property is a function, an   *)
(* object or something else, and a call ends with a value or with an       *)
(* exception, which js_pcall leaves in the value's place.                  *)
(***************************************************************************)
EXTENDS Integers, Sequences, SequencesExt

CONSTANTS
  Formats,  \* formats for wa_bsfunc and wa_bsmethod: letters, the last for the output
  Inputs    \* the variable arguments of a call that are inputs, at least as many as
            \* its format names

ASSUME FormatsAssumption ==
  /\ Inputs \in Seq(STRING)
  /\ \A f \in Formats : f \in Seq(STRING) /\ f # <<>> /\ Len(f) - 1 <= Len(Inputs)

VARIABLES
  js,      \* whether a state is there: "none", "open" or "freed"
  jstack,  \* its stack
  frame,   \* the stack of a call of `require' by a script, while it runs
  asked,   \* what the last call was meant to call, or NoFrame
  pcalled, \* what js_pcall was given: function, this and arguments, or NoFrame
  out      \* the output argument: "unset", or what was stored there

jsvars == <<js, jstack, frame, asked, pcalled, out>>

NoFrame == [fn |-> "none", this |-> "none", args |-> <<>>]
Known == {"s", "b", "i", "f"}

Push(s, v) == Append(s, v)
Pop(s, n) == SubSeq(s, 1, Len(s) - n)

(* js_pcall(J, n) takes n arguments, the this below them and the function  *)
(* below that, and leaves the result or the exception.                     *)
PcallFrame(s, n) ==
  [fn |-> s[Len(s) - n - 1], this |-> s[Len(s) - n], args |-> SubSeq(s, Len(s) - n + 1, Len(s))]
AfterPcall(s, n, result) == Push(Pop(s, n + 2), result)

-----------------------------------------------------------------------------
wa_bsnew == js = "none" /\ js' = "open" /\ UNCHANGED <<jstack, frame, asked, pcalled, out>>

wa_bsfree == js = "open" /\ frame = <<>> /\ js' = "freed" /\ UNCHANGED <<jstack, frame, asked, pcalled, out>>

(* wa_bsload: the file's function or an error is pushed; the function is   *)
(* called; one value is popped.                                            *)
wa_bsload ==
  /\ js = "open" /\ frame = <<>>
  /\ \E loads \in BOOLEAN : \E result \in {"value", "exception"} :
       LET s == Push(jstack, IF loads THEN "file" ELSE "exception")
       IN jstack' = Pop(IF loads THEN AfterPcall(Push(s, "null"), 0, result) ELSE s, 1)
  /\ asked' = NoFrame /\ pcalled' = NoFrame
  /\ UNCHANGED <<js, frame, out>>

(* A script calls require(name): the frame holds this and the name.        *)
CallRequire ==
  /\ js = "open" /\ frame = <<>>
  /\ frame' = <<"this", "name">>
  /\ UNCHANGED <<js, jstack, asked, pcalled, out>>

(* Mutation of jsB_require: the call's own this stays in the frame.        *)
jsB_requirePop2 ==
  /\ frame # <<>>
  /\ \E loads \in BOOLEAN : \E result \in {"value", "exception"} :
       frame' = Pop(AfterPcall(Push(Push(frame, IF loads THEN "module" ELSE "exception"),
                                    "undefined"), 0, result), 2)
  /\ UNCHANGED <<js, jstack, asked, pcalled, out>>

(* js_ploadstring leaves a function or an error; either is called, and a   *)
(* call of an error is an exception.  Its text is not looked at.           *)
jsB_require ==
  /\ frame # <<>>
  /\ \E loads \in BOOLEAN : \E result \in {"value", "exception"} :
       frame' = Pop(AfterPcall(Push(Push(frame, IF loads THEN "module" ELSE "exception"),
                                    "undefined"), 0, result), 3)
  /\ UNCHANGED <<js, jstack, asked, pcalled, out>>

-----------------------------------------------------------------------------
sf_clearvm(s) == Pop(s, Len(s))

(* The first letter before the output that stands for no type, or 0.       *)
UnknownAt(fmt) ==
  SelectInSeq(SubSeq(fmt, 1, Len(fmt) - 1), LAMBDA letter : letter \notin Known)

(* sf_excute over the stack s: the arguments are pushed up to a letter     *)
(* that stands for no type, which ends it without a call; then the call,   *)
(* and the output is read off the top.  The stack is cleared on every way  *)
(* out.                                                                    *)
sf_excute(s, fmt, result) ==
  LET paramnum == Len(fmt) - 1
      full     == s \o SubSeq(Inputs, 1, paramnum)
      output   == fmt[Len(fmt)]
  IN /\ jstack' = sf_clearvm(full)
     /\ IF UnknownAt(fmt) # 0
        THEN pcalled' = NoFrame /\ UNCHANGED out
        ELSE /\ pcalled' = PcallFrame(full, paramnum)
             /\ out' = IF output \in Known THEN Last(AfterPcall(full, paramnum, result)) ELSE out

(* The callee is looked up, and must be callable. *)
Refused(s) == jstack' = sf_clearvm(s) /\ asked' = NoFrame /\ pcalled' = NoFrame /\ UNCHANGED out

(* What a C program asks for: fn with that this, and the format's inputs.  *)
Wanted(fn, this, fmt) ==
  [fn |-> fn, this |-> this, args |-> SubSeq(Inputs, 1, Len(fmt) - 1)]

(* js_getglobal; js_copy(J, -1) makes the function its own this. *)
wa_bsfunc(kind, fmt, result) ==
  /\ js = "open" /\ frame = <<>>
  /\ LET s == Push(jstack, kind)
     IN IF kind # "function" THEN Refused(s)
        ELSE asked' = Wanted("function", "function", fmt) /\ sf_excute(Push(s, "function"), fmt, result)
  /\ UNCHANGED <<js, frame>>

(* Mutation of ThisOf: js_copy(J, -1), the method as its own this.         *)
ThisOfTop(s) == s[Len(s)]

(* js_copy(J, -2) *)
ThisOf(s) == s[Len(s) - 1]

wa_bsmethod(obj, kind, fmt, result) ==
  /\ js = "open" /\ frame = <<>>
  /\ LET s == Push(jstack, obj)
         m == Push(s, kind)
     IN IF obj \notin {"object", "function"} THEN Refused(s)
        ELSE IF kind # "method" THEN Refused(m)
             ELSE asked' = Wanted("method", obj, fmt) /\ sf_excute(Push(m, ThisOf(m)), fmt, result)
  /\ UNCHANGED <<js, frame>>

JsStart ==
  /\ js = "none" /\ jstack = <<>> /\ frame = <<>>
  /\ asked = NoFrame /\ pcalled = NoFrame /\ out = "unset"

JsNext ==
  \/ wa_bsnew \/ wa_bsfree \/ wa_bsload \/ CallRequire \/ jsB_require
  \/ \E fmt \in Formats, result \in {"value", "exception"} :
       \/ \E kind \in {"function", "object", "undefined"} : wa_bsfunc(kind, fmt, result)
       \/ \E obj \in {"function", "object", "undefined"}, kind \in {"method", "undefined"} :
            wa_bsmethod(obj, kind, fmt, result)

-----------------------------------------------------------------------------
(* A call that takes place calls what was asked for, with its this and its *)
(* arguments; for that, each call before it has left the stack as it found *)
(* it, whatever failed.  (`require' ends with an empty frame if it was     *)
(* given one argument.)                                                    *)
FrameIsAsked ==
  /\ pcalled # NoFrame => pcalled = asked
  /\ jstack = <<>> /\ frame \in {<<>>, <<"this", "name">>}
=============================================================================
