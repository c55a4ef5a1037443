------------------------------ MODULE Programs ------------------------------
(***************************************************************************)
(* The console and the two script bridges as programs use them: a C        *)
(* program that captures output while it runs Lua files; pb itself; a      *)
(* program that calls JavaScript; the unit tests; one that moves its log;  *)
(* pb's indenter; and a Lua script that lists directories.  A program is   *)
(* one of these at a time, as they share no state but the console.         *)
(***************************************************************************)
EXTENDS PbCommand, ScriptBridge, LispIndent, DirScan

VARIABLE program

vars == <<prtvars, logvars, utvars, luavars, pbvars, jsvars, lispvars, scanvars, program>>

Init ==
  /\ ConsoleStart /\ LogStart /\ UtestStart /\ LuaStart /\ PbStart /\ JsStart /\ LispStart /\ ScanStart
  /\ program \in {"host", "pb", "js", "tests", "log", "lisp", "scan"}
  /\ program # "tests" => tests = <<>>
  /\ program # "pb" => PB_DEBUG = FALSE
  /\ program # "scan" => here = << >> /\ there = {} /\ v_st = "other"

Host ==
  /\ program = "host"
  /\ \/ ConsoleNext /\ UNCHANGED luavars
     \/ LuaNext
  /\ UNCHANGED <<logvars, utvars, pbvars, jsvars, lispvars, scanvars, program>>

Pb == program = "pb" /\ PbNext /\ UNCHANGED <<logvars, utvars, jsvars, lispvars, scanvars, program>>

Js == program = "js" /\ JsNext /\ UNCHANGED <<prtvars, logvars, utvars, luavars, pbvars, lispvars, scanvars, program>>

Utest == program = "tests" /\ RunTest
         /\ UNCHANGED <<prtvars, logvars, luavars, pbvars, jsvars, lispvars, scanvars, program>>

Logging == program = "log" /\ (wa_setfd4l \/ CloseLog)
           /\ UNCHANGED <<prtvars, utvars, luavars, pbvars, jsvars, lispvars, scanvars, program>>

Lisp == program = "lisp" /\ LispNext
        /\ UNCHANGED <<prtvars, logvars, utvars, luavars, pbvars, jsvars, scanvars, program>>

Scan == program = "scan" /\ ScanNext
        /\ UNCHANGED <<prtvars, logvars, utvars, luavars, pbvars, jsvars, lispvars, program>>

Next == Host \/ Pb \/ Js \/ Utest \/ Logging \/ Lisp \/ Scan

Spec == Init /\ [][Next]_vars
=============================================================================
