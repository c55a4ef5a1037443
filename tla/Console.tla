------------------------------ MODULE Console ------------------------------
(***************************************************************************)
(* The console of lib/file.c: printing to stdout, stderr or into a buffer  *)
(* that is handed out, the log file, and the report of the unit tests,     *)
(* with the tests of lib/utest.c that fill it.  What is printed is the     *)
(* numbers from 1 on, so that a captured text tells what it misses.        *)
(***************************************************************************)
EXTENDS Integers, Sequences, FiniteSets

CONSTANTS
  Sizes,      \* sizes that a caller passes to wa_prtto for a capture
  Blocks,     \* addresses that malloc may give to a capture
  Files,      \* FILEs that fopen may give to wa_setfd4l
  MaxPrinted  \* bound: how much is printed during one capture

ASSUME ConsoleAssumption ==
  /\ Sizes \subseteq Nat \ {0}
  /\ 0 \notin Blocks /\ 0 \notin Files
  /\ MaxPrinted \in Nat

VARIABLES
  pstr,          \* _pstr: to, len, cap, p (0 is NULL)
  heap,          \* the text in each capture that is allocated
  held,          \* captures that a caller was handed and has not freed
  printed,       \* how much was printed since the last capture began
  sv_walogfile,  \* the FILE that wa_log writes to (0 is NULL)
  open,          \* FILEs that wa_setfd4l opened and nobody closed
  s_utresult,    \* report, ok_sum, err_sum
  tests          \* the tests of utest.c that are still to run

prtvars == <<pstr, heap, held, printed>>
logvars == <<sv_walogfile, open>>
utvars == <<s_utresult, tests>>

-----------------------------------------------------------------------------
(* A capture begins in a new buffer; the one before is not freed.          *)
wa_prtto(sz) ==
  IF sz > 0
  THEN \E b \in Blocks \ DOMAIN heap :
         /\ pstr' = [to |-> sz, len |-> 0, cap |-> sz, p |-> b]
         /\ heap' = [x \in DOMAIN heap \union {b} |-> IF x = b THEN <<>> ELSE heap[x]]
         /\ printed' = 0
         /\ UNCHANGED held
  ELSE /\ pstr' = [pstr EXCEPT !.to = sz]
       /\ UNCHANGED <<heap, held, printed>>

AtMost(text, n) == SubSeq(text, 1, IF n < Len(text) THEN n ELSE Len(text))

(* Mutation of Appended: the text takes the place of its zero, too.        *)
AppendedFull(text, len, cap, new) == SubSeq(text, 1, len) \o AtMost(new, cap - len)

(* vsnprintf(p + len, cap - len, ...): what fits with its zero.            *)
Appended(text, len, cap, new) == SubSeq(text, 1, len) \o AtMost(new, cap - len - 1)

(* n more characters are printed.                                          *)
wa_prtcs(n) ==
  LET new == [i \in 1 .. n |-> printed + i]
      now == Appended(heap[pstr.p], pstr.len, pstr.cap, new)
  IN /\ printed + n <= MaxPrinted
     /\ printed' = printed + n
     /\ IF pstr.to > 0
        THEN /\ heap' = [heap EXCEPT ![pstr.p] = now]
             /\ pstr' = [pstr EXCEPT !.len = Len(now)]
        ELSE UNCHANGED <<heap, pstr>>
     /\ UNCHANGED held

(* Mutation of wa_prtdup: printing goes on into what is handed out.        *)
wa_prtdupOn == held' = held \union {pstr.p} /\ UNCHANGED <<pstr, heap, printed>>

(* The buffer becomes the caller's.  A caller that has begun no capture    *)
(* since the last wa_prtdup would be handed the same buffer again.         *)
wa_prtdup ==
  /\ pstr' = [pstr EXCEPT !.to = 0]
  /\ held' = held \union {pstr.p}
  /\ UNCHANGED <<heap, printed>>

Collect == pstr.p \in DOMAIN heap \ held /\ wa_prtdup

(* AUTO_MEM_P or free: the caller is done with a capture.                  *)
FreeCapture == \E b \in held :
  /\ heap' = [x \in DOMAIN heap \ {b} |-> heap[x]]
  /\ held' = held \ {b}
  /\ UNCHANGED <<pstr, printed>>

ConsoleStart ==
  /\ pstr = [to |-> 0, len |-> 0, cap |-> 0, p |-> 0]
  /\ heap = [x \in {} |-> <<>>] /\ held = {} /\ printed = 0

ConsoleNext ==
  \/ \E sz \in Sizes \union {-1, 0} : wa_prtto(sz)
  \/ \E n \in 0 .. MaxPrinted : wa_prtcs(n)
  \/ Collect
  \/ FreeCapture

-----------------------------------------------------------------------------
(* fopen succeeds, and the old file is closed, or it fails and leaves the  *)
(* log where it was.  If the caller has closed the old file, fopen may     *)
(* give the same FILE again, which is then closed in its place; what       *)
(* closing a FILE twice does is undefined, and left out.                   *)
wa_setfd4l ==
  \/ \E fd \in Files \ open :
       /\ sv_walogfile \in open \union {0, fd}
       /\ sv_walogfile' = fd /\ open' = (open \union {fd}) \ {sv_walogfile}
  \/ UNCHANGED logvars

(* The caller closes the FILE that it was given (utest.c:196).             *)
CloseLog == open # {} /\ open' = {} /\ UNCHANGED sv_walogfile

LogStart == sv_walogfile = 0 /\ open = {}

-----------------------------------------------------------------------------
(* The functions of utest.c in the order of its main: the macro that       *)
(* selects a test, and the lines of its checks, whose failures it counts   *)
(* (on Linux, where test_convA and test_convW check nothing).              *)
Tests ==
  << [name |-> "_md5", group |-> "ENC", lines |-> <<8, 10, 12>>],
     [name |-> "_sha1", group |-> "ENC", lines |-> <<21, 23, 25>>],
     [name |-> "_base64", group |-> "ENC", lines |-> <<34>>],
     [name |-> "_base16", group |-> "ENC", lines |-> <<44, 46>>],
     [name |-> "_convA", group |-> "ENC", lines |-> <<>>],
     [name |-> "_convW", group |-> "ENC", lines |-> <<>>],
     [name |-> "_calendar", group |-> "DT", lines |-> <<107, 108>>],
     [name |-> "_datediff", group |-> "DT", lines |-> <<113>>],
     [name |-> "_rand", group |-> "DT", lines |-> <<>>],
     [name |-> "_match", group |-> "DT", lines |-> <<130>>],
     [name |-> "_file", group |-> "FL", lines |-> <<187, 188>>],
     [name |-> "_log", group |-> "FL", lines |-> <<>>],
     [name |-> "_clean", group |-> "FL", lines |-> <<>>],
     [name |-> "_prtcs", group |-> "FL", lines |-> <<>>] >>

Digits(n) == Cardinality({d \in 0 .. 9 : 10 ^ d <= n})

(* What is appended to the report, as far as it is counted: the name, the  *)
(* mark "(E:line)" of a failed check and its length, and the verdict.      *)
Mark(line) == [mark |-> line, size |-> 4 + Digits(line)]

(* Mutation of _wa_utok: a failed check is marked but not returned.        *)
_wa_utokMute(passed, line) ==
  [ok |-> IF passed THEN 1 ELSE 0, err |-> IF passed THEN 0 ELSE 1, ret |-> 0,
   text |-> IF passed THEN <<>> ELSE <<Mark(line)>>]

(* What one check adds to the sums and the report, and returns.            *)
_wa_utok(passed, line) ==
  [ok |-> IF passed THEN 1 ELSE 0, err |-> IF passed THEN 0 ELSE 1,
   ret |-> IF passed THEN 0 ELSE 1,
   text |-> IF passed THEN <<>> ELSE <<Mark(line)>>]

(* A test runs its checks in order and returns the sum of their results;   *)
(* `passes' tells which of them hold.                                      *)
Checked(lines, passes) ==
  LET upTo[i \in 0 .. Len(lines)] ==
        IF i = 0 THEN [ok |-> 0, err |-> 0, ret |-> 0, text |-> <<>>]
        ELSE LET r == _wa_utok(i \in passes, lines[i])
                 s == upTo[i - 1]
             IN [ok |-> s.ok + r.ok, err |-> s.err + r.err, ret |-> s.ret + r.ret,
                 text |-> s.text \o r.text]
  IN upTo[Len(lines)]

wa_utrun(test, passes) ==
  LET f == Checked(test.lines, passes)
  IN s_utresult' = [report |-> Append(s_utresult.report,
                                      [name |-> test.name, marks |-> f.text, fail |-> f.ret]),
                    ok_sum |-> s_utresult.ok_sum + f.ok,
                    err_sum |-> s_utresult.err_sum + f.err]

RunTest ==
  /\ tests # <<>>
  /\ \E passes \in SUBSET (1 .. Len(Head(tests).lines)) : wa_utrun(Head(tests), passes)
  /\ tests' = Tail(tests)

wa_utsum == s_utresult.ok_sum + s_utresult.err_sum

(* The tests that main calls when the macros of these groups are defined.  *)
Compiled(groups) ==
  LET upTo[k \in 0 .. Len(Tests)] ==
        IF k = 0 THEN <<>>
        ELSE IF Tests[k].group \in groups THEN Append(upTo[k - 1], Tests[k]) ELSE upTo[k - 1]
  IN upTo[Len(Tests)]

UtestStart ==
  /\ s_utresult = [report |-> <<>>, ok_sum |-> 0, err_sum |-> 0]
  /\ \E groups \in SUBSET {"ENC", "DT", "FL"} : tests = Compiled(groups)

-----------------------------------------------------------------------------
(* A capture holds the beginning of what was printed since it began, as    *)
(* much as its size has room for besides the zero; this stays true when    *)
(* wa_debug_lua or the caller sends the rest elsewhere.                    *)
CapturedPrefix ==
  pstr.p \in DOMAIN heap =>
    LET text == heap[pstr.p]
    IN /\ pstr.len = Len(text) /\ pstr.len < pstr.cap
       /\ \A i \in 1 .. Len(text) : text[i] = i
       /\ Len(text) <= printed
       /\ pstr.to > 0 /\ Len(text) < printed => Len(text) = pstr.cap - 1

(* What a caller was handed is no longer written to, by no one.            *)
HandedOutKept ==
  [][\A b \in held \intersect held' : heap'[b] = heap[b]]_prtvars

Total(counts) ==
  LET upTo[k \in 0 .. Len(counts)] == IF k = 0 THEN 0 ELSE upTo[k - 1] + counts[k]
  IN upTo[Len(counts)]

(* The report, the sums and the tests' results agree: each failed check    *)
(* has its mark, which fits the eight bytes of buf with its zero, is       *)
(* counted once, and makes its test a FAIL of that many.                   *)
ReportAgrees ==
  LET run == s_utresult.report
      Ran(test) == \E k \in DOMAIN run : run[k].name = test.name
  IN /\ s_utresult.err_sum = Total([k \in DOMAIN run |-> Len(run[k].marks)])
     /\ wa_utsum = Total([k \in DOMAIN Tests |-> IF Ran(Tests[k]) THEN Len(Tests[k].lines) ELSE 0])
     /\ \A k \in DOMAIN run :
          /\ run[k].fail = Len(run[k].marks)
          /\ \A m \in DOMAIN run[k].marks : run[k].marks[m].size < 8
=============================================================================
