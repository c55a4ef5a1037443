----------------------------- MODULE RegexProofs -----------------------------
(***************************************************************************)
(* Proofs about wa_match: whatever the pattern, the program it is compiled *)
(* to keeps its shape, and its run stays at the beginnings of instructions *)
(* and inside the text.                                                    *)
(***************************************************************************)
EXTENDS Regex, Induction, SequenceTheorems, FiniteSetTheorems

-----------------------------------------------------------------------------
(* The shape of a program: S are the positions where an instruction begins *)
(* and the end of the code; O are the branches whose second block has not  *)
(* ended yet.                                                              *)

Loops == {"STAR", "PLUS", "STARQ", "PLUSQ"}
Jumps == Loops \union {"QUEST", "BRANCH"}

Listed(q) == \E T : q \in Seq(T)

(* An instruction at s: the one behind it, its operands, its jumps.        *)
Instr(c, S, O, s) ==
  /\ s + Width(c[s]) \in S
  /\ c[s] = "EXACT" => c[s + 2] \in Nat
  /\ c[s] \in Jumps => c[s + 1] \in Nat /\ s + c[s + 1] \in S
  /\ c[s] = "BRANCH" /\ s \notin O => c[s + 2] \in Nat /\ s + c[s + 2] \in S

Apart(c, S) == \A s, x \in S : s < x => s + Width(c[s]) <= x

Shape(c, S, O) ==
  /\ Listed(c)
  /\ S \subseteq 1 .. Len(c) + 1 /\ 1 \in S /\ Len(c) + 1 \in S
  /\ Apart(c, S)
  /\ \A s \in S : s <= Len(c) => Instr(c, S, O, s)
  /\ O \subseteq S /\ \A o \in O : o <= Len(c) /\ c[o] = "BRANCH"

(* No jump from before b leads behind it: code can be put in there.        *)
Within(c, O, s, b) ==
  /\ c[s] \in Jumps => s + c[s + 1] <= b
  /\ c[s] = "BRANCH" /\ s \notin O => s + c[s + 2] <= b

Whole(c, S, O, b) == b \in S /\ \A s \in S : s < b => Within(c, O, s, b)

(* A program c with its places becomes d, and up to b all stays as it was. *)
Becomes(c, S, O, d, S2, O2, b) ==
  /\ Shape(d, S2, O2)
  /\ \A x \in S : x <= b => x \in S2
  /\ \A x \in S : x <= b /\ Whole(c, S, O, x) => Whole(d, S2, O2, x)
  /\ \A x \in S : x < b /\ x <= Len(c) => x <= Len(d) /\ d[x] = c[x]

(* An instruction that can be added anywhere. *)
Fits(w) ==
  /\ Listed(w) /\ Len(w) = Width(w[1])
  /\ w[1] \notin Jumps
  /\ w[1] = "EXACT" => w[3] \in Nat

(***************************************************************************)
(* The calls fs of compile, for the program c; s is the set that is being  *)
(* read, and i the place in the pattern p.                                 *)
(***************************************************************************)
CallsOfCompile == [last_op : Nat, branch_start : Nat, fixup : Nat, level : Nat]

Opened(f) == f.fixup # 0

(* A bar was read last, or anchors were since: last_op is where it was     *)
(* before the code moved.                                                  *)
AfterBar(p, i) ==
  \E k \in 1 .. i - 1 : /\ p[k] = "|" /\ ~ Escaped(p, k)
                        /\ \A j \in k + 1 .. i - 1 : p[j] \in {"^", "$"}

Fresh(p, i) == i = 1 \/ (p[i - 1] = "(" /\ ~ Escaped(p, i - 1))

FrameOK(c, f, S, O) ==
  /\ Whole(c, S, O, f.branch_start)
  /\ f.fixup \in {0, f.branch_start + 2}
  /\ Opened(f) => f.branch_start <= Len(c) /\ c[f.branch_start] = "BRANCH"

LastOK(c, f, S, O) ==
  /\ Whole(c, S, O, f.last_op)
  /\ f.branch_start <= f.last_op
  /\ Opened(f) => f.branch_start < f.last_op

Nested(fs) ==
  \A j, k \in DOMAIN fs : j < k => /\ fs[j].branch_start < fs[k].branch_start
                                  /\ fs[j].last_op < fs[k].branch_start

Calls(c, fs, S, O) ==
  /\ \A k \in DOMAIN fs : FrameOK(c, fs[k], S, O)
  /\ \A k \in DOMAIN fs : k < Len(fs) => LastOK(c, fs[k], S, O)
  /\ Nested(fs)
  /\ \A o \in O : \E k \in DOMAIN fs : Opened(fs[k]) /\ o = fs[k].branch_start
  /\ fs[1].branch_start = 3 /\ fs[1].level = 0

(* What the topmost call would put a quantifier on.                        *)
LastAt(c, f, S, O, s, p, i) ==
  /\ LastOK(c, f, S, O) \/ (AfterBar(p, i) /\ s = NoSet)
  /\ f.last_op <= Len(c) \/ s # NoSet \/ Fresh(p, i) \/ AfterBar(p, i)

(* Outside every call, it is the beginning or the end of the pattern.      *)
Between(c, S, O, s, p, i, n) ==
  /\ 3 \in S /\ O \subseteq {3} /\ s = NoSet
  /\ i <= Len(p) => i = 1 /\ n = 0 /\ O = {} /\ Len(c) = 2

Coherent(c, fs, S, O, s, p, i, n) ==
  /\ Shape(c, S, O)
  /\ fs = <<>> => Between(c, S, O, s, p, i, n)
  /\ fs # <<>> => Calls(c, fs, S, O) /\ LastAt(c, fs[Len(fs)], S, O, s, p, i)

Possible(c, fs, s, p, i, n) == \E S, O : Coherent(c, fs, S, O, s, p, i, n)

Compiling == Possible(prog.code, frames, set, reg, re, num_caps)

(***************************************************************************)
(* The program as it is run                                                *)
(***************************************************************************)
Runs(c, S) ==
  /\ Listed(c)
  /\ S \subseteq 1 .. Len(c) /\ 1 \in S
  /\ Apart(c, S)
  /\ c[Len(c)] = "END"
  /\ \A s \in S : s < Len(c) => s + Width(c[s]) \in S
  /\ \A s \in S : c[s] = "EXACT" => c[s + 2] \in Nat
  /\ \A s \in S : c[s] \in Jumps => s + c[s + 1] \in S
  /\ \A s \in S : c[s] = "BRANCH" => s + c[s + 2] \in S

WaitNames == {"run", "first", "second", "quest", "once", "body", "rest"}

WaitsAt(w, o) ==
  /\ w \in WaitNames
  /\ w \in {"first", "second"} => o = "BRANCH"
  /\ w = "quest" => o = "QUEST"
  /\ w = "once" => o \in {"PLUS", "PLUSQ"}
  /\ w \in {"body", "rest"} => o \in Loops

Offsets == 0 .. Len(txt)

MatchCalls == [pc : Nat, keep : BOOLEAN, wait : WaitNames, saved : Offsets, matched : Offsets]

CallOK(c, S) ==
  /\ c.pc \in S /\ WaitsAt(c.wait, prog.code[c.pc])
  /\ c.saved \in Offsets /\ c.matched \in Offsets

Matching ==
  \E S : Runs(prog.code, S) /\ \A n \in DOMAIN stack : CallOK(stack[n], S)

(***************************************************************************)
(* The inductive invariant                                                 *)
(***************************************************************************)
Errors == {"none", "bracket", "too long"}

Sized(p) ==
  /\ p = [code |-> p.code, data |-> p.data, err |-> p.err]
  /\ Listed(p.code) /\ Listed(p.data)
  /\ Len(p.code) <= CodeSize /\ Len(p.data) <= CodeSize
  /\ p.err \in Errors

(* After an error in the brackets nothing is compiled any more.            *)
Broken ==
  /\ set = NoSet
  /\ re > Len(reg) \/ (reg[re] = ")" /\ Len(frames) <= 1)
  /\ re <= Len(reg) => \A k \in DOMAIN frames : frames[k].fixup = 0

Before(p, i) == Cardinality({k \in 1 .. i - 1 : p[k] = "("})

Compiler ==
  /\ reg \in Pattern /\ re \in 1 .. Len(reg) + 1 /\ ~ Escaped(reg, re)
  /\ Sized(prog)
  /\ frames \in Seq(CallsOfCompile)
  /\ set \in {NoSet} \union [op : {"ANYOF", "ANYBUT"}, from : Nat]
  /\ num_caps \in Nat /\ num_caps <= Before(reg, re)
  /\ phase = "compile" /\ prog.err = "none" => Compiling
  /\ phase = "compile" /\ prog.err = "bracket" => Broken

Matcher ==
  /\ txt \in Seq(STRING)
  /\ start \in Offsets /\ ofs \in Offsets
  /\ stack \in Seq(MatchCalls)
  /\ phase = "compile" => txt = <<>> /\ start = 0
  /\ phase = "match" /\ ~anchored => start < Len(txt)
  /\ phase # "match" => stack = <<>>
  /\ phase \in {"scan", "match"} => Matching

Result ==
  /\ phase \in {"compile", "scan", "match", "done", "lost"}
  /\ res \in {"none", "yes", "no"}
  /\ ret \in {0, -1, -11, -12} /\ nsub \in 0 .. MaxSub

IInv == Compiler /\ Matcher /\ Result

-----------------------------------------------------------------------------
(* Sequences of cells.                                                     *)

LEMMA Widths == \A o : Width(o) \in {1, 2, 3}
BY DEF Width

LEMMA OnlyBranch3 ==
  \A o : /\ o \in {"EXACT", "ANYOF", "ANYBUT", "BRANCH"} => Width(o) = 3
         /\ o \in {"OPEN", "CLOSE", "QUEST"} \union Loops => Width(o) = 2
         /\ o \in Jumps => Width(o) = IF o = "BRANCH" THEN 3 ELSE 2
         /\ o \in {"BOL", "EOL", "ANY", "END", "NONSPACE", "SPACE", "DIGIT", "LOWER", "UPPER", "ALPHA", "ALNUM"} => Width(o) = 1
BY DEF Width, Jumps, Loops

LEMMA ListLength ==
  ASSUME NEW q, Listed(q)
  PROVE  Len(q) \in Nat /\ DOMAIN q = 1 .. Len(q)
BY DEF Listed

LEMMA ListJoin ==
  ASSUME NEW q, NEW r, Listed(q), Listed(r)
  PROVE  /\ Listed(q \o r) /\ Len(q \o r) = Len(q) + Len(r)
         /\ \A i \in 1 .. Len(q) : (q \o r)[i] = q[i]
         /\ \A i \in 1 .. Len(r) : (q \o r)[Len(q) + i] = r[i]
<1>1. PICK T : q \in Seq(T)
  BY DEF Listed
<1>2. PICK U : r \in Seq(U)
  BY DEF Listed
<1>3. q \in Seq(T \union U) /\ r \in Seq(T \union U)
  BY <1>1, <1>2
<1>4. q \o r \in Seq(T \union U)
  BY <1>3
<1> QED
  BY <1>3, <1>4 DEF Listed

LEMMA ListPart ==
  ASSUME NEW q, NEW m \in Int, NEW n \in Int
  PROVE  /\ Listed(SubSeq(q, m, n))
         /\ Len(SubSeq(q, m, n)) = IF m <= n THEN n - m + 1 ELSE 0
         /\ \A i \in 1 .. n - m + 1 : SubSeq(q, m, n)[i] = q[m + i - 1]
<1> DEFINE T == {q[i] : i \in m .. n}
<1>1. \A i \in m .. n : q[i] \in T
  OBVIOUS
<1> HIDE DEF T
<1> QED
  BY <1>1, SubSeqProperties DEF Listed

Changed(q, i, v) == [q EXCEPT ![i] = v]

LEMMA ListChange ==
  ASSUME NEW q, Listed(q), NEW i, NEW v
  PROVE  /\ Listed(Changed(q, i, v)) /\ Len(Changed(q, i, v)) = Len(q)
         /\ \A j \in 1 .. Len(q) : Changed(q, i, v)[j] = IF j = i THEN v ELSE q[j]
<1>1. PICK T : q \in Seq(T)
  BY DEF Listed
<1> DEFINE U == T \union {v}
           r == [j \in 1 .. Len(q) |-> IF j = i THEN v ELSE q[j]]
<1>2. Changed(q, i, v) = r
  BY <1>1 DEF Changed
<1>3. Len(q) \in Nat /\ \A j \in 1 .. Len(q) : (IF j = i THEN v ELSE q[j]) \in U
  BY <1>1
<1> HIDE DEF U
<1>4. r \in Seq(U) /\ Len(r) = Len(q)
  BY <1>3
<1> QED
  BY <1>2, <1>4 DEF Listed
-----------------------------------------------------------------------------
(* The functions that build a program.                                     *)

LEMMA SizeAssumption == CodeSize \in Nat
BY ProgramAssumption

LEMMA Roomy ==
  ASSUME NEW p, NEW n \in Nat, ~ NoRoom(p, n)
  PROVE  p.err # "too long" /\ n <= CodeSize
<1>1. p.err # "too long"
  BY DEF NoRoom
<1>2. ~ (n > CodeSize)
  BY DEF NoRoom
<1>3. CodeSize \in Nat
  BY SizeAssumption
<1>4. n <= CodeSize
  BY <1>2, <1>3
<1> QED
  BY <1>1, <1>4

Unchanged(p, q) == q.code = p.code /\ q.data = p.data

LEMMA Failed ==
  ASSUME NEW p, Sized(p), NEW e \in Errors
  PROVE  Sized(Fail(p, e)) /\ Unchanged(p, Fail(p, e)) /\ Fail(p, e).err = e
BY DEF Sized, Fail, Unchanged

LEMMA Emitted ==
  ASSUME NEW p, Sized(p), NEW cells, Listed(cells), NEW q, q = Emit(p, cells)
  PROVE  /\ Sized(q) /\ q.data = p.data
         /\ \/ q.err = "too long" /\ q.code = p.code
            \/ q.err = p.err /\ p.err # "too long" /\ q.code = p.code \o cells
<1>1. Len(p.code) \in Nat /\ Len(cells) \in Nat /\ Len(p.code \o cells) = Len(p.code) + Len(cells)
      /\ Listed(p.code \o cells)
  BY ListLength, ListJoin DEF Sized
<1>2. CASE NoRoom(p, Len(p.code) + Len(cells))
  <2>1. q = Fail(p, "too long")
    BY <1>2 DEF Emit
  <2> QED
    BY <2>1, Failed DEF Errors, Unchanged
<1>3. CASE ~ NoRoom(p, Len(p.code) + Len(cells))
  <2>1. q = [p EXCEPT !.code = p.code \o cells]
    BY <1>3 DEF Emit
  <2>2. p.err # "too long" /\ Len(p.code) + Len(cells) <= CodeSize
    <3>1. Len(p.code) + Len(cells) \in Nat
      BY <1>1
    <3> QED
      BY <1>3, <3>1, Roomy
  <2>3. q.code = p.code \o cells /\ q.data = p.data /\ q.err = p.err
        /\ q = [code |-> q.code, data |-> q.data, err |-> q.err]
    BY <2>1 DEF Sized
  <2> QED
    BY <1>1, <2>2, <2>3 DEF Sized
<1> QED
  BY <1>2, <1>3

LEMMA Stored ==
  ASSUME NEW p, Sized(p), NEW chars, Listed(chars), NEW q, q = Store(p, chars)
  PROVE  /\ Sized(q) /\ q.code = p.code
         /\ \/ q.err = "too long"
            \/ q.err = p.err /\ p.err # "too long" /\ Len(q.data) = Len(p.data) + Len(chars)
<1>1. Len(p.data) \in Nat /\ Len(chars) \in Nat /\ Len(p.data \o chars) = Len(p.data) + Len(chars)
      /\ Listed(p.data \o chars)
  BY ListLength, ListJoin DEF Sized
<1>2. CASE NoRoom(p, Len(p.data) + Len(chars))
  <2>1. q = Fail(p, "too long")
    BY <1>2 DEF Store
  <2> QED
    BY <2>1, Failed DEF Errors, Unchanged
<1>3. CASE ~ NoRoom(p, Len(p.data) + Len(chars))
  <2>1. q = [p EXCEPT !.data = p.data \o chars]
    BY <1>3 DEF Store
  <2>2. p.err # "too long" /\ Len(p.data) + Len(chars) <= CodeSize
    <3>1. Len(p.data) + Len(chars) \in Nat
      BY <1>1
    <3> QED
      BY <1>3, <3>1, Roomy
  <2>3. q.code = p.code /\ q.data = p.data \o chars /\ q.err = p.err
        /\ q = [code |-> q.code, data |-> q.data, err |-> q.err]
    BY <2>1 DEF Sized
  <2> QED
    BY <1>1, <2>2, <2>3 DEF Sized
<1> QED
  BY <1>2, <1>3

LEMMA JumpSet ==
  ASSUME NEW p, Sized(p), NEW at, NEW from, NEW q, q = SetJump(p, at, from)
  PROVE  /\ Sized(q) /\ q.data = p.data /\ q.err = p.err
         /\ q.code = Changed(p.code, at, Len(p.code) + 1 - from)
<1> DEFINE c == Changed(p.code, at, Len(p.code) + 1 - from)
<1>1. q = [p EXCEPT !.code = c]
  BY DEF SetJump, Changed
<1>2. Listed(c) /\ Len(c) = Len(p.code)
  <2>1. Listed(p.code)
    BY DEF Sized
  <2> QED
    BY <2>1, ListChange
<1> HIDE DEF c
<1>3. q.code = c /\ q.data = p.data /\ q.err = p.err /\ q = [code |-> q.code, data |-> q.data, err |-> q.err]
  BY <1>1 DEF Sized
<1> QED
  BY <1>2, <1>3 DEF Sized, c

(* The code with room for an instruction put in at b. *)
Gap(o, k) == [i \in 1 .. k |-> IF i = 1 THEN o ELSE 255]

Moved(c, b, k, o) ==
  SubSeq(c, 1, b - 1) \o Gap(o, k) \o SubSeq(c, b, Len(c)) \o <<"END">>

RoomMade(p, b, k, o, q) ==
  /\ Sized(q) /\ q.data = p.data
  /\ \/ q.err = "too long" /\ q.code = p.code
     \/ q.err = p.err /\ p.err # "too long" /\ q.code = Moved(p.code, b, k, o)

LEMMA Relocated ==
  ASSUME NEW p, Sized(p), NEW b \in Int, NEW k \in Nat, NEW o, NEW q, q = Relocate(p, b, k, o)
  PROVE  RoomMade(p, b, k, o, q)
<1> USE DEF RoomMade
<1> DEFINE all == Moved(p.code, b, k, o)
           A == SubSeq(p.code, 1, b - 1)
           B == SubSeq(p.code, b, Len(p.code))
<1>1. Listed(A) /\ Listed(B)
  <2>1. Len(p.code) \in Int /\ b - 1 \in Int /\ 1 \in Int
    BY ListLength DEF Sized
  <2> QED
    BY <2>1, ListPart
<1>2. Listed(Gap(o, k)) /\ Listed(<<"END">>)
  <2>1. Gap(o, k) \in Seq({o, 255}) /\ <<"END">> \in Seq({"END"})
    BY DEF Gap
  <2> QED
    BY <2>1 DEF Listed
<1> HIDE DEF A, B
<1>3. Listed(A \o Gap(o, k))
  BY <1>1, <1>2, ListJoin
<1>4. Listed((A \o Gap(o, k)) \o B)
  BY <1>1, <1>3, ListJoin
<1>5. Listed(all)
  <2>1. Listed(((A \o Gap(o, k)) \o B) \o <<"END">>)
    BY <1>2, <1>4, ListJoin
  <2> QED
    BY <2>1 DEF A, B, Moved
<1>6. Len(all) \in Nat
  BY <1>5, ListLength
<1>7. q = IF NoRoom(p, Len(all)) THEN Fail(p, "too long") ELSE [p EXCEPT !.code = all]
  BY DEF Relocate, Moved, Gap
<1> HIDE DEF all
<1>8. CASE NoRoom(p, Len(all))
  <2>1. q = Fail(p, "too long")
    BY <1>7, <1>8
  <2> QED
    BY <2>1, Failed DEF Errors, Unchanged
<1>9. CASE ~ NoRoom(p, Len(all))
  <2>1. q = [p EXCEPT !.code = all]
    BY <1>7, <1>9
  <2>2. p.err # "too long" /\ Len(all) <= CodeSize
    BY <1>6, <1>9, Roomy
  <2>3. q.code = all /\ q.data = p.data /\ q.err = p.err
        /\ q = [code |-> q.code, data |-> q.data, err |-> q.err]
    BY <2>1 DEF Sized
  <2> QED
    BY <1>5, <2>2, <2>3 DEF Sized, all
<1> QED
  BY <1>8, <1>9
-----------------------------------------------------------------------------
(* How a program keeps its shape.                                          *)

LEMMA Instruction ==
  ASSUME NEW c, NEW S, NEW O, Shape(c, S, O), NEW s \in S, s <= Len(c)
  PROVE  /\ Len(c) \in Nat /\ s \in Nat /\ 1 <= s
         /\ Width(c[s]) \in {1, 2, 3} /\ s + Width(c[s]) \in S /\ s + Width(c[s]) <= Len(c) + 1
         /\ Instr(c, S, O, s)
<1>1. Len(c) \in Nat /\ s \in Nat /\ 1 <= s
  BY ListLength DEF Shape
<1>2. Instr(c, S, O, s)
  BY DEF Shape
<1>3. s + Width(c[s]) \in S /\ Width(c[s]) \in {1, 2, 3}
  BY <1>2, Widths DEF Instr
<1>4. s + Width(c[s]) <= Len(c) + 1
  BY <1>1, <1>3 DEF Shape
<1> QED
  BY <1>1, <1>2, <1>3, <1>4

(* An instruction moved by k with its operands.                            *)
SameCells(c, s, d, x) ==
  /\ d[x] = c[s]
  /\ Width(c[s]) # 1 => d[x + 1] = c[s + 1]
  /\ Width(c[s]) = 3 => d[x + 2] = c[s + 2]

LEMMA Copied ==
  ASSUME NEW c, NEW S, NEW O, NEW s \in Nat, Instr(c, S, O, s), NEW k \in Nat,
         NEW d, NEW S2, NEW O2, SameCells(c, s, d, s + k),
         s + k \notin O2 => s \notin O,
         s + Width(c[s]) + k \in S2,
         c[s] \in Jumps => s + c[s + 1] + k \in S2,
         c[s] = "BRANCH" /\ s \notin O => s + c[s + 2] + k \in S2
  PROVE  Instr(d, S2, O2, s + k)
<1>1. d[s + k] = c[s] /\ Width(c[s]) \in {1, 2, 3}
  BY Widths DEF SameCells
<1>2. (s + k) + Width(d[s + k]) \in S2
  <2>1. s + Width(c[s]) + k = (s + k) + Width(c[s])
    BY <1>1
  <2> QED
    BY <1>1, <2>1
<1>3. d[s + k] = "EXACT" => d[s + k + 2] \in Nat
  BY <1>1, OnlyBranch3 DEF Instr, SameCells
<1>4. d[s + k] \in Jumps => d[s + k + 1] \in Nat /\ (s + k) + d[s + k + 1] \in S2
  <2> SUFFICES ASSUME c[s] \in Jumps PROVE d[s + k + 1] \in Nat /\ (s + k) + d[s + k + 1] \in S2
    BY <1>1
  <2>1. d[s + k + 1] = c[s + 1] /\ c[s + 1] \in Nat
    BY OnlyBranch3 DEF Instr, SameCells
  <2>2. s + c[s + 1] + k = (s + k) + c[s + 1]
    BY <2>1
  <2> QED
    BY <2>1, <2>2
<1>5. d[s + k] = "BRANCH" /\ s + k \notin O2 => d[s + k + 2] \in Nat /\ (s + k) + d[s + k + 2] \in S2
  <2> SUFFICES ASSUME c[s] = "BRANCH", s \notin O PROVE d[s + k + 2] \in Nat /\ (s + k) + d[s + k + 2] \in S2
    BY <1>1
  <2>1. d[s + k + 2] = c[s + 2] /\ c[s + 2] \in Nat
    BY OnlyBranch3 DEF Instr, SameCells
  <2>2. s + c[s + 2] + k = (s + k) + c[s + 2]
    BY <2>1
  <2> QED
    BY <2>1, <2>2
<1> QED
  BY <1>2, <1>3, <1>4, <1>5 DEF Instr
LEMMA WithinSame ==
  ASSUME NEW c, NEW O, NEW s \in Nat, NEW k \in Nat, NEW d, NEW O2, SameCells(c, s, d, s + k),
         c[s] \in Jumps => c[s + 1] \in Nat, c[s] = "BRANCH" /\ s \notin O => c[s + 2] \in Nat,
         s + k \notin O2 => s \notin O, NEW b \in Nat, Within(c, O, s, b)
  PROVE  Within(d, O2, s + k, b + k)
<1>1. d[s + k] = c[s]
  BY DEF SameCells
<1>2. c[s] \in Jumps => (s + k) + d[s + k + 1] <= b + k
  <2> SUFFICES ASSUME c[s] \in Jumps PROVE (s + k) + d[s + k + 1] <= b + k
    OBVIOUS
  <2>1. d[s + k + 1] = c[s + 1] /\ c[s + 1] \in Nat /\ s + c[s + 1] <= b
    BY OnlyBranch3 DEF Within, SameCells
  <2> QED
    BY <2>1
<1>3. c[s] = "BRANCH" /\ s + k \notin O2 => (s + k) + d[s + k + 2] <= b + k
  <2> SUFFICES ASSUME c[s] = "BRANCH", s + k \notin O2 PROVE (s + k) + d[s + k + 2] <= b + k
    OBVIOUS
  <2>1. d[s + k + 2] = c[s + 2] /\ c[s + 2] \in Nat /\ s + c[s + 2] <= b
    BY OnlyBranch3 DEF Within, SameCells
  <2> QED
    BY <2>1
<1> QED
  BY <1>1, <1>2, <1>3 DEF Within

(* At the end of the code any can be put in.                               *)
LEMMA EndWhole ==
  ASSUME NEW c, NEW S, NEW O, Shape(c, S, O)
  PROVE  Whole(c, S, O, Len(c) + 1)
<1>1. Len(c) + 1 \in S /\ S \subseteq 1 .. Len(c) + 1 /\ Len(c) \in Nat
  BY ListLength DEF Shape
<1>2. ASSUME NEW s \in S, s < Len(c) + 1 PROVE Within(c, O, s, Len(c) + 1)
  <2>1. s <= Len(c)
    BY <1>1, <1>2
  <2>2. Instr(c, S, O, s)
    BY <2>1 DEF Shape
  <2> QED
    BY <1>1, <2>2 DEF Instr, Within
<1> QED
  BY <1>1, <1>2 DEF Whole

(* An instruction that does not jump is added.                             *)
LEMMA Added ==
  ASSUME NEW c, NEW S, NEW O, Shape(c, S, O), NEW w, Fits(w), NEW d, d = c \o w
  PROVE  Becomes(c, S, O, d, S \union {Len(d) + 1}, O, Len(c) + 1) /\ Len(d) \in Nat /\ Len(c) < Len(d)
<1> USE DEF Fits
<1> DEFINE n == Len(c)
           m == Len(w)
           S2 == S \union {Len(d) + 1}
<1>1. n \in Nat /\ m \in {1, 2, 3} /\ Listed(d) /\ Len(d) = n + m
      /\ (\A i \in 1 .. n : d[i] = c[i]) /\ (\A i \in 1 .. m : d[n + i] = w[i])
  BY ListLength, ListJoin, Widths DEF Shape
<1>2. S \subseteq 1 .. n + 1 /\ 1 \in S /\ n + 1 \in S /\ Apart(c, S) /\ O \subseteq S
      /\ \A o \in O : o <= n /\ c[o] = "BRANCH"
  BY DEF Shape
<1>3. m = Width(w[1])
  OBVIOUS
<1> HIDE DEF n, m
<1>4. S2 = S \union {n + m + 1}
  BY <1>1 DEF n
<1>5. ASSUME NEW s \in S, s <= n
      PROVE  /\ s \in Nat /\ 1 <= s /\ SameCells(c, s, d, s) /\ d[s] = c[s]
             /\ s + Width(c[s]) \in S /\ s + Width(c[s]) <= n + 1 /\ Instr(c, S, O, s)
  <2>1. /\ s \in Nat /\ 1 <= s /\ Width(c[s]) \in {1, 2, 3} /\ s + Width(c[s]) \in S
        /\ s + Width(c[s]) <= n + 1 /\ Instr(c, S, O, s)
    BY <1>5, Instruction DEF n
  <2>2. d[s] = c[s]
    BY <1>1, <1>5, <2>1
  <2>3. Width(c[s]) # 1 => d[s + 1] = c[s + 1]
    BY <1>1, <1>5, <2>1
  <2>4. Width(c[s]) = 3 => d[s + 2] = c[s + 2]
    BY <1>1, <1>5, <2>1
  <2> QED
    BY <2>1, <2>2, <2>3, <2>4 DEF SameCells
<1>6. d[n + 1] = w[1] /\ (m = 3 => d[n + 3] = w[3])
  <2>1. 1 \in 1 .. m /\ (m = 3 => 3 \in 1 .. m)
    BY <1>1
  <2> QED
    BY <1>1, <2>1
<1>7. ASSUME NEW s \in S2, s <= Len(d) PROVE Instr(d, S2, O, s)
  <2>1. CASE s \in S /\ s <= n
    <3>1. /\ s \in Nat /\ Instr(c, S, O, s) /\ SameCells(c, s, d, s)
      BY <1>5, <2>1
    <3>2. s + 0 = s /\ SameCells(c, s, d, s + 0) /\ s + Width(c[s]) + 0 \in S2
          /\ (c[s] \in Jumps => s + c[s + 1] + 0 \in S2)
          /\ (c[s] = "BRANCH" /\ s \notin O => s + c[s + 2] + 0 \in S2)
      <4>1. s + Width(c[s]) \in Nat /\ s + Width(c[s]) \in S /\ S \subseteq S2
        BY <1>2, <1>4, <1>5, <2>1
      <4>2. c[s] \in Jumps => s + c[s + 1] \in Nat /\ s + c[s + 1] \in S
        BY <3>1 DEF Instr
      <4>3. c[s] = "BRANCH" /\ s \notin O => s + c[s + 2] \in Nat /\ s + c[s + 2] \in S
        BY <3>1 DEF Instr
      <4> QED
        BY <3>1, <4>1, <4>2, <4>3
    <3>3. Instr(d, S2, O, s + 0)
      BY <3>1, <3>2, Copied
    <3> QED
      BY <3>2, <3>3
  <2>2. CASE s = n + 1
    <3>1. d[s] = w[1] /\ Width(d[s]) = m /\ (d[s] = "EXACT" => d[s + 2] = w[3])
      <4>1. w[1] = "EXACT" => m = 3
        BY <1>3, OnlyBranch3
      <4>2. s + 2 = n + 3
        BY <1>1, <2>2
      <4> QED
        BY <1>3, <1>6, <2>2, <4>1, <4>2
    <3>2. s + Width(d[s]) \in S2
      <4>1. n + 1 + m = n + m + 1
        BY <1>1
      <4> QED
        BY <1>4, <2>2, <3>1, <4>1
    <3>3. d[s] \notin Jumps /\ d[s] # "BRANCH"
      BY <3>1 DEF Jumps
    <3> QED
      BY <3>1, <3>2, <3>3 DEF Instr
  <2> QED
    BY <1>1, <1>2, <1>4, <1>7, <2>1, <2>2
<1>8. Apart(d, S2)
  <2> SUFFICES ASSUME NEW s \in S2, NEW x \in S2, s < x PROVE s + Width(d[s]) <= x
    BY DEF Apart
  <2>1. CASE s \in S /\ s <= n
    <3>1. /\ s \in Nat /\ d[s] = c[s] /\ s + Width(c[s]) <= n + 1 /\ Width(c[s]) \in {1, 2, 3}
      BY <1>5, <2>1, Widths
    <3>2. CASE x \in S
      BY <1>2, <2>1, <3>1, <3>2 DEF Apart
    <3>3. CASE x = n + m + 1
      BY <1>1, <3>1, <3>3
    <3> QED
      BY <1>4, <3>2, <3>3
  <2>2. CASE s = n + 1
    <3>1. Width(d[s]) = m
      BY <1>3, <1>6, <2>2
    <3>2. x = n + m + 1
      BY <1>1, <1>2, <1>4, <2>2
    <3> QED
      BY <1>1, <2>2, <3>1, <3>2
  <2>3. CASE s = n + m + 1
    <3>1. x \in 1 .. n + 1 \/ x = n + m + 1
      BY <1>2, <1>4
    <3> QED
      BY <1>1, <2>3, <3>1
  <2>4. s \in S => s \in Nat /\ s <= n + 1
    BY <1>1, <1>2
  <2>5. (s \in S /\ s <= n) \/ s = n + 1 \/ s = n + m + 1
    BY <1>1, <1>4, <2>4
  <2> QED
    BY <2>1, <2>2, <2>3, <2>5
<1>9. Shape(d, S2, O)
  <2>1. S2 \subseteq 1 .. Len(d) + 1 /\ 1 \in S2 /\ Len(d) + 1 \in S2
    BY <1>1, <1>2, <1>4
  <2>2. O \subseteq S2 /\ \A o \in O : o <= Len(d) /\ d[o] = "BRANCH"
    <3>1. ASSUME NEW o \in O PROVE o <= Len(d) /\ d[o] = "BRANCH"
      BY <1>1, <1>2, <1>5
    <3> QED
      BY <1>2, <1>4, <3>1
  <2> QED
    BY <1>1, <1>7, <1>8, <2>1, <2>2 DEF Shape
<1> HIDE DEF S2
<1>10. ASSUME NEW b \in S, Whole(c, S, O, b) PROVE Whole(d, S2, O, b)
  <2>1. b \in Nat /\ b <= n + 1
    BY <1>1, <1>2
  <2>2. ASSUME NEW s \in S2, s < b PROVE Within(d, O, s, b)
    <3>1. s \in S /\ s <= n
      BY <1>1, <1>2, <1>4, <2>1, <2>2
    <3>2. s \in Nat /\ SameCells(c, s, d, s) /\ Instr(c, S, O, s) /\ Within(c, O, s, b)
      BY <1>5, <1>10, <2>2, <3>1 DEF Whole
    <3>3. SameCells(c, s, d, s + 0) /\ s + 0 = s /\ b + 0 = b
      BY <2>1, <3>2
    <3>4. (c[s] \in Jumps => c[s + 1] \in Nat) /\ (c[s] = "BRANCH" /\ s \notin O => c[s + 2] \in Nat)
      BY <3>2 DEF Instr
    <3>5. Within(d, O, s + 0, b + 0)
      <4>1. s + 0 \notin O => s \notin O
        BY <3>3
      <4> QED
        BY ONLY <2>1, <3>2, <3>3, <3>4, <4>1, 0 \in Nat, WithinSame
    <3> QED
      BY <3>3, <3>5
  <2> QED
    BY <1>4, <2>2 DEF Whole
<1> QED
  <2>1. \A x \in S : x <= Len(c) => x <= Len(d) /\ d[x] = c[x]
    <3> SUFFICES ASSUME NEW x \in S, x <= Len(c) PROVE x <= Len(d) /\ d[x] = c[x]
      OBVIOUS
    <3>1. x \in Nat /\ x <= n /\ d[x] = c[x]
      BY <1>5 DEF n
    <3> QED
      BY <1>1, <3>1
  <2>2. Becomes(c, S, O, d, S2, O, Len(c) + 1)
    BY <1>4, <1>9, <1>10, <2>1 DEF Becomes
  <2> QED
    BY <1>1, <2>2 DEF n, S2
LEMMA MovedCells ==
  ASSUME NEW c, Listed(c), NEW b \in Nat, 1 <= b, b <= Len(c) + 1, NEW k \in {2, 3}, NEW o,
         NEW d, d = Moved(c, b, k, o)
  PROVE  /\ Listed(d) /\ Len(d) = Len(c) + k + 1
         /\ \A i \in 1 .. b - 1 : d[i] = c[i]
         /\ d[b] = o
         /\ \A i \in b .. Len(c) : d[i + k] = c[i]
         /\ d[Len(c) + k + 1] = "END"
<1> DEFINE n == Len(c)
           A == SubSeq(c, 1, b - 1)
           G == Gap(o, k)
           B == SubSeq(c, b, n)
           Z == <<"END">>
<1>1. n \in Nat
  BY ListLength
<1>2. Listed(A) /\ Len(A) = b - 1 /\ \A i \in 1 .. b - 1 : A[i] = c[i]
  <2>1. Listed(A) /\ Len(A) = (IF 1 <= b - 1 THEN b - 1 - 1 + 1 ELSE 0)
        /\ \A i \in 1 .. b - 1 - 1 + 1 : A[i] = c[1 + i - 1]
    <3>1. b - 1 \in Int /\ 1 \in Int
      OBVIOUS
    <3> QED
      BY <3>1, ListPart
  <2>2. Len(A) = b - 1
    BY <2>1
  <2>3. ASSUME NEW i \in 1 .. b - 1 PROVE A[i] = c[i]
    <3>1. i \in 1 .. b - 1 - 1 + 1 /\ 1 + i - 1 = i
      OBVIOUS
    <3> QED
      BY <2>1, <3>1
  <2> QED
    BY <2>1, <2>2, <2>3
<1>3. Listed(G) /\ Len(G) = k /\ G[1] = o
  <2>1. G \in Seq({o, 255}) /\ Len(G) = k /\ G[1] = o
    BY DEF Gap
  <2> QED
    BY <2>1 DEF Listed
<1>4. Listed(B) /\ Len(B) = n + 1 - b /\ \A i \in b .. n : B[i + 1 - b] = c[i]
  <2>1. Listed(B) /\ Len(B) = (IF b <= n THEN n - b + 1 ELSE 0)
        /\ \A i \in 1 .. n - b + 1 : B[i] = c[b + i - 1]
    <3>1. b \in Int /\ n \in Int
      BY <1>1
    <3> HIDE DEF n
    <3> QED
      BY <3>1, ListPart
  <2>2. Len(B) = n + 1 - b
    BY <1>1, <2>1
  <2>3. ASSUME NEW i \in b .. n PROVE B[i + 1 - b] = c[i]
    <3>1. i + 1 - b \in 1 .. n - b + 1 /\ b + (i + 1 - b) - 1 = i
      BY <1>1
    <3> QED
      BY <2>1, <3>1
  <2> QED
    BY <2>1, <2>2, <2>3
<1>5. Listed(Z) /\ Len(Z) = 1 /\ Z[1] = "END"
  <2>1. Z \in Seq({"END"})
    OBVIOUS
  <2> QED
    BY <2>1 DEF Listed
<1>6. d = ((A \o G) \o B) \o Z
  BY DEF Moved
<1> DEFINE AG == A \o G
           AB == AG \o B
<1> HIDE DEF n, A, G, B, Z
<1>7. /\ Listed(AG) /\ Len(AG) = b - 1 + k
      /\ \A i \in 1 .. b - 1 : AG[i] = A[i]
      /\ AG[b] = o
  <2>1. Listed(AG) /\ Len(AG) = b - 1 + k /\ (\A i \in 1 .. b - 1 : AG[i] = A[i])
        /\ \A i \in 1 .. k : AG[b - 1 + i] = G[i]
    BY <1>2, <1>3, ListJoin
  <2>2. 1 \in 1 .. k /\ b - 1 + 1 = b
    OBVIOUS
  <2>3. AG[b - 1 + 1] = o
    BY <1>3, <2>1, <2>2
  <2> QED
    BY <2>1, <2>2, <2>3
<1> HIDE DEF AG
<1>8. /\ Listed(AB) /\ Len(AB) = n + k
      /\ \A i \in 1 .. b - 1 + k : AB[i] = AG[i]
      /\ \A i \in 1 .. n + 1 - b : AB[b - 1 + k + i] = B[i]
  <2>1. Listed(AB) /\ Len(AB) = (b - 1 + k) + (n + 1 - b) /\ (\A i \in 1 .. b - 1 + k : AB[i] = AG[i])
        /\ \A i \in 1 .. n + 1 - b : AB[b - 1 + k + i] = B[i]
    <3>1. Listed(AB) /\ Len(AB) = Len(AG) + Len(B) /\ (\A i \in 1 .. Len(AG) : AB[i] = AG[i])
          /\ \A i \in 1 .. Len(B) : AB[Len(AG) + i] = B[i]
      <4>1. Listed(AG) /\ Listed(B)
        BY <1>4, <1>7
      <4> QED
        BY ONLY <4>1, ListJoin
    <3> HIDE DEF AB
    <3> QED
      BY <1>4, <1>7, <3>1
  <2>2. (b - 1 + k) + (n + 1 - b) = n + k
    BY <1>1
  <2> QED
    BY <2>1, <2>2
<1> HIDE DEF AB
<1>9. /\ Listed(d) /\ Len(d) = n + k + 1
      /\ \A i \in 1 .. n + k : d[i] = AB[i]
      /\ d[n + k + 1] = "END"
  <2>1. d = AB \o Z
    BY <1>6 DEF AB, AG
  <2>2. /\ Listed(d) /\ Len(d) = n + k + 1
        /\ \A i \in 1 .. n + k : d[i] = AB[i]
        /\ \A i \in 1 .. 1 : d[n + k + i] = Z[i]
    <3>1. Listed(d) /\ Len(d) = Len(AB) + Len(Z) /\ (\A i \in 1 .. Len(AB) : d[i] = AB[i])
          /\ \A i \in 1 .. Len(Z) : d[Len(AB) + i] = Z[i]
      <4>1. Listed(AB) /\ Listed(Z)
        BY <1>5, <1>8
      <4> QED
        BY ONLY <2>1, <4>1, ListJoin
    <3> QED
      BY <1>5, <1>8, <3>1
  <2>3. 1 \in 1 .. 1
    OBVIOUS
  <2> QED
    BY <1>5, <2>2, <2>3
<1>10. ASSUME NEW i \in 1 .. b - 1 PROVE d[i] = c[i]
  <2>1. i \in 1 .. n + k /\ i \in 1 .. b - 1 + k
    BY <1>1 DEF n
  <2> QED
    BY <1>2, <1>7, <1>8, <1>9, <2>1
<1>11. d[b] = o
  <2>1. b \in 1 .. n + k /\ b \in 1 .. b - 1 + k
    BY <1>1 DEF n
  <2> QED
    BY <1>7, <1>8, <1>9, <2>1
<1>12. ASSUME NEW i \in b .. n PROVE d[i + k] = c[i]
  <2>1. i + k \in 1 .. n + k /\ i + 1 - b \in 1 .. n + 1 - b /\ b - 1 + k + (i + 1 - b) = i + k
    BY <1>1
  <2>2. AB[b - 1 + k + (i + 1 - b)] = B[i + 1 - b]
    BY <1>8, <2>1
  <2> QED
    BY <1>4, <1>9, <2>1, <2>2
<1> QED
  BY <1>9, <1>10, <1>11, <1>12 DEF n

InPlace(c, b, k, o, e) ==
  /\ Listed(e) /\ Len(e) = Len(c) + k + 1
  /\ \A i \in 1 .. b - 1 : e[i] = c[i]
  /\ e[b] = o /\ e[b + 1] = Len(c) + k + 2 - b
  /\ \A i \in b .. Len(c) : e[i + k] = c[i]
  /\ e[Len(c) + k + 1] = "END"

(* Code is put in at b: what stands at b or behind moves by k cells, and   *)
(* the new instruction jumps behind the END of it.                         *)
LEMMA InsertedCells ==
  ASSUME NEW c, Listed(c), NEW b \in Nat, 1 <= b, b <= Len(c) + 1, NEW k \in {2, 3}, NEW o,
         NEW d, d = Moved(c, b, k, o), NEW e, e = Changed(d, b + 1, Len(d) + 1 - b)
  PROVE  InPlace(c, b, k, o, e)
<1> DEFINE n == Len(c)
           v == Len(d) + 1 - b
<1>1. n \in Nat
  BY ListLength
<1>2. /\ Listed(d) /\ Len(d) = n + k + 1
      /\ \A i \in 1 .. b - 1 : d[i] = c[i]
      /\ d[b] = o
      /\ \A i \in b .. n : d[i + k] = c[i]
      /\ d[n + k + 1] = "END"
  <2>1. b <= Len(c) + 1 /\ 1 <= b /\ Listed(c) /\ d = Moved(c, b, k, o)
    OBVIOUS
  <2> QED
    BY ONLY <2>1, b \in Nat, k \in {2, 3}, MovedCells
<1>3. v = n + k + 2 - b
  BY <1>1, <1>2
<1> HIDE DEF v
<1>4. Listed(e) /\ Len(e) = Len(d) /\ \A j \in 1 .. Len(d) : e[j] = IF j = b + 1 THEN v ELSE d[j]
  <2>1. e = [d EXCEPT ![b + 1] = v]
    BY DEF v, Changed
  <2> QED
    <3>1. Listed(d)
      BY <1>2
    <3> QED
      <4>1. Listed(Changed(d, b + 1, v)) /\ Len(Changed(d, b + 1, v)) = Len(d)
            /\ \A j \in 1 .. Len(d) : Changed(d, b + 1, v)[j] = IF j = b + 1 THEN v ELSE d[j]
        BY ONLY <3>1, ListChange
      <4> QED
        BY <2>1, <4>1 DEF Changed
<1> HIDE DEF n
<1>5. ASSUME NEW i \in 1 .. b - 1 PROVE e[i] = c[i]
  <2>1. i \in 1 .. n + k + 1 /\ i # b + 1
    BY <1>1 DEF n
  <2> QED
    BY <1>2, <1>4, <2>1
<1>6. e[b] = o /\ e[b + 1] = v /\ e[n + k + 1] = "END"
  <2>1. b <= n + 1
    BY DEF n
  <2>2. b \in 1 .. n + k + 1 /\ b # b + 1 /\ b + 1 \in 1 .. n + k + 1 /\ n + k + 1 \in 1 .. n + k + 1 /\ n + k + 1 # b + 1
    BY <1>1, <2>1
  <2> QED
    BY <1>2, <1>4, <2>2
<1>7. ASSUME NEW i \in b .. n PROVE e[i + k] = c[i]
  <2>1. i + k \in 1 .. n + k + 1 /\ i + k # b + 1
    BY <1>1
  <2> QED
    BY <1>2, <1>4, <2>1
<1> QED
  BY <1>2, <1>3, <1>4, <1>5, <1>6, <1>7 DEF n, InPlace
(* What such an instruction is put in front of stays whole, and so do the  *)
(* places before it.                                                       *)
Kept(S, b, k, n) == {s \in S : s <= b} \union {s + k : s \in {x \in S : x >= b}} \union {n + k + 2}

OpenAfter(O, o, b) == IF o = "BRANCH" THEN O \union {b} ELSE O

LEMMA Inserted ==
  ASSUME NEW c, NEW S, NEW O, Shape(c, S, O), NEW b, Whole(c, S, O, b), \A x \in O : x < b,
         NEW k \in {2, 3}, NEW o, o \in Jumps, k = Width(o),
         NEW e, InPlace(c, b, k, o, e), NEW O2, O2 = OpenAfter(O, o, b),
         NEW S2, S2 = Kept(S, b, k, Len(c))
  PROVE  Becomes(c, S, O, e, S2, O2, b) /\ b <= Len(e)
<1> DEFINE n == Len(c)
<1>1. n \in Nat /\ S \subseteq 1 .. n + 1 /\ 1 \in S /\ n + 1 \in S /\ Apart(c, S) /\ O \subseteq S
      /\ (\A x \in O : x <= n /\ c[x] = "BRANCH") /\ b \in S /\ b \in Nat /\ 1 <= b /\ b <= n + 1
  BY ListLength DEF Shape, Whole
<1>0. k \in Nat /\ (k = 2 \/ k = 3) /\ \A x \in S : x \in Nat /\ 1 <= x /\ x <= n + 1
  BY <1>1
<1>51. n \in Nat
  BY <1>1
<1>52. k \in Nat /\ 1 <= k
  BY <1>0
<1>53. b \in Nat /\ 1 <= b /\ b <= n + 1
  BY <1>1
<1>2. \A s \in S : s < b => Within(c, O, s, b)
  BY DEF Whole
<1>3. \A s \in S : s <= n =>
        /\ s \in Nat /\ 1 <= s
        /\ Width(c[s]) \in {1, 2, 3} /\ s + Width(c[s]) \in S /\ s + Width(c[s]) <= n + 1
        /\ Instr(c, S, O, s)
  BY Instruction
<1>4. \A s, x \in S : s < x => s + Width(c[s]) <= x
  BY <1>1 DEF Apart
<1>5. S2 = {s \in S : s <= b} \union {s + k : s \in {x \in S : x >= b}} \union {n + k + 2}
  BY DEF Kept
<1>6. Listed(e) /\ Len(e) = n + k + 1 /\ e[n + k + 1] = "END" /\ e[b] = o /\ e[b + 1] = n + k + 2 - b
      /\ \A i \in b .. n : e[i + k] = c[i]
  BY DEF InPlace
<1>54. O2 = IF o = "BRANCH" THEN O \union {b} ELSE O
  BY DEF OpenAfter
<1> HIDE DEF n
<1>7. \A s \in S : s <= b => s \in S2
  BY <1>5
<1>8. \A s \in S : s >= b => s + k \in S2
  BY <1>5
<1>9. n + k + 2 \in S2 /\ b \in S2 /\ n + k + 1 \in S2 /\ b + k \in S2
  <2>1. n + 1 + k = n + k + 1 /\ b >= b /\ b <= b /\ n + 1 >= b
    BY <1>1
  <2>2. n + 1 + k \in S2 /\ b + k \in S2 /\ b \in S2
    BY <1>1, <1>7, <1>8, <2>1
  <2> QED
    BY <1>5, <2>1, <2>2
(* Where the instructions are. *)
<1>10. ASSUME NEW x \in S2
       PROVE  \/ x \in S /\ x < b
              \/ x = b
              \/ \E s \in S : b <= s /\ s <= n /\ x = s + k
              \/ x = n + k + 1
              \/ x = n + k + 2
  <2>1. CASE x \in S /\ x <= b
    BY <1>1, <2>1
  <2>2. CASE \E s \in S : s >= b /\ x = s + k
    <3>1. PICK s \in S : s >= b /\ x = s + k
      BY <2>2
    <3>2. s \in Nat /\ (s <= n \/ s = n + 1)
      BY <1>1
    <3>3. CASE s <= n
      BY <1>1, <3>1, <3>2, <3>3
    <3>4. CASE s = n + 1
      BY <1>1, <3>1, <3>4
    <3> QED
      BY <3>2, <3>3, <3>4
  <2> QED
    BY <1>5, <2>1, <2>2
<1>11. S2 \subseteq 1 .. n + k + 2
  <2>1. ASSUME NEW x \in S2 PROVE x \in 1 .. n + k + 2
    <3>1. \/ x \in S /\ x < b
          \/ x = b
          \/ \E s \in S : b <= s /\ s <= n /\ x = s + k
          \/ x = n + k + 1
          \/ x = n + k + 2
      BY <1>10
    <3>2. ASSUME NEW s \in S, s <= n PROVE s + k \in 1 .. n + k + 2
      <4>1. s \in Nat /\ 1 <= s
        BY <1>0
      <4> QED
        BY ONLY <1>51, <1>52, <3>2, <4>1
    <3>3. b \in 1 .. n + k + 2 /\ n + k + 1 \in 1 .. n + k + 2 /\ n + k + 2 \in 1 .. n + k + 2
      BY ONLY <1>51, <1>52, <1>53
    <3>4. x \in S => x \in 1 .. n + k + 2
      BY <1>0, <1>1
    <3> QED
      BY <3>1, <3>2, <3>3, <3>4
  <2> QED
    BY <2>1
(* Before b nothing moves. *)
<1>12. ASSUME NEW s \in S, s < b
       PROVE  /\ s <= n /\ s \in Nat /\ 1 <= s /\ e[s] = c[s] /\ SameCells(c, s, e, s)
              /\ s + Width(c[s]) <= b /\ s + Width(c[s]) \in S /\ Width(c[s]) \in {1, 2, 3}
  <2>1. s <= n /\ s \in Nat /\ 1 <= s
    BY <1>1, <1>12
  <2>2. s + Width(c[s]) <= b /\ s + Width(c[s]) \in S /\ Width(c[s]) \in {1, 2, 3}
    BY <1>1, <1>3, <1>4, <1>12, <2>1
  <2>3. \A i \in 1 .. b - 1 : e[i] = c[i]
    BY DEF InPlace
  <2>4. e[s] = c[s]
    BY <1>1, <1>12, <2>1, <2>3
  <2>5. Width(c[s]) # 1 => e[s + 1] = c[s + 1]
    BY <1>1, <2>1, <2>2, <2>3
  <2>6. Width(c[s]) = 3 => e[s + 2] = c[s + 2]
    BY <1>1, <2>1, <2>2, <2>3
  <2> QED
    BY <2>1, <2>2, <2>4, <2>5, <2>6 DEF SameCells
(* From b on everything does. *)
<1>13. ASSUME NEW s \in S, b <= s, s <= n
       PROVE  /\ s \in Nat /\ e[s + k] = c[s] /\ SameCells(c, s, e, s + k)
              /\ s + Width(c[s]) \in S /\ Width(c[s]) \in {1, 2, 3} /\ s + Width(c[s]) <= n + 1
  <2>1. s \in Nat /\ Width(c[s]) \in {1, 2, 3} /\ s + Width(c[s]) \in S /\ s + Width(c[s]) <= n + 1
    BY <1>3, <1>13
  <2>2. e[s + k] = c[s]
    BY <1>1, <1>6, <1>13, <2>1
  <2>3. Width(c[s]) # 1 => e[(s + k) + 1] = c[s + 1]
    <3> SUFFICES ASSUME Width(c[s]) # 1 PROVE e[(s + k) + 1] = c[s + 1]
      OBVIOUS
    <3>1. s + 1 \in b .. n /\ (s + 1) + k = (s + k) + 1
      BY <1>1, <1>13, <2>1
    <3>2. e[(s + 1) + k] = c[s + 1]
      BY <1>6, <3>1
    <3> QED
      BY <3>1, <3>2
  <2>4. Width(c[s]) = 3 => e[(s + k) + 2] = c[s + 2]
    <3> SUFFICES ASSUME Width(c[s]) = 3 PROVE e[(s + k) + 2] = c[s + 2]
      OBVIOUS
    <3>1. s + 2 \in b .. n /\ (s + 2) + k = (s + k) + 2
      BY <1>1, <1>13, <2>1
    <3>2. e[(s + 2) + k] = c[s + 2]
      BY <1>6, <3>1
    <3> QED
      BY <3>1, <3>2
  <2> QED
    BY <2>1, <2>2, <2>3, <2>4 DEF SameCells
<1>14. \A s \in O : s \in S /\ s < b
  BY <1>1
<1>15. \A s \in S : s < b => (s \notin O2 <=> s \notin O)
  BY <1>1, <1>54
<1>16. ASSUME NEW s \in S, s < b PROVE Instr(e, S2, O2, s)
  <2>1. Instr(c, S, O, s) /\ Within(c, O, s, b)
    BY <1>2, <1>3, <1>12, <1>16
  <2>2. s \in Nat /\ SameCells(c, s, e, s) /\ s + Width(c[s]) \in S2 /\ s + Width(c[s]) \in Nat
    BY <1>0, <1>7, <1>12, <1>16
  <2>3. c[s] \in Jumps => s + c[s + 1] \in S2 /\ s + c[s + 1] \in Nat
    BY <1>0, <1>7, <2>1 DEF Instr, Within
  <2>4. c[s] = "BRANCH" /\ s \notin O => s + c[s + 2] \in S2 /\ s + c[s + 2] \in Nat
    BY <1>0, <1>7, <2>1 DEF Instr, Within
  <2>5. /\ SameCells(c, s, e, s + 0) /\ s + 0 = s
        /\ s + Width(c[s]) + 0 \in S2
        /\ c[s] \in Jumps => s + c[s + 1] + 0 \in S2
        /\ c[s] = "BRANCH" /\ s \notin O => s + c[s + 2] + 0 \in S2
    BY <2>2, <2>3, <2>4
  <2>6. s + 0 \notin O2 => s \notin O
    BY <1>15, <1>16, <2>5
  <2>7. Instr(e, S2, O2, s + 0)
    BY ONLY <2>1, <2>2, <2>5, <2>6, 0 \in Nat, Copied
  <2> QED
    BY <2>5, <2>7
<1>17. ASSUME NEW s \in S, b <= s, s <= n PROVE Instr(e, S2, O2, s + k)
  <2>1. Instr(c, S, O, s)
    BY <1>3, <1>17
  <2>2. s \in Nat /\ SameCells(c, s, e, s + k) /\ k \in Nat
    BY <1>13, <1>17
  <2>3. s + Width(c[s]) + k \in S2
    <3>1. s + Width(c[s]) >= b /\ s + Width(c[s]) \in S
      <4>1. s + Width(c[s]) \in S /\ s \in Nat /\ Width(c[s]) \in {1, 2, 3}
        BY <1>13, <1>17
      <4> QED
        BY <1>1, <1>17, <4>1
    <3> QED
      BY <1>8, <3>1
  <2>4. c[s] \in Jumps => s + c[s + 1] + k \in S2
    <3> SUFFICES ASSUME c[s] \in Jumps PROVE s + c[s + 1] + k \in S2
      OBVIOUS
    <3>1. s + c[s + 1] \in S /\ c[s + 1] \in Nat
      BY <2>1 DEF Instr
    <3>2. s + c[s + 1] >= b
      BY <1>1, <1>17, <2>2, <3>1
    <3> QED
      BY <1>8, <3>1, <3>2
  <2>5. c[s] = "BRANCH" /\ s \notin O => s + c[s + 2] + k \in S2
    <3> SUFFICES ASSUME c[s] = "BRANCH", s \notin O PROVE s + c[s + 2] + k \in S2
      OBVIOUS
    <3>1. s + c[s + 2] \in S /\ c[s + 2] \in Nat
      BY <2>1 DEF Instr
    <3>2. s + c[s + 2] >= b
      BY <1>1, <1>17, <2>2, <3>1
    <3> QED
      BY <1>8, <3>1, <3>2
  <2>6. s \notin O
    BY <1>1, <1>14, <1>17, <2>2
  <2> QED
    BY ONLY <2>1, <2>2, <2>3, <2>4, <2>5, <2>6, Copied
<1>18. Instr(e, S2, O2, b)
  <2>1. e[b] = o /\ o \in Jumps /\ Width(o) = k /\ (o = "BRANCH" => b \in O2) /\ o # "EXACT"
    <3>1. o # "EXACT"
      BY DEF Jumps, Loops
    <3> QED
      BY <1>6, <1>54, <3>1
  <2>2. e[b + 1] \in Nat /\ b + e[b + 1] = n + k + 2
    BY <1>0, <1>1, <1>6
  <2> QED
    BY <1>9, <2>1, <2>2 DEF Instr
<1>19. Instr(e, S2, O2, n + k + 1)
  <2>1. Width("END") = 1 /\ "END" \notin Jumps
    BY DEF Width, Jumps, Loops
  <2>2. n + k + 1 + 1 = n + k + 2
    BY <1>1
  <2> QED
    BY <1>6, <1>9, <2>1, <2>2 DEF Instr, Jumps
<1>20. ASSUME NEW s \in S2, s <= Len(e) PROVE Instr(e, S2, O2, s)
  <2>1. s # n + k + 2
    BY <1>1, <1>6, <1>20
  <2>2. \/ s \in S /\ s < b
        \/ s = b
        \/ \E x \in S : b <= x /\ x <= n /\ s = x + k
        \/ s = n + k + 1
        \/ s = n + k + 2
    BY <1>10
  <2> QED
    BY <1>16, <1>17, <1>18, <1>19, <2>1, <2>2
<1>21. ASSUME NEW s \in S2, NEW x \in S2, s < x PROVE s + Width(e[s]) <= x
  <2>1. \/ s \in S /\ s < b
        \/ s = b
        \/ \E y \in S : b <= y /\ y <= n /\ s = y + k
        \/ s = n + k + 1
        \/ s = n + k + 2
    BY <1>10
  <2>2. \/ x \in S /\ x < b
        \/ x = b
        \/ \E y \in S : b <= y /\ y <= n /\ x = y + k
        \/ x = n + k + 1
        \/ x = n + k + 2
    BY <1>10
  <2>3. CASE s \in S /\ s < b
    <3>1. e[s] = c[s] /\ s + Width(c[s]) <= b /\ s \in Nat /\ Width(c[s]) \in {1, 2, 3}
      BY <1>12, <2>3
    <3>2. CASE x \in S /\ x < b
      BY <1>4, <1>21, <2>3, <3>1, <3>2
    <3>3. CASE ~ (x \in S /\ x < b)
      <4>1. x \in Nat /\ b <= x
        <5>1. CASE x = b
          BY <1>53, <5>1
        <5>2. CASE \E y \in S : b <= y /\ y <= n /\ x = y + k
          <6>1. PICK y \in S : b <= y /\ y <= n /\ x = y + k
            BY <5>2
          <6>2. y \in Nat
            BY <1>0
          <6> QED
            BY ONLY <1>51, <1>52, <1>53, <6>1, <6>2
        <5>3. CASE x = n + k + 1 \/ x = n + k + 2
          BY ONLY <1>51, <1>52, <1>53, <5>3
        <5> QED
          BY <2>2, <3>3, <5>1, <5>2, <5>3
      <4> QED
        BY <1>1, <3>1, <4>1
    <3> QED
      BY <3>2, <3>3
  <2>4. CASE s = b
    <3>1. x \in Nat /\ b + k <= x
      BY <1>1, <1>21, <2>2, <2>4
    <3>2. Width(e[s]) = k
      BY <1>6, <2>4
    <3> QED
      BY <2>4, <3>1, <3>2
  <2>5. CASE \E y \in S : b <= y /\ y <= n /\ s = y + k
    <3>1. PICK y \in S : b <= y /\ y <= n /\ s = y + k
      BY <2>5
    <3>2. e[s] = c[y] /\ y \in Nat /\ y + Width(c[y]) <= n + 1 /\ Width(c[y]) \in {1, 2, 3}
      BY <1>13, <3>1
    <3>3. CASE \E z \in S : b <= z /\ z <= n /\ x = z + k
      <4>1. PICK z \in S : b <= z /\ z <= n /\ x = z + k
        BY <3>3
      <4>2. z \in Nat /\ y < z
        BY <1>1, <1>21, <3>1, <3>2, <4>1
      <4>3. y + Width(c[y]) <= z
        BY <1>4, <4>2
      <4> QED
        BY <3>1, <3>2, <4>1, <4>2, <4>3
    <3>4. CASE x = n + k + 1 \/ x = n + k + 2
      <4>1. y + k + Width(c[y]) <= n + 1 + k
        BY ONLY <1>51, <1>52, <3>2
      <4> QED
        <5>1. s + Width(e[s]) <= n + 1 + k
          BY <3>1, <3>2, <4>1
        <5>2. s + Width(e[s]) \in Nat
          BY ONLY <1>52, <3>1, <3>2
        <5> QED
          BY ONLY <1>51, <1>52, <3>4, <5>1, <5>2
    <3>5. ~ (x \in S /\ x < b) /\ x # b
      BY <1>1, <1>21, <3>1, <3>2
    <3> QED
      BY <2>2, <3>3, <3>4, <3>5
  <2>6. CASE s = n + k + 1
    <3>1. x = n + k + 2
      BY <1>1, <1>21, <2>2, <2>6
    <3>2. Width(e[s]) = 1
      BY <1>6, <2>6, OnlyBranch3
    <3> QED
      BY <1>1, <2>6, <3>1, <3>2
  <2>7. s # n + k + 2
    <3>1. x <= n + k + 2 /\ x \in Nat /\ s \in Nat
      BY <1>0, <1>1, <1>11
    <3> QED
      BY <1>21, <3>1, <1>0, <1>1
  <2> QED
    BY <2>1, <2>3, <2>4, <2>5, <2>6, <2>7
<1>22. O2 \subseteq S2 /\ \A x \in O2 : x <= Len(e) /\ e[x] = "BRANCH"
  <2>1. ASSUME NEW x \in O2 PROVE x \in S2 /\ x <= Len(e) /\ e[x] = "BRANCH"
    <3>1. CASE x \in O
      <4>1. x \in S /\ x < b /\ c[x] = "BRANCH"
        BY <1>1, <1>14, <3>1
      <4>2. x <= n /\ x \in Nat /\ e[x] = c[x] /\ x \in S2
        BY <1>0, <1>1, <1>7, <1>12, <4>1
      <4> QED
        BY <1>0, <1>1, <1>6, <4>1, <4>2
    <3>2. CASE x # b \/ o # "BRANCH"
      BY <1>54, <3>1, <3>2
    <3>3. CASE x = b /\ o = "BRANCH"
      BY <1>1, <1>6, <1>9, <3>3
    <3> QED
      BY <3>2, <3>3
  <2> QED
    BY <2>1
<1>23. Shape(e, S2, O2) /\ b <= Len(e)
  <2>1. Len(e) + 1 = n + k + 2 /\ b <= Len(e)
    BY <1>1, <1>6
  <2>2. 1 \in S2
    BY <1>1, <1>7
  <2>3. Apart(e, S2)
    BY <1>21 DEF Apart
  <2> QED
    BY <1>6, <1>9, <1>11, <1>20, <1>22, <2>1, <2>2, <2>3 DEF Shape
<1>24. ASSUME NEW x \in S, x <= b, Whole(c, S, O, x) PROVE Whole(e, S2, O2, x)
  <2>1. x \in S2 /\ x \in Nat
    BY <1>1, <1>7, <1>24
  <2>2. ASSUME NEW s \in S2, s < x PROVE Within(e, O2, s, x)
    <3>1. s \in S /\ s < b
      <4>1. s \in Nat /\ s < b
        BY <1>0, <1>1, <1>11, <1>24, <2>1, <2>2
      <4>2. \/ s \in S /\ s < b
            \/ s = b
            \/ \E y \in S : b <= y /\ y <= n /\ s = y + k
            \/ s = n + k + 1
            \/ s = n + k + 2
        BY <1>10
      <4>3. ASSUME NEW y \in S, b <= y PROVE s # y + k
        <5>1. y \in Nat
          BY <1>0
        <5> QED
          BY ONLY <1>52, <1>53, <4>1, <4>3, <5>1
      <4>4. s # b /\ s # n + k + 1 /\ s # n + k + 2
        BY ONLY <1>51, <1>52, <1>53, <4>1
      <4> QED
        BY <4>1, <4>2, <4>3, <4>4
    <3>2. s \in Nat /\ SameCells(c, s, e, s) /\ Instr(c, S, O, s) /\ Within(c, O, s, x)
      BY <1>3, <1>12, <1>24, <2>2, <3>1 DEF Whole
    <3>3. SameCells(c, s, e, s + 0) /\ s + 0 = s /\ x + 0 = x
      BY <2>1, <3>2
    <3>4. (c[s] \in Jumps => c[s + 1] \in Nat) /\ (c[s] = "BRANCH" /\ s \notin O => c[s + 2] \in Nat)
      BY <3>2 DEF Instr
    <3>5. s + 0 \notin O2 => s \notin O
      BY <1>15, <3>1, <3>3
    <3>6. Within(e, O2, s + 0, x + 0)
      BY ONLY <2>1, <3>2, <3>3, <3>4, <3>5, 0 \in Nat, WithinSame
    <3> QED
      BY <3>3, <3>6
  <2> QED
    BY <2>1, <2>2 DEF Whole
<1>25. ASSUME NEW x \in S, x < b, x <= n PROVE x <= Len(e) /\ e[x] = c[x]
  <2>1. x \in Nat /\ x <= n /\ e[x] = c[x]
    BY <1>12, <1>25
  <2> QED
    BY <1>6, <1>51, <1>52, <2>1
<1> QED
  BY <1>7, <1>23, <1>24, <1>25 DEF Becomes, n


(* The last operand of a branch is set, or the length of a string.         *)
LEMMA OperandSet ==
  ASSUME NEW c, NEW S, NEW O, Shape(c, S, O), NEW a \in S, a <= Len(c), c[a] \in {"BRANCH", "EXACT"},
         NEW v \in Nat, c[a] = "BRANCH" => a + v \in S,
         NEW e, e = Changed(c, a + 2, v), NEW y, y = (IF c[a] = "EXACT" THEN Len(c) + 1 ELSE a)
  PROVE  Becomes(c, S, O, e, S, O \ {a}, y) /\ Len(e) = Len(c)
<1> DEFINE n == Len(c)
           at == a + 2
           P == O \ {a}
<1>1. n \in Nat /\ S \subseteq 1 .. n + 1 /\ 1 \in S /\ n + 1 \in S /\ Apart(c, S) /\ O \subseteq S
      /\ Listed(c) /\ \A x \in O : x <= n /\ c[x] = "BRANCH"
  BY ListLength DEF Shape
<1>2. \A s \in S : s <= n =>
        /\ s \in Nat /\ 1 <= s
        /\ Width(c[s]) \in {1, 2, 3} /\ s + Width(c[s]) \in S /\ s + Width(c[s]) <= n + 1
        /\ Instr(c, S, O, s)
  BY Instruction
<1>3. \A s, x \in S : s < x => s + Width(c[s]) <= x
  BY <1>1 DEF Apart
<1>4. \A x \in S : x \in Nat
  BY <1>1
<1> HIDE DEF at, n
<1>5. Listed(e) /\ Len(e) = n /\ \A j \in 1 .. n : e[j] = IF j = at THEN v ELSE c[j]
  <2>1. e = Changed(c, at, v)
    BY DEF at
  <2>2. Listed(Changed(c, at, v)) /\ Len(Changed(c, at, v)) = Len(c)
        /\ \A j \in 1 .. Len(c) : Changed(c, at, v)[j] = IF j = at THEN v ELSE c[j]
    <3>1. Listed(c)
      BY <1>1
    <3> QED
      BY ONLY <3>1, ListChange
  <2> QED
    BY <2>1, <2>2 DEF n
<1>6. Width(c[a]) = 3 /\ a \in Nat /\ a <= n /\ 1 <= a /\ a + 3 <= n + 1
  <2>1. Width(c[a]) = 3
    BY OnlyBranch3
  <2>2. a <= n
    BY DEF n
  <2>3. a \in Nat /\ 1 <= a /\ a + Width(c[a]) <= n + 1
    BY <1>2, <2>2
  <2> QED
    BY <2>1, <2>2, <2>3
<1>7. at \in 1 .. n /\ e[at] = v
  <2>1. at \in 1 .. n
    BY <1>1, <1>6 DEF at
  <2> QED
    BY <1>5, <2>1
(* No other instruction has that cell. *)
<1>8. ASSUME NEW s \in S, s <= n
      PROVE  /\ e[s] = c[s]
             /\ Width(c[s]) # 1 => e[s + 1] = c[s + 1]
             /\ Width(c[s]) = 3 /\ s # a => e[s + 2] = c[s + 2]
  <2>1. s \in Nat /\ 1 <= s /\ Width(c[s]) \in {1, 2, 3} /\ s + Width(c[s]) <= n + 1
    BY <1>2, <1>8
  <2>2. CASE s < a
    <3>1. s + Width(c[s]) <= a
      BY <1>3, <2>2
    <3>2. s + 2 # at \/ Width(c[s]) # 3
      BY <1>6, <2>1, <3>1 DEF at
    <3>3. s \in 1 .. n /\ (Width(c[s]) # 1 => s + 1 \in 1 .. n) /\ (Width(c[s]) = 3 => s + 2 \in 1 .. n)
      BY <1>1, <1>8, <2>1
    <3>4. s # at /\ s + 1 # at
      BY <1>6, <2>1, <2>2 DEF at
    <3> QED
      BY <1>5, <3>2, <3>3, <3>4
  <2>3. CASE s = a
    <3>1. s # at /\ s + 1 # at /\ s \in 1 .. n /\ s + 1 \in 1 .. n
      BY <1>1, <1>6, <2>3 DEF at
    <3> QED
      BY <1>5, <2>3, <3>1
  <2>4. CASE a < s
    <3>1. a + 3 <= s
      BY <1>3, <1>6, <2>4
    <3>2. s # at /\ s + 1 # at /\ s + 2 # at
      BY <1>6, <2>1, <3>1 DEF at
    <3>3. s \in 1 .. n /\ (Width(c[s]) # 1 => s + 1 \in 1 .. n) /\ (Width(c[s]) = 3 => s + 2 \in 1 .. n)
      BY <1>1, <1>8, <2>1
    <3> QED
      BY <1>5, <3>2, <3>3
  <2> QED
    BY <1>6, <2>1, <2>2, <2>3, <2>4
<1>9. ASSUME NEW s \in S, s <= n, s # a PROVE SameCells(c, s, e, s)
  BY <1>8, <1>9 DEF SameCells
<1>10. ASSUME NEW s \in S, s <= n PROVE Instr(e, S, P, s)
  <2>1. s \in Nat /\ Instr(c, S, O, s) /\ Width(c[s]) \in {1, 2, 3} /\ s + Width(c[s]) \in S
    BY <1>2, <1>10
  <2>2. CASE s # a
    <3>1. SameCells(c, s, e, s + 0) /\ s + 0 = s
      <4>1. s + 0 = s
        BY <2>1
      <4> QED
        BY <1>9, <1>10, <2>2, <4>1
    <3>2. s + Width(c[s]) + 0 \in S
      BY <2>1
    <3>3. c[s] \in Jumps => s + c[s + 1] + 0 \in S
      <4>1. c[s] \in Jumps => c[s + 1] \in Nat /\ s + c[s + 1] \in S
        BY <2>1 DEF Instr
      <4> QED
        BY <2>1, <4>1
    <3>4. c[s] = "BRANCH" /\ s \notin O => s + c[s + 2] + 0 \in S
      <4>1. c[s] = "BRANCH" /\ s \notin O => c[s + 2] \in Nat /\ s + c[s + 2] \in S
        BY <2>1 DEF Instr
      <4> QED
        BY <2>1, <4>1
    <3>5. s + 0 \notin P => s \notin O
      BY <2>2, <3>1
    <3>6. Instr(e, S, P, s + 0)
      BY ONLY <2>1, <3>1, <3>2, <3>3, <3>4, <3>5, 0 \in Nat, Copied
    <3> QED
      BY <3>1, <3>6
  <2>3. CASE s = a
    <3>1. e[a] = c[a] /\ e[a + 1] = c[a + 1] /\ e[a + 2] = v
      BY <1>6, <1>7, <1>8 DEF at
    <3>2. e[a] = "EXACT" => e[a + 2] \in Nat
      BY <3>1
    <3>3. e[a] \in Jumps => e[a + 1] \in Nat /\ a + e[a + 1] \in S
      BY <2>1, <2>3, <3>1 DEF Instr
    <3>4. e[a] = "BRANCH" => e[a + 2] \in Nat /\ a + e[a + 2] \in S
      BY <3>1
    <3>5. a + Width(e[a]) \in S
      BY <2>1, <2>3, <3>1
    <3> QED
      BY <2>3, <3>2, <3>3, <3>4, <3>5 DEF Instr
  <2> QED
    BY <2>2, <2>3
<1>11. Shape(e, S, P)
  <2>1. Apart(e, S)
    <3> SUFFICES ASSUME NEW s \in S, NEW x \in S, s < x PROVE s + Width(e[s]) <= x
      BY DEF Apart
    <3>1. s <= n
      <4>1. s \in Nat /\ x \in Nat /\ x <= n + 1
        BY <1>1
      <4> QED
        BY <1>1, <4>1
    <3> QED
      BY <1>3, <1>8, <3>1
  <2>2. \A x \in P : x <= n /\ e[x] = "BRANCH"
    BY <1>1, <1>8
  <2> QED
    BY <1>1, <1>5, <1>10, <2>1, <2>2 DEF Shape
<1>12. ASSUME NEW b \in S, b <= a \/ c[a] = "EXACT", Whole(c, S, O, b) PROVE Whole(e, S, P, b)
  <2>1. ASSUME NEW s \in S, s < b PROVE Within(e, P, s, b)
    <3>1. s <= n /\ b \in Nat /\ s \in Nat
      <4>1. s \in Nat /\ b \in Nat /\ b <= n + 1
        BY <1>1
      <4> QED
        BY <1>1, <2>1, <4>1
    <3>2. Instr(c, S, O, s) /\ Within(c, O, s, b)
      BY <1>2, <1>12, <2>1, <3>1 DEF Whole
    <3>3. CASE s # a
      <4>1. SameCells(c, s, e, s + 0) /\ s + 0 = s /\ b + 0 = b
        <5>1. s + 0 = s /\ b + 0 = b
          BY <3>1
        <5> QED
          BY <1>9, <3>1, <3>3, <5>1
      <4>2. (c[s] \in Jumps => c[s + 1] \in Nat) /\ (c[s] = "BRANCH" /\ s \notin O => c[s + 2] \in Nat)
        BY <3>2 DEF Instr
      <4>3. s + 0 \notin P => s \notin O
        BY <3>3, <4>1
      <4>4. Within(e, P, s + 0, b + 0)
        BY ONLY <3>1, <3>2, <4>1, <4>2, <4>3, 0 \in Nat, WithinSame
      <4> QED
        BY <4>1, <4>4
    <3>4. CASE s = a
      <4>1. c[a] = "EXACT"
        BY <1>6, <1>12, <2>1, <3>1, <3>4
      <4>2. e[a] = "EXACT"
        BY <1>8, <3>1, <3>4, <4>1
      <4> QED
        BY <3>4, <4>2 DEF Within, Jumps, Loops
    <3> QED
      BY <3>3, <3>4
  <2> QED
    BY <2>1 DEF Whole
<1>13. \A x \in S : x <= y /\ Whole(c, S, O, x) => Whole(e, S, P, x)
  BY <1>12
<1> QED
  BY <1>5, <1>8, <1>11, <1>13 DEF n, Becomes
LEMMA OneCell ==
  ASSUME NEW o
  PROVE  Listed(<<o>>) /\ Len(<<o>>) = 1 /\ <<o>>[1] = o
<1>1. <<o>> \in Seq({o})
  OBVIOUS
<1> QED
  BY <1>1 DEF Listed

LEMMA TwoCells ==
  ASSUME NEW o, NEW x
  PROVE  Listed(<<o, x>>) /\ Len(<<o, x>>) = 2 /\ <<o, x>>[1] = o
<1>1. <<o, x>> \in Seq({o, x})
  OBVIOUS
<1> QED
  BY <1>1 DEF Listed

LEMMA ThreeCells ==
  ASSUME NEW o, NEW x, NEW y
  PROVE  Listed(<<o, x, y>>) /\ Len(<<o, x, y>>) = 3 /\ <<o, x, y>>[1] = o /\ <<o, x, y>>[3] = y
<1>1. <<o, x, y>> \in Seq({o, x, y})
  OBVIOUS
<1> QED
  BY <1>1 DEF Listed

LEMMA TwoBecomings ==
  ASSUME NEW c, NEW S, NEW O, NEW d, NEW T, NEW P, NEW e, NEW U, NEW Q, NEW a \in Nat, NEW b \in Nat,
         Shape(c, S, O), Becomes(c, S, O, d, T, P, a), Becomes(d, T, P, e, U, Q, b), b <= a
  PROVE  Becomes(c, S, O, e, U, Q, b)
<1>1. \A x \in S : x \in Nat /\ (x <= b => x <= a) /\ (x < b => x < a /\ x <= b)
  BY DEF Shape
<1>2. \A x \in S : x <= b => x \in U
  BY <1>1 DEF Becomes
<1>3. ASSUME NEW x \in S, x <= b, Whole(c, S, O, x) PROVE Whole(e, U, Q, x)
  <2>1. x \in T /\ Whole(d, T, P, x)
    BY <1>1, <1>3 DEF Becomes
  <2> QED
    BY <1>3, <2>1 DEF Becomes
<1>4. ASSUME NEW x \in S, x < b, x <= Len(c) PROVE x <= Len(e) /\ e[x] = c[x]
  <2>1. x \in T /\ x <= Len(d) /\ d[x] = c[x]
    BY <1>1, <1>4 DEF Becomes
  <2> QED
    BY <1>4, <2>1 DEF Becomes
<1> QED
  BY <1>2, <1>3, <1>4 DEF Becomes

(* A branch is ended: its last operand leads behind a new END.             *)
LEMMA Ended ==
  ASSUME NEW c, NEW S, NEW O, Shape(c, S, O), NEW a \in S, a <= Len(c), c[a] = "BRANCH",
         NEW d, d = c \o <<"END">>, NEW v, v = Len(d) + 1 - a
  PROVE  Becomes(c, S, O, Changed(d, a + 2, v), S \union {Len(d) + 1}, O \ {a}, a)
<1> DEFINE w == <<"END">>
           S2 == S \union {Len(d) + 1}
           e == Changed(d, a + 2, v)
<1>1. Fits(w)
  <2>1. Width("END") = 1 /\ "END" \notin Jumps /\ "END" # "EXACT"
    BY OnlyBranch3 DEF Jumps, Loops
  <2> QED
    BY <2>1, OneCell DEF Fits
<1>2. d = c \o w
  OBVIOUS
<1> HIDE DEF w
<1>3. Becomes(c, S, O, d, S \union {Len(d) + 1}, O, Len(c) + 1) /\ Len(d) \in Nat /\ Len(c) < Len(d)
  BY ONLY <1>1, <1>2, Shape(c, S, O), Added
<1>4. Len(c) \in Nat /\ a \in Nat /\ 1 <= a
  BY ListLength DEF Shape
<1> HIDE DEF S2, e
<1>5. Becomes(c, S, O, d, S2, O, Len(c) + 1) /\ Shape(d, S2, O)
  BY <1>3 DEF Becomes, S2
<1>6. a \in S2 /\ a <= Len(d) /\ d[a] = "BRANCH"
  BY <1>3, <1>4, <1>5 DEF Becomes
<1>7. v \in Nat /\ a + v \in S2
  BY <1>3, <1>4, <1>6 DEF S2
<1>8. Becomes(d, S2, O, e, S2, O \ {a}, a)
  <2>1. Shape(d, S2, O) /\ d[a] \in {"BRANCH", "EXACT"} /\ (d[a] = "BRANCH" => a + v \in S2)
    BY <1>5, <1>6, <1>7
  <2>2. e = Changed(d, a + 2, v) /\ a = IF d[a] = "EXACT" THEN Len(d) + 1 ELSE a
    BY <1>6 DEF e
  <2> QED
    BY ONLY <1>6, <1>7, <2>1, <2>2, OperandSet
<1>9. Becomes(c, S, O, e, S2, O \ {a}, a)
  <2>1. Len(c) + 1 \in Nat /\ a <= Len(c) + 1
    BY <1>4
  <2> QED
    BY ONLY <1>4, <1>5, <1>8, <2>1, Shape(c, S, O), TwoBecomings
<1> QED
  BY <1>9 DEF S2, e
-----------------------------------------------------------------------------
(* What the functions that build a program do to its shape.                *)

Continues(p, S, O, q, O2, b) ==
  /\ Sized(q)
  /\ q.err = p.err \/ q.err = "too long"
  /\ q.err = "none" => \E S2 : Becomes(p.code, S, O, q.code, S2, O2, b)

LEMMA EmitContinues ==
  ASSUME NEW p, NEW S, NEW O, Sized(p), Shape(p.code, S, O), NEW w, Fits(w), NEW q, q = Emit(p, w)
  PROVE  /\ Continues(p, S, O, q, O, Len(p.code) + 1)
         /\ q.err = "none" => Len(p.code) < Len(q.code)
         /\ q.data = p.data
<1>1. Listed(w)
  BY DEF Fits
<1>2. /\ Sized(q) /\ q.data = p.data
      /\ \/ q.err = "too long" /\ q.code = p.code
         \/ q.err = p.err /\ p.err # "too long" /\ q.code = p.code \o w
  BY <1>1, Emitted
<1>3. CASE q.err = "none"
  <2>1. q.code = p.code \o w /\ q.err = p.err
    BY <1>2, <1>3
  <2> DEFINE c == p.code
             d == q.code
  <2> HIDE DEF c, d
  <2>2. Shape(c, S, O) /\ d = c \o w
    BY <2>1 DEF c, d
  <2>3. Becomes(c, S, O, d, S \union {Len(d) + 1}, O, Len(c) + 1) /\ Len(d) \in Nat /\ Len(c) < Len(d)
    BY ONLY <2>2, Fits(w), Added
  <2> QED
    BY <1>2, <2>1, <2>3 DEF Continues, c, d
<1>4. CASE q.err # "none"
  BY <1>2, <1>4 DEF Continues
<1> QED
  BY <1>3, <1>4

(* What a cell holds of a number. *)
LEMMA CellNumber ==
  ASSUME NEW n \in Int
  PROVE  n % CodeSize \in Nat
<1>1. CodeSize \in Nat /\ CodeSize > 0
  BY ProgramAssumption
<1> QED
  BY <1>1

LEMMA SimpleFits ==
  ASSUME NEW o \in {"BOL", "EOL", "ANY", "END", "NONSPACE", "SPACE", "DIGIT", "LOWER", "UPPER", "ALPHA", "ALNUM"}
  PROVE  Fits(<<o>>)
<1>1. Width(o) = 1 /\ o \notin Jumps /\ o # "EXACT"
  BY OnlyBranch3 DEF Jumps, Loops
<1> QED
  BY <1>1, OneCell DEF Fits

LEMMA BracketFits ==
  ASSUME NEW o \in {"OPEN", "CLOSE"}, NEW k
  PROVE  Fits(<<o, k>>)
<1>1. Width(o) = 2 /\ o \notin Jumps /\ o # "EXACT"
  BY OnlyBranch3 DEF Jumps, Loops
<1> QED
  BY <1>1, TwoCells DEF Fits

LEMMA StringFits ==
  ASSUME NEW o \in {"EXACT", "ANYOF", "ANYBUT"}, NEW x, NEW y, o = "EXACT" => y \in Nat
  PROVE  Fits(<<o, x, y>>)
<1>1. Width(o) = 3 /\ o \notin Jumps
  BY OnlyBranch3 DEF Jumps, Loops
<1> QED
  BY <1>1, ThreeCells DEF Fits

LEMMA UnknownFits == Fits(<<"unknown">>)
<1>1. Width("unknown") = 1 /\ "unknown" \notin Jumps /\ "unknown" # "EXACT"
  BY DEF Width, Jumps, Loops
<1> QED
  BY <1>1, OneCell DEF Fits

(* exact, exact_one_char *)
LEMMA ExactContinues ==
  ASSUME NEW p, NEW S, NEW O, Sized(p), Shape(p.code, S, O), NEW chars, Listed(chars),
         NEW q, q = Literal(Store(p, chars), "EXACT", Len(p.data))
  PROVE  /\ Continues(p, S, O, q, O, Len(p.code) + 1)
         /\ q.err = "none" => Len(p.code) < Len(q.code)
<1> DEFINE r == Store(p, chars)
           n == Len(r.data) - Len(p.data)
           w == <<"EXACT", Len(p.data) % CodeSize, n % CodeSize>>
<1>1. /\ Sized(r) /\ r.code = p.code
      /\ \/ r.err = "too long"
         \/ r.err = p.err /\ p.err # "too long" /\ Len(r.data) = Len(p.data) + Len(chars)
  BY Stored
<1>2. q = Emit(r, w)
  BY DEF Literal
<1> HIDE DEF r
<1>3. CASE r.err = "too long"
  <2>1. Sized(r) /\ Listed(w) /\ q = Emit(r, w)
    <3> HIDE DEF w
    <3>1. Listed(w)
      BY ThreeCells DEF w
    <3> QED
      BY <1>1, <1>2, <3>1
  <2> HIDE DEF w
  <2>2. /\ Sized(q) /\ q.data = r.data
        /\ \/ q.err = "too long" /\ q.code = r.code
           \/ q.err = r.err /\ r.err # "too long" /\ q.code = r.code \o w
    BY ONLY <2>1, Emitted
  <2>3. q.err = "too long"
    BY <1>3, <2>2
  <2> QED
    BY <2>2, <2>3 DEF Continues
<1>4. CASE r.err # "too long"
  <2>1. Len(r.data) - Len(p.data) \in Nat /\ r.err = p.err
    <3>1. Len(p.data) \in Nat /\ Len(chars) \in Nat
      BY ListLength DEF Sized
    <3>2. r.err = p.err /\ Len(r.data) = Len(p.data) + Len(chars)
      BY <1>1, <1>4
    <3> QED
      BY <3>1, <3>2
  <2>2. Fits(w)
    <3>1. n \in Int
      BY <2>1
    <3> HIDE DEF n
    <3>2. n % CodeSize \in Nat
      BY <3>1, CellNumber
    <3> QED
      BY <3>2, StringFits
  <2> HIDE DEF w
  <2>3. Shape(r.code, S, O)
    BY <1>1
  <2>4. Continues(r, S, O, q, O, Len(r.code) + 1) /\ (q.err = "none" => Len(r.code) < Len(q.code))
    BY <1>1, <1>2, <2>2, <2>3, EmitContinues
  <2> QED
    BY <1>1, <2>1, <2>4 DEF Continues
<1> QED
  BY <1>3, <1>4

LEMMA SetContinues ==
  ASSUME NEW p, NEW S, NEW O, Sized(p), Shape(p.code, S, O), NEW o \in {"ANYOF", "ANYBUT"}, NEW from,
         NEW q, q = Literal(p, o, from)
  PROVE  /\ Continues(p, S, O, q, O, Len(p.code) + 1)
         /\ q.err = "none" => Len(p.code) < Len(q.code)
<1> DEFINE w == <<o, from % CodeSize, (Len(p.data) - from) % CodeSize>>
<1>1. q = Emit(p, w)
  BY DEF Literal
<1>2. Fits(w)
  BY StringFits
<1> HIDE DEF w
<1> QED
  BY <1>1, <1>2, EmitContinues

(* fixup_branch *)
LEMMA FixupContinues ==
  ASSUME NEW p, NEW S, NEW O, Sized(p), Shape(p.code, S, O),
         NEW a \in S, a <= Len(p.code), p.code[a] = "BRANCH",
         NEW f, f = a + 2, NEW q, q = FixupBranch(p, f)
  PROVE  Continues(p, S, O, q, O \ {a}, a)
<1> DEFINE w == <<"END">>
           r == Emit(p, w)
<1>1. a \in Nat /\ 1 <= a
  BY ListLength DEF Shape
<1>2. q = SetJump(r, f, a)
  <2>1. f > 0 /\ f - 2 = a
    BY <1>1
  <2>2. q = SetJump(r, f, f - 2)
    BY <2>1 DEF FixupBranch
  <2> QED
    BY <2>1, <2>2
<1>3. Listed(w) /\ r = Emit(p, w)
  BY OneCell
<1> HIDE DEF r, w
<1>7. /\ Sized(r) /\ r.data = p.data
      /\ \/ r.err = "too long" /\ r.code = p.code
         \/ r.err = p.err /\ p.err # "too long" /\ r.code = p.code \o w
  BY <1>3, Emitted
<1>4. /\ Sized(q) /\ q.data = r.data /\ q.err = r.err
      /\ q.code = Changed(r.code, f, Len(r.code) + 1 - a)
  <2>1. Sized(r)
    BY <1>7
  <2> QED
    BY ONLY <1>2, <2>1, JumpSet
<1>5. CASE q.err = "none"
  <2> DEFINE c == p.code
             d == r.code
             v == Len(d) + 1 - a
  <2>1. d = c \o <<"END">> /\ q.code = Changed(d, a + 2, v) /\ r.err = p.err
    BY <1>4, <1>5, <1>7 DEF w
  <2>2. Shape(c, S, O) /\ a <= Len(c) /\ c[a] = "BRANCH" /\ v = Len(d) + 1 - a
    OBVIOUS
  <2> HIDE DEF c, d, v
  <2>3. Becomes(c, S, O, Changed(d, a + 2, v), S \union {Len(d) + 1}, O \ {a}, a)
    BY ONLY <2>1, <2>2, a \in S, Ended
  <2> QED
    BY <1>4, <2>1, <2>3 DEF Continues, c
<1>6. CASE q.err # "none"
  BY <1>4, <1>6, <1>7 DEF Continues
<1> QED
  BY <1>5, <1>6
(* relocate and set_jump_offset, for an instruction of any kind.           *)
Put(p, b, o) == SetJump(Relocate(p, b, Width(o), o), b + 1, b)

LEMMA PutContinues ==
  ASSUME NEW p, NEW S, NEW O, Sized(p), Shape(p.code, S, O), NEW b, Whole(p.code, S, O, b),
         \A x \in O : x < b, NEW o \in Jumps, NEW q, q = Put(p, b, o)
  PROVE  /\ Continues(p, S, O, q, OpenAfter(O, o, b), b)
         /\ q.err = "none" => b <= Len(q.code) /\ q.code[b] = o
<1> DEFINE k == Width(o)
           r == Relocate(p, b, k, o)
           c == p.code
           O2 == OpenAfter(O, o, b)
<1>1. k \in {2, 3} /\ k \in Nat
  BY OnlyBranch3
<1>2. Listed(c) /\ Len(c) \in Nat /\ b \in Nat /\ 1 <= b /\ b <= Len(c) + 1 /\ Shape(c, S, O)
  BY ListLength DEF Shape, Whole
<1> HIDE DEF c, k
<1>3. r = Relocate(p, b, k, o) /\ b \in Int
  BY <1>2
<1> HIDE DEF r
<1>4. /\ Sized(r) /\ r.data = p.data
      /\ \/ r.err = "too long" /\ r.code = p.code
         \/ r.err = p.err /\ p.err # "too long" /\ r.code = Moved(p.code, b, k, o)
  <2>1. b \in Int
    BY <1>2
  <2>2. k \in Nat
    BY <1>1
  <2>3. r = Relocate(p, b, k, o)
    BY <1>3
  <2> QED
    <3>1. RoomMade(p, b, k, o, r)
      BY ONLY <2>1, <2>2, <2>3, Sized(p), Relocated
    <3> QED
      BY <3>1 DEF RoomMade
<1>5. q = SetJump(r, b + 1, b)
  BY <1>3 DEF Put, k
<1>6. /\ Sized(q) /\ q.data = r.data /\ q.err = r.err
      /\ q.code = Changed(r.code, b + 1, Len(r.code) + 1 - b)
  <2> DEFINE f == b + 1
  <2>1. Sized(r) /\ q = SetJump(r, f, b)
    BY <1>4, <1>5
  <2> HIDE DEF f
  <2>2. /\ Sized(q) /\ q.data = r.data /\ q.err = r.err
        /\ q.code = Changed(r.code, f, Len(r.code) + 1 - b)
    BY ONLY <2>1, JumpSet
  <2> QED
    BY <2>2 DEF f
<1>7. CASE q.err = "none"
  <2> DEFINE d == r.code
             e == q.code
             n == Len(c)
             S2 == Kept(S, b, k, n)
  <2>1. d = Moved(c, b, k, o) /\ e = Changed(d, b + 1, Len(d) + 1 - b) /\ r.err = p.err
    BY <1>4, <1>6, <1>7 DEF c
  <2>2. b <= Len(c) + 1 /\ 1 <= b
    BY <1>2
  <2> HIDE DEF d, e
  <2>3. InPlace(c, b, k, o, e)
    BY ONLY <1>1, <1>2, <2>1, <2>2, InsertedCells
  <2> HIDE DEF n, S2, O2
  <2>4. O2 = OpenAfter(O, o, b) /\ S2 = Kept(S, b, k, Len(c)) /\ k = Width(o)
    BY DEF O2, S2, n, k
  <2>5. Whole(c, S, O, b)
    BY DEF c
  <2>6. Becomes(c, S, O, e, S2, O2, b) /\ b <= Len(e)
    BY ONLY <1>1, <1>2, <2>3, <2>4, <2>5, \A x \in O : x < b, o \in Jumps, Inserted
  <2> QED
    BY <1>6, <2>1, <2>3, <2>6 DEF Continues, c, e, O2, InPlace
<1>8. CASE q.err # "none"
  BY <1>4, <1>6, <1>8 DEF Continues
<1> QED
  BY <1>7, <1>8

LEMMA BranchContinues ==
  ASSUME NEW p, NEW S, NEW O, Sized(p), Shape(p.code, S, O), NEW b, Whole(p.code, S, O, b),
         \A x \in O : x < b, NEW q, q = Branch(p, b)
  PROVE  /\ Continues(p, S, O, q, O \union {b}, b)
         /\ q.err = "none" => b <= Len(q.code) /\ q.code[b] = "BRANCH"
<1> DEFINE o == "BRANCH"
<1>1. o \in Jumps /\ q = Put(p, b, o)
  BY OnlyBranch3 DEF Branch, Put, Jumps
<1>2. o = "BRANCH"
  OBVIOUS
<1> HIDE DEF o
<1>3. /\ Continues(p, S, O, q, OpenAfter(O, o, b), b)
      /\ q.err = "none" => b <= Len(q.code) /\ q.code[b] = o
  BY <1>1, PutContinues
<1> QED
  BY <1>2, <1>3 DEF OpenAfter

LEMMA QuantifyOneContinues ==
  ASSUME NEW p, NEW S, NEW O, Sized(p), Shape(p.code, S, O), NEW b, Whole(p.code, S, O, b),
         \A x \in O : x < b, NEW o \in Loops \union {"QUEST"}, NEW q, q = QuantifyOne(p, b, o)
  PROVE  /\ Continues(p, S, O, q, O, b)
         /\ q.err = "none" => b <= Len(q.code)
<1>1. o \in Jumps /\ q = Put(p, b, o) /\ o # "BRANCH"
  BY OnlyBranch3 DEF QuantifyOne, Put, Jumps, Loops
<1>3. /\ Continues(p, S, O, q, OpenAfter(O, o, b), b)
      /\ q.err = "none" => b <= Len(q.code) /\ q.code[b] = o
  BY <1>1, PutContinues
<1> QED
  BY <1>1, <1>3 DEF OpenAfter

LEMMA JumpSized ==
  ASSUME NEW p, Sized(p), NEW at, NEW from
  PROVE  Sized(SetJump(p, at, from)) /\ SetJump(p, at, from).err = p.err
BY JumpSet

LEMMA PutSized ==
  ASSUME NEW p, Sized(p), NEW b \in Int, NEW o \in Jumps, NEW q, q = Put(p, b, o)
  PROVE  Sized(q) /\ (q.err = p.err \/ q.err = "too long") /\ (p.err = "too long" => q.err = "too long")
<1> DEFINE k == Width(o)
           r == Relocate(p, b, k, o)
           f == b + 1
<1>1. k \in Nat
  BY OnlyBranch3
<1>2. q = SetJump(r, f, b)
  BY DEF Put
<1> HIDE DEF k
<1>3. r = Relocate(p, b, k, o)
  OBVIOUS
<1> HIDE DEF r, f
<1>4. RoomMade(p, b, k, o, r)
  BY ONLY <1>1, <1>3, Sized(p), b \in Int, Relocated
<1>5. Sized(r) /\ (r.err = "too long" \/ (r.err = p.err /\ p.err # "too long"))
  BY <1>4 DEF RoomMade
<1>6. Sized(q) /\ q.err = r.err
  <2>1. Sized(r)
    BY <1>5
  <2>2. Sized(SetJump(r, f, b)) /\ SetJump(r, f, b).err = r.err
    BY ONLY <2>1, JumpSized
  <2> QED
    BY <1>2, <2>2
<1> QED
  BY <1>5, <1>6

CodeSet(p, i, v) == [p EXCEPT !.code[i] = v]

LEMMA CodeChanged ==
  ASSUME NEW p, Sized(p), NEW i, NEW v, NEW q, q = CodeSet(p, i, v)
  PROVE  Sized(q) /\ q.data = p.data /\ q.err = p.err /\ q.code = Changed(p.code, i, v)
<1> DEFINE c == Changed(p.code, i, v)
<1>1. q = [p EXCEPT !.code = c]
  BY DEF Changed, CodeSet
<1>2. Listed(c) /\ Len(c) = Len(p.code)
  <2>1. Listed(p.code)
    BY DEF Sized
  <2> QED
    BY <2>1, ListChange
<1> HIDE DEF c
<1>3. q.code = c /\ q.data = p.data /\ q.err = p.err /\ q = [code |-> q.code, data |-> q.data, err |-> q.err]
  BY <1>1 DEF Sized
<1> QED
  BY <1>2, <1>3 DEF Sized, c

Operand(c, a, v) == Changed(c, a + 2, v)

LengthSet(c, S, O, a, v) ==
  Becomes(c, S, O, Operand(c, a, v), S, O \ {a}, Len(c) + 1) /\ Len(Operand(c, a, v)) = Len(c)

LEMMA ExactSet ==
  ASSUME NEW c, NEW S, NEW O, Shape(c, S, O), NEW a \in S, a <= Len(c), c[a] = "EXACT", NEW v \in Nat
  PROVE  LengthSet(c, S, O, a, v)
<1> DEFINE e == Changed(c, a + 2, v)
           y == Len(c) + 1
<1>1. c[a] \in {"BRANCH", "EXACT"} /\ (c[a] = "BRANCH" => a + v \in S)
  OBVIOUS
<1>2. e = Changed(c, a + 2, v) /\ y = IF c[a] = "EXACT" THEN Len(c) + 1 ELSE a
  OBVIOUS
<1> HIDE DEF e, y
<1>3. Shape(c, S, O) /\ a \in S /\ a <= Len(c) /\ v \in Nat
  OBVIOUS
<1>4. Becomes(c, S, O, e, S, O \ {a}, y)
  BY ONLY <1>1, <1>2, <1>3, OperandSet
<1>5. Len(e) = Len(c)
  BY ListChange DEF Shape, e
<1> QED
  BY <1>4, <1>5 DEF LengthSet, Operand, e, y

LEMMA QuantifyContinues ==
  ASSUME NEW p, NEW S, NEW O, Sized(p), Shape(p.code, S, O), NEW b, Whole(p.code, S, O, b),
         b <= Len(p.code), \A x \in O : x < b, NEW o \in Loops \union {"QUEST"}, NEW q, q = Quantify(p, b, o)
  PROVE  /\ Continues(p, S, O, q, O, b)
         /\ q.err = "none" => b <= Len(q.code)
<1>1. b \in S /\ b \in Nat /\ 1 <= b /\ Len(p.code) \in Nat
  BY ListLength DEF Shape, Whole
<1>2. CASE ~ (p.code[b] = "EXACT" /\ p.code[b + 2] > 1)
  <2>1. q = QuantifyOne(p, b, o)
    BY <1>2 DEF Quantify
  <2> QED
    BY <2>1, QuantifyOneContinues
<1>3. CASE p.code[b] = "EXACT" /\ p.code[b + 2] > 1
  <2> DEFINE c == p.code
             n == c[b + 2] - 1
             at == b + 2
             r == CodeSet(p, at, n)
             w == <<"EXACT", c[b + 1] + n, 1>>
             u == Emit(r, w)
             e == Len(c) + 1
  <2>1. q = QuantifyOne(u, e, o)
    BY <1>3 DEF Quantify, CodeSet
  <2>2. c[b + 2] \in Nat /\ n \in Nat
    <3>1. Instr(p.code, S, O, b)
      BY <1>1 DEF Shape
    <3>2. c[b + 2] \in Nat
      BY <1>3, <3>1 DEF Instr
    <3> QED
      BY <1>3, <3>2
  <2>3. Sized(r) /\ r.data = p.data /\ r.err = p.err /\ r.code = Changed(c, at, n)
    <3> HIDE DEF n, at
    <3>1. r = CodeSet(p, at, n)
      OBVIOUS
    <3> HIDE DEF r
    <3>2. Sized(r) /\ r.data = p.data /\ r.err = p.err /\ r.code = Changed(p.code, at, n)
      BY ONLY <3>1, Sized(p), CodeChanged
    <3> QED
      BY <3>2
  <2>4. O \ {b} = O
    BY <1>3 DEF Shape
  <2>5. Fits(w)
    BY StringFits
  <2>6. u = Emit(r, w) /\ q = QuantifyOne(u, e, o) /\ q = Put(u, e, o) /\ o \in Jumps
    <3>1. Width(o) = 2 /\ o \in Jumps
      BY OnlyBranch3 DEF Jumps
    <3> HIDE DEF u, e
    <3> QED
      BY <2>1, <3>1 DEF u, QuantifyOne, Put
  <2>7. e \in Nat /\ e = Len(c) + 1 /\ at = b + 2 /\ b <= e
    BY <1>1
  <2>8. Shape(c, S, O) /\ c[b] = "EXACT" /\ Whole(c, S, O, b)
    BY <1>3
  <2> HIDE DEF n, r, w, u, e, at, c
  <2>9. Becomes(c, S, O, r.code, S, O, e) /\ Len(r.code) = Len(c)
    <3> DEFINE d == r.code
    <3>1. d = Operand(c, b, n)
      BY <2>3, <2>7 DEF Operand
    <3>2. c[b] = "EXACT"
      BY <2>8
    <3>4. b <= Len(c)
      BY DEF c
    <3>5. b \in S
      BY <1>1
    <3>6. n \in Nat
      BY <2>2
    <3>7. Shape(c, S, O)
      BY <2>8
    <3> HIDE DEF d
    <3>3. LengthSet(c, S, O, b, n)
      BY ONLY <3>2, <3>4, <3>5, <3>6, <3>7, ExactSet
    <3> QED
      BY <2>4, <2>7, <3>1, <3>3 DEF d, LengthSet
  <2>10. Continues(r, S, O, u, O, e)
    <3>1. Shape(r.code, S, O)
      BY <2>9 DEF Becomes
    <3>2. Continues(r, S, O, u, O, Len(r.code) + 1)
      BY <2>3, <2>5, <2>6, <3>1, EmitContinues
    <3> QED
      BY <2>7, <2>9, <3>2
  <2>11. CASE u.err = "none"
    <3>1. PICK T : Becomes(r.code, S, O, u.code, T, O, e)
      BY <2>10, <2>11 DEF Continues
    <3>2. Becomes(c, S, O, u.code, T, O, e)
      BY <2>7, <2>8, <2>9, <3>1, TwoBecomings
    <3>3. Whole(c, S, O, e) /\ e \in S
      BY <2>7, <2>8, EndWhole DEF Whole
    <3>4. Shape(u.code, T, O) /\ Whole(u.code, T, O, e)
      BY <2>7, <3>2, <3>3 DEF Becomes
    <3>5. \A x \in O : x < e
      <4>1. \A x \in O : x \in Nat /\ x <= Len(c)
        BY <2>8 DEF Shape
      <4> QED
        BY <1>1, <2>7, <4>1 DEF c
    <3>6. Sized(u)
      BY <2>10 DEF Continues
    <3>7. Continues(u, T, O, q, O, e) /\ (q.err = "none" => e <= Len(q.code))
      BY ONLY <2>6, <3>4, <3>5, <3>6, o \in Loops \union {"QUEST"}, QuantifyOneContinues
    <3>8. CASE q.err = "none"
      <4>1. PICK U : Becomes(u.code, T, O, q.code, U, O, e)
        BY <3>7, <3>8 DEF Continues
      <4>2. Becomes(c, S, O, q.code, U, O, e)
        BY <2>7, <2>8, <3>2, <4>1, TwoBecomings
      <4>3. Becomes(c, S, O, q.code, U, O, b)
        <5>1. \A x \in S : x \in Nat /\ (x <= b => x <= e) /\ (x < b => x < e)
          BY <1>1, <2>7, <2>8 DEF Shape
        <5> QED
          BY <4>2, <5>1 DEF Becomes
      <4>4. b <= Len(q.code)
        <5>1. Shape(q.code, U, O)
          BY <4>2 DEF Becomes
        <5>2. Len(q.code) \in Nat
          BY <5>1, ListLength DEF Shape
        <5> QED
          BY <1>1, <2>7, <3>7, <3>8, <5>2
      <4>5. p.err = "none"
        BY <2>3, <2>11, <2>10 DEF Continues
      <4> QED
        BY <3>7, <3>8, <4>3, <4>4, <4>5 DEF Continues, c
    <3>9. CASE q.err # "none"
      BY <2>3, <2>10, <3>7, <3>9 DEF Continues
    <3> QED
      BY <3>8, <3>9
  <2>12. CASE u.err # "none"
    <3>1. Sized(u) /\ (u.err = p.err \/ u.err = "too long")
      BY <2>3, <2>10 DEF Continues
    <3>2. e \in Int /\ q = Put(u, e, o) /\ o \in Jumps
      BY <2>6, <2>7
    <3>3. Sized(u)
      BY <3>1
    <3>4. Sized(q) /\ (q.err = u.err \/ q.err = "too long")
      BY ONLY <3>2, <3>3, PutSized
    <3>5. q.err # "none"
      BY <2>12, <3>4
    <3>6. q.err = p.err \/ q.err = "too long"
      BY <3>1, <3>4
    <3> QED
      BY <3>4, <3>5, <3>6 DEF Continues
  <2> QED
    BY <2>11, <2>12
<1> QED
  BY <1>2, <1>3

-----------------------------------------------------------------------------
(* The calls of compile while the code grows.                              *)

LEMMA Weaker ==
  ASSUME NEW c, NEW S, NEW O, NEW d, NEW S2, NEW O2, Shape(c, S, O), NEW a \in Nat, NEW b \in Nat, b <= a,
         Becomes(c, S, O, d, S2, O2, a)
  PROVE  Becomes(c, S, O, d, S2, O2, b)
<1>1. \A x \in S : x \in Nat
  BY ListLength DEF Shape
<1>2. \A x \in S : (x <= b => x <= a) /\ (x < b => x < a)
  BY <1>1
<1> QED
  BY <1>2 DEF Becomes

LEMMA FrameKept ==
  ASSUME NEW c, NEW S, NEW O, NEW d, NEW S2, NEW O2, NEW b, Becomes(c, S, O, d, S2, O2, b), NEW f,
         FrameOK(c, f, S, O), f.branch_start <= b, Opened(f) => f.branch_start < b
  PROVE  FrameOK(d, f, S2, O2)
<1>1. f.branch_start \in S /\ Whole(d, S2, O2, f.branch_start)
  BY DEF FrameOK, Becomes, Whole
<1>2. ASSUME Opened(f) PROVE f.branch_start <= Len(d) /\ d[f.branch_start] = "BRANCH"
  BY <1>1, <1>2 DEF FrameOK, Becomes
<1> QED
  BY <1>1, <1>2 DEF FrameOK

LEMMA LastKept ==
  ASSUME NEW c, NEW S, NEW O, NEW d, NEW S2, NEW O2, NEW b, Becomes(c, S, O, d, S2, O2, b), NEW f,
         LastOK(c, f, S, O), f.last_op <= b
  PROVE  LastOK(d, f, S2, O2)
BY DEF LastOK, Becomes, Whole

LEMMA Restacked ==
  ASSUME NEW c, NEW S, NEW O, NEW d, NEW S2, NEW O2, NEW b \in Nat, Becomes(c, S, O, d, S2, O2, b),
         NEW fs \in Seq(CallsOfCompile), fs # <<>>, Calls(c, fs, S, O), NEW n, n = Len(fs), fs[n].branch_start <= b,
         NEW g, g.branch_start = fs[n].branch_start, g.level = fs[n].level, FrameOK(d, g, S2, O2),
         \A o \in O2 : (o \in O /\ o # g.branch_start) \/ (Opened(g) /\ o = g.branch_start),
         NEW gs, gs = Changed(fs, n, g)
  PROVE  Calls(d, gs, S2, O2)
<1>1. n \in Nat /\ n > 0 /\ n \in DOMAIN fs /\ Listed(fs) /\ DOMAIN fs = 1 .. n /\ 1 \in DOMAIN fs
  BY DEF Listed
<1>2. DOMAIN gs = 1 .. n /\ Len(gs) = n /\ gs[n] = g /\ \A j \in 1 .. n : j # n => gs[j] = fs[j]
  BY <1>1, ListChange, ListLength
<1>3. ASSUME NEW j \in 1 .. n, j # n
      PROVE  /\ fs[j].branch_start < fs[n].branch_start /\ fs[j].last_op < fs[n].branch_start
             /\ fs[j].branch_start \in Nat /\ fs[j].last_op \in Nat /\ fs[n].branch_start \in Nat
             /\ FrameOK(c, fs[j], S, O) /\ LastOK(c, fs[j], S, O)
  <2>1. j < n /\ j \in DOMAIN fs
    BY <1>1, <1>3
  <2>2. fs[j] \in CallsOfCompile /\ fs[n] \in CallsOfCompile
    BY <1>1
  <2> QED
    BY <1>1, <2>1, <2>2 DEF Calls, Nested, CallsOfCompile
<1>4. ASSUME NEW j \in 1 .. n, j # n
      PROVE  FrameOK(d, fs[j], S2, O2) /\ LastOK(d, fs[j], S2, O2)
  <2>1. fs[j].branch_start < b /\ fs[j].branch_start <= b /\ fs[j].last_op <= b
    BY <1>3, <1>4
  <2>2. FrameOK(c, fs[j], S, O) /\ LastOK(c, fs[j], S, O)
    BY <1>3, <1>4
  <2>3. FrameOK(d, fs[j], S2, O2)
    BY <2>1, <2>2, FrameKept
  <2>4. LastOK(d, fs[j], S2, O2)
    BY <2>1, <2>2, LastKept
  <2> QED
    BY <2>3, <2>4
<1>5. \A k \in DOMAIN gs : FrameOK(d, gs[k], S2, O2)
  BY <1>2, <1>4
<1>6. \A k \in DOMAIN gs : k < Len(gs) => LastOK(d, gs[k], S2, O2)
  BY <1>1, <1>2, <1>4
<1>7. Nested(gs)
  <2> SUFFICES ASSUME NEW j \in 1 .. n, NEW k \in 1 .. n, j < k
               PROVE  gs[j].branch_start < gs[k].branch_start /\ gs[j].last_op < gs[k].branch_start
    BY <1>2 DEF Nested
  <2>1. gs[j] = fs[j] /\ gs[k].branch_start = fs[k].branch_start
    BY <1>1, <1>2
  <2> QED
    BY <1>1, <2>1 DEF Calls, Nested
<1>8. ASSUME NEW o \in O2 PROVE \E k \in DOMAIN gs : Opened(gs[k]) /\ o = gs[k].branch_start
  <2>1. CASE Opened(g) /\ o = g.branch_start
    BY <1>1, <1>2, <2>1
  <2>2. CASE o \in O /\ o # g.branch_start
    <3>1. PICK k \in DOMAIN fs : Opened(fs[k]) /\ o = fs[k].branch_start
      BY <2>2 DEF Calls
    <3>2. k \in 1 .. n /\ k # n
      BY <1>1, <2>2, <3>1
    <3> QED
      BY <1>2, <3>1, <3>2
  <2> QED
    BY <2>1, <2>2
<1>9. gs[1].branch_start = 3 /\ gs[1].level = 0
  BY <1>1, <1>2 DEF Calls
<1> QED
  BY <1>5, <1>6, <1>7, <1>8, <1>9 DEF Calls

PoppedTo(d, gs, S, O, b, S1) ==
  /\ Calls(d, gs, S, O) /\ gs \in Seq(CallsOfCompile) /\ gs # <<>>
  /\ LastOK(d, gs[Len(gs)], S, O) /\ gs[Len(gs)].last_op < b /\ gs[Len(gs)].last_op \in S1

LEMMA Popped ==
  ASSUME NEW c, NEW S, NEW O, NEW d, NEW S2, NEW O2, NEW b \in Nat, Becomes(c, S, O, d, S2, O2, b),
         NEW fs \in Seq(CallsOfCompile), NEW n, n = Len(fs), n > 1, Calls(c, fs, S, O), fs[n].branch_start <= b,
         \A o \in O2 : o \in O /\ o # fs[n].branch_start,
         NEW gs, gs = SubSeq(fs, 1, n - 1)
  PROVE  PoppedTo(d, gs, S2, O2, b, S)
<1>1. n \in Nat /\ n \in DOMAIN fs /\ DOMAIN fs = 1 .. n /\ 1 \in DOMAIN fs /\ 1 < n /\ n - 1 \in Nat /\ 1 <= n - 1
  OBVIOUS
<1>2. gs \in Seq(CallsOfCompile) /\ Len(gs) = n - 1 /\ \A j \in 1 .. n - 1 : gs[j] = fs[j]
  BY <1>1
<1>21. DOMAIN gs = 1 .. n - 1 /\ gs # <<>>
  <2>1. gs \in Seq(CallsOfCompile) /\ Len(gs) = n - 1 /\ n - 1 # 0
    BY <1>1, <1>2
  <2>2. DOMAIN gs = 1 .. Len(gs)
    BY ONLY <2>1
  <2>3. gs # <<>>
    BY ONLY <2>1
  <2> QED
    BY <2>1, <2>2, <2>3
<1>3. ASSUME NEW j \in 1 .. n - 1
      PROVE  /\ fs[j].branch_start < fs[n].branch_start /\ fs[j].last_op < fs[n].branch_start
             /\ fs[j].branch_start \in Nat /\ fs[j].last_op \in Nat /\ fs[n].branch_start \in Nat
             /\ FrameOK(c, fs[j], S, O) /\ LastOK(c, fs[j], S, O)
  <2>1. j < n /\ j \in DOMAIN fs
    BY <1>1, <1>3
  <2>2. fs[j] \in CallsOfCompile /\ fs[n] \in CallsOfCompile
    BY <1>1
  <2> QED
    BY <1>1, <2>1, <2>2 DEF Calls, Nested, CallsOfCompile
<1>4. ASSUME NEW j \in 1 .. n - 1
      PROVE  FrameOK(d, fs[j], S2, O2) /\ LastOK(d, fs[j], S2, O2) /\ fs[j].last_op < b
  <2>1. fs[j].branch_start < b /\ fs[j].branch_start <= b /\ fs[j].last_op <= b /\ fs[j].last_op < b
    BY <1>3
  <2>2. FrameOK(c, fs[j], S, O) /\ LastOK(c, fs[j], S, O)
    BY <1>3
  <2>3. FrameOK(d, fs[j], S2, O2)
    BY <2>1, <2>2, FrameKept
  <2>4. LastOK(d, fs[j], S2, O2)
    BY <2>1, <2>2, LastKept
  <2> QED
    BY <2>1, <2>3, <2>4
<1>5. \A k \in DOMAIN gs : FrameOK(d, gs[k], S2, O2) /\ LastOK(d, gs[k], S2, O2) /\ gs[k].last_op < b
  BY <1>2, <1>21, <1>4
<1>7. Nested(gs)
  <2> SUFFICES ASSUME NEW j \in 1 .. n - 1, NEW k \in 1 .. n - 1, j < k
               PROVE  gs[j].branch_start < gs[k].branch_start /\ gs[j].last_op < gs[k].branch_start
    BY <1>21 DEF Nested
  <2>1. gs[j] = fs[j] /\ gs[k] = fs[k]
    BY <1>1, <1>2
  <2>2. j \in DOMAIN fs /\ k \in DOMAIN fs
    BY <1>1
  <2> QED
    BY <2>1, <2>2 DEF Calls, Nested
<1>8. ASSUME NEW o \in O2 PROVE \E k \in DOMAIN gs : Opened(gs[k]) /\ o = gs[k].branch_start
  <2>1. PICK k \in DOMAIN fs : Opened(fs[k]) /\ o = fs[k].branch_start
    BY DEF Calls
  <2>2. k \in 1 .. n - 1
    BY <1>1, <2>1
  <2> QED
    BY <1>2, <1>21, <2>1, <2>2
<1>9. gs[1].branch_start = 3 /\ gs[1].level = 0
  BY <1>1, <1>2 DEF Calls
<1>10. Len(gs) \in DOMAIN gs /\ gs[Len(gs)] = fs[n - 1] /\ n - 1 \in 1 .. n - 1
  BY <1>1, <1>2, <1>21
<1>11. fs[n - 1].last_op \in S
  BY <1>3, <1>10 DEF LastOK, Whole
<1> QED
  BY <1>2, <1>21, <1>5, <1>7, <1>8, <1>9, <1>10, <1>11 DEF Calls, PoppedTo

PushedOn(d, gs, S, O, h) ==
  Calls(d, gs, S, O) /\ gs \in Seq(CallsOfCompile) /\ gs # <<>> /\ gs[Len(gs)] = h

LEMMA Pushed ==
  ASSUME NEW d, NEW S, NEW O, NEW fs \in Seq(CallsOfCompile), fs # <<>>, Calls(d, fs, S, O),
         NEW n, n = Len(fs), LastOK(d, fs[n], S, O), NEW h \in CallsOfCompile, FrameOK(d, h, S, O),
         fs[n].branch_start < h.branch_start, fs[n].last_op < h.branch_start,
         NEW gs, gs = Append(fs, h)
  PROVE  PushedOn(d, gs, S, O, h)
<1>1. n \in Nat /\ n \in DOMAIN fs /\ DOMAIN fs = 1 .. n /\ 1 \in DOMAIN fs /\ n + 1 \in Nat
  OBVIOUS
<1>2. /\ gs \in Seq(CallsOfCompile) /\ Len(gs) = n + 1 /\ DOMAIN gs = 1 .. n + 1
      /\ gs[n + 1] = h /\ \A j \in 1 .. n : gs[j] = fs[j]
  BY <1>1
<1>3. ASSUME NEW j \in 1 .. n PROVE fs[j].branch_start < h.branch_start /\ fs[j].last_op < h.branch_start
  <2>1. j \in DOMAIN fs /\ fs[j] \in CallsOfCompile /\ fs[n] \in CallsOfCompile /\ (j = n \/ j < n)
    BY <1>1
  <2>2. j < n => fs[j].branch_start < fs[n].branch_start /\ fs[j].last_op < fs[n].branch_start
    BY <1>1, <2>1 DEF Calls, Nested
  <2>3. /\ fs[j].branch_start \in Nat /\ fs[j].last_op \in Nat /\ fs[n].branch_start \in Nat
        /\ h.branch_start \in Nat
    BY <2>1 DEF CallsOfCompile
  <2> QED
    BY <2>1, <2>2, <2>3
<1>4. \A k \in DOMAIN gs : FrameOK(d, gs[k], S, O)
  BY <1>1, <1>2 DEF Calls
<1>5. \A k \in DOMAIN gs : k < Len(gs) => LastOK(d, gs[k], S, O)
  <2> SUFFICES ASSUME NEW k \in 1 .. n PROVE LastOK(d, fs[k], S, O)
    BY <1>1, <1>2
  <2>1. k = n \/ (k < n /\ k \in DOMAIN fs)
    BY <1>1
  <2> QED
    BY <2>1 DEF Calls
<1>6. Nested(gs)
  <2> SUFFICES ASSUME NEW j \in 1 .. n + 1, NEW k \in 1 .. n + 1, j < k
               PROVE  gs[j].branch_start < gs[k].branch_start /\ gs[j].last_op < gs[k].branch_start
    BY <1>2 DEF Nested
  <2>1. j \in 1 .. n /\ gs[j] = fs[j]
    BY <1>1, <1>2
  <2>2. CASE k = n + 1
    BY <1>2, <1>3, <2>1, <2>2
  <2>3. CASE k # n + 1
    <3>1. k \in DOMAIN fs /\ j \in DOMAIN fs /\ gs[k] = fs[k]
      BY <1>1, <1>2, <2>1, <2>3
    <3> QED
      BY <2>1, <3>1 DEF Calls, Nested
  <2> QED
    BY <2>2, <2>3
<1>7. ASSUME NEW o \in O PROVE \E k \in DOMAIN gs : Opened(gs[k]) /\ o = gs[k].branch_start
  <2>1. PICK k \in DOMAIN fs : Opened(fs[k]) /\ o = fs[k].branch_start
    BY DEF Calls
  <2>2. k \in DOMAIN gs /\ gs[k] = fs[k]
    BY <1>1, <1>2
  <2> QED
    BY <2>1, <2>2
<1>8. gs[1].branch_start = 3 /\ gs[1].level = 0
  BY <1>1, <1>2 DEF Calls
<1> QED
  BY <1>2, <1>4, <1>5, <1>6, <1>7, <1>8 DEF Calls, PushedOn

-----------------------------------------------------------------------------
(* What one step of compile makes of the calls.                            *)

Stands(c, fs, S, O) ==
  Shape(c, S, O) /\ Calls(c, fs, S, O) /\ LastOK(c, fs[Len(fs)], S, O)

Mark(fs, e) == Changed(fs, Len(fs), [fs[Len(fs)] EXCEPT !.last_op = e])

LEMMA TopCall ==
  ASSUME NEW fs \in Seq(CallsOfCompile), fs # <<>>
  PROVE  /\ Len(fs) \in Nat /\ Len(fs) > 0 /\ Len(fs) \in DOMAIN fs /\ fs[Len(fs)] \in CallsOfCompile
         /\ fs[Len(fs)].branch_start \in Nat /\ fs[Len(fs)].last_op \in Nat
         /\ fs[Len(fs)].fixup \in Nat /\ fs[Len(fs)].level \in Nat
<1>1. Len(fs) \in Nat /\ Len(fs) > 0 /\ Len(fs) \in DOMAIN fs
  <2>1. Len(fs) \in Nat /\ DOMAIN fs = 1 .. Len(fs)
    OBVIOUS
  <2>2. Len(fs) # 0
    OBVIOUS
  <2> QED
    BY <2>1, <2>2
<1>2. fs[Len(fs)] \in CallsOfCompile
  BY <1>1
<1> QED
  BY <1>1, <1>2 DEF CallsOfCompile

LEMMA TopPlace ==
  ASSUME NEW c, NEW S, NEW O, NEW fs \in Seq(CallsOfCompile), fs # <<>>, Shape(c, S, O), Calls(c, fs, S, O)
  PROVE  /\ fs[Len(fs)].branch_start \in S /\ fs[Len(fs)].branch_start <= Len(c) + 1
         /\ FrameOK(c, fs[Len(fs)], S, O)
         /\ Opened(fs[Len(fs)]) => fs[Len(fs)].branch_start <= Len(c)
         /\ \A o \in O : o <= fs[Len(fs)].branch_start
                         /\ (o = fs[Len(fs)].branch_start => Opened(fs[Len(fs)]))
<1> DEFINE n == Len(fs)
<1>1. n \in Nat /\ n \in DOMAIN fs /\ DOMAIN fs = 1 .. n
  BY TopCall
<1> HIDE DEF n
<1>2. FrameOK(c, fs[n], S, O)
  BY <1>1 DEF Calls
<1>3. fs[n].branch_start \in S /\ (Opened(fs[n]) => fs[n].branch_start <= Len(c))
  BY <1>2 DEF FrameOK, Whole
<1>4. fs[n].branch_start <= Len(c) + 1
  <2>1. Len(c) \in Nat /\ S \subseteq 1 .. Len(c) + 1
    BY ListLength DEF Shape
  <2>2. fs[n].branch_start \in S
    BY <1>3
  <2>3. fs[n].branch_start \in 1 .. Len(c) + 1
    BY ONLY <2>1, <2>2
  <2> QED
    BY ONLY <2>1, <2>3
<1>5. ASSUME NEW o \in O
      PROVE  o <= fs[n].branch_start /\ (o = fs[n].branch_start => Opened(fs[n]))
  <2>1. PICK k \in DOMAIN fs : Opened(fs[k]) /\ o = fs[k].branch_start
    BY DEF Calls
  <2>2. CASE k = n
    <3>1. fs[n].branch_start \in Nat
      BY TopCall DEF n
    <3> QED
      BY <2>1, <2>2, <3>1
  <2>3. CASE k # n
    <3>1. k < n
      BY <1>1, <2>3
    <3>2. fs[k].branch_start < fs[n].branch_start
      BY <1>1, <3>1 DEF Calls, Nested
    <3>3. fs[k] \in CallsOfCompile /\ fs[n] \in CallsOfCompile
      BY <1>1
    <3>4. fs[k].branch_start \in Nat /\ fs[n].branch_start \in Nat
      BY <3>3 DEF CallsOfCompile
    <3> QED
      BY <2>1, <3>2, <3>4
  <2> QED
    BY <2>2, <2>3
<1> QED
  BY <1>2, <1>3, <1>4, <1>5 DEF n

(* An instruction is added: it is what the next quantifier is for, *)
LEMMA MarkGrown ==
  ASSUME NEW c, NEW S, NEW O, NEW fs \in Seq(CallsOfCompile), fs # <<>>, Shape(c, S, O), Calls(c, fs, S, O),
         NEW d, NEW S2, NEW e, e = Len(c) + 1, Becomes(c, S, O, d, S2, O, e)
  PROVE  Stands(d, Mark(fs, e), S2, O)
<1> DEFINE n == Len(fs)
           f == fs[n]
           g == [f EXCEPT !.last_op = e]
           gs == Changed(fs, n, g)
<1>1. n = Len(fs) /\ n \in 1 .. n /\ f \in CallsOfCompile
  BY TopCall
<1>2. g.branch_start = f.branch_start /\ g.level = f.level /\ g.fixup = f.fixup /\ g.last_op = e
  BY <1>1 DEF CallsOfCompile
<1>3. e \in Nat /\ Len(c) \in Nat
  BY ListLength DEF Shape
<1>4. /\ f.branch_start <= e /\ f.branch_start \in Nat /\ FrameOK(c, f, S, O)
      /\ Opened(f) => f.branch_start < e
      /\ \A o \in O : o = f.branch_start => Opened(f)
  <2>1. f.branch_start \in Nat
    BY TopCall
  <2> QED
    BY <1>3, <2>1, TopPlace
<1> HIDE DEF n, f, g
<1>5. FrameOK(d, f, S2, O)
  BY <1>4, FrameKept
<1>6. FrameOK(d, g, S2, O)
  BY <1>2, <1>5 DEF FrameOK, Opened
<1>7. \A o \in O : (o \in O /\ o # g.branch_start) \/ (Opened(g) /\ o = g.branch_start)
  BY <1>2, <1>4 DEF Opened
<1>8. gs = Changed(fs, n, g) /\ g.branch_start = fs[n].branch_start /\ g.level = fs[n].level /\ fs[n].branch_start <= e
  BY <1>2, <1>4 DEF f
<1> HIDE DEF gs
<1>9. Calls(d, gs, S2, O)
  BY ONLY <1>1, <1>3, <1>6, <1>7, <1>8, fs \in Seq(CallsOfCompile), fs # <<>>, Calls(c, fs, S, O),
          Becomes(c, S, O, d, S2, O, e), Restacked
<1>10. LastOK(d, g, S2, O)
  <2>1. Whole(c, S, O, e) /\ e \in S
    BY EndWhole DEF Shape
  <2>2. Whole(d, S2, O, e)
    BY <1>3, <2>1 DEF Becomes
  <2> QED
    BY <1>2, <1>4, <2>2 DEF LastOK, Opened
<1>11. Len(gs) = n /\ gs[n] = g
  <2>1. Listed(fs)
    BY DEF Listed
  <2> QED
    BY <1>1, <1>8, <2>1, ListChange
<1>12. gs = Mark(fs, e)
  BY DEF gs, g, f, n, Mark
<1> QED
  BY <1>9, <1>10, <1>11, <1>12 DEF Stands, Becomes

(* or it is not. *)
LEMMA KeepGrown ==
  ASSUME NEW c, NEW S, NEW O, NEW fs \in Seq(CallsOfCompile), fs # <<>>, Shape(c, S, O), Calls(c, fs, S, O),
         NEW d, NEW S2, NEW b \in Nat, Becomes(c, S, O, d, S2, O, b),
         fs[Len(fs)].branch_start <= b, Opened(fs[Len(fs)]) => fs[Len(fs)].branch_start < b
  PROVE  Calls(d, fs, S2, O)
<1> DEFINE n == Len(fs)
           f == fs[n]
           gs == Changed(fs, n, f)
<1>1. n = Len(fs) /\ n \in 1 .. n /\ f \in CallsOfCompile
  BY TopCall
<1>2. f.branch_start <= b /\ FrameOK(c, f, S, O) /\ (Opened(f) => f.branch_start < b)
      /\ \A o \in O : o = f.branch_start => Opened(f)
  BY TopPlace
<1>3. gs = fs
  BY DEF Changed
<1> HIDE DEF n, f, gs
<1>4. FrameOK(d, f, S2, O)
  BY <1>2, FrameKept
<1>5. \A o \in O : (o \in O /\ o # f.branch_start) \/ (Opened(f) /\ o = f.branch_start)
  BY <1>2
<1>6. gs = Changed(fs, n, f) /\ f.branch_start = fs[n].branch_start /\ f.level = fs[n].level /\ fs[n].branch_start <= b
  BY <1>2 DEF f, gs
<1>7. Calls(d, gs, S2, O)
  BY ONLY <1>1, <1>4, <1>5, <1>6, b \in Nat, fs \in Seq(CallsOfCompile), fs # <<>>, Calls(c, fs, S, O),
          Becomes(c, S, O, d, S2, O, b), Restacked
<1> QED
  BY <1>3, <1>7

LEMMA Same ==
  ASSUME NEW c, NEW S, NEW O, Shape(c, S, O), NEW b
  PROVE  Becomes(c, S, O, c, S, O, b)
BY DEF Becomes

LEMMA MarkIs ==
  ASSUME NEW fs \in Seq(CallsOfCompile), fs # <<>>, NEW e \in Nat
  PROVE  /\ Mark(fs, e) \in Seq(CallsOfCompile) /\ Mark(fs, e) # <<>> /\ Len(Mark(fs, e)) = Len(fs)
         /\ Mark(fs, e)[Len(fs)] = [fs[Len(fs)] EXCEPT !.last_op = e]
         /\ Mark(fs, e)[Len(fs)].last_op = e
         /\ Mark(fs, e)[Len(fs)].branch_start = fs[Len(fs)].branch_start
         /\ Mark(fs, e) = [fs EXCEPT ![Len(fs)] = [fs[Len(fs)] EXCEPT !.last_op = e]]
<1> DEFINE n == Len(fs)
           g == [fs[n] EXCEPT !.last_op = e]
           gs == [fs EXCEPT ![n] = g]
<1>1. n \in 1 .. n /\ n \in Nat /\ n > 0 /\ fs[n] \in CallsOfCompile /\ n \in DOMAIN fs
  BY TopCall
<1>2. g \in CallsOfCompile /\ g.last_op = e /\ g.branch_start = fs[n].branch_start
  BY <1>1 DEF CallsOfCompile
<1> HIDE DEF g
<1>3. gs \in Seq(CallsOfCompile) /\ Len(gs) = n /\ gs[n] = g
  BY <1>1, <1>2
<1>4. gs # <<>>
  <2>1. gs \in Seq(CallsOfCompile) /\ Len(gs) # 0
    BY <1>1, <1>3
  <2> QED
    BY ONLY <2>1
<1>5. Mark(fs, e) = gs
  BY DEF Mark, Changed, g
<1> QED
  BY <1>2, <1>3, <1>4, <1>5 DEF g

LEMMA MarkedPossible ==
  ASSUME NEW c, NEW S, NEW O, NEW fs \in Seq(CallsOfCompile), fs # <<>>, Shape(c, S, O), Calls(c, fs, S, O),
         NEW d, NEW S2, NEW e, e = Len(c) + 1, Becomes(c, S, O, d, S2, O, e),
         NEW s, Len(c) < Len(d) \/ s # NoSet, NEW r, NEW i, NEW m
  PROVE  Possible(d, Mark(fs, e), s, r, i, m)
<1>1. Stands(d, Mark(fs, e), S2, O)
  BY MarkGrown
<1>2. e \in Nat /\ Len(c) \in Nat
  BY ListLength DEF Shape
<1>3. Mark(fs, e) # <<>> /\ Len(Mark(fs, e)) = Len(fs) /\ Mark(fs, e)[Len(fs)].last_op = e
  BY <1>2, MarkIs
<1>4. Shape(d, S2, O) /\ Len(d) \in Nat
  BY <1>1, ListLength DEF Stands, Shape
<1>5. e <= Len(d) \/ s # NoSet
  BY <1>2, <1>4
<1> DEFINE gs == Mark(fs, e)
           f == gs[Len(gs)]
<1>6. gs # <<>> /\ f.last_op = e /\ LastOK(d, f, S2, O) /\ Calls(d, gs, S2, O)
  BY <1>1, <1>3 DEF Stands
<1> HIDE DEF gs
<1>7. LastAt(d, gs[Len(gs)], S2, O, s, r, i)
  BY <1>5, <1>6 DEF LastAt
<1>8. Coherent(d, gs, S2, O, s, r, i, m)
  BY <1>4, <1>6, <1>7 DEF Coherent
<1> QED
  BY <1>8 DEF Possible, gs

LEMMA KeptPossible ==
  ASSUME NEW c, NEW S, NEW O, NEW fs \in Seq(CallsOfCompile), fs # <<>>, Shape(c, S, O), Calls(c, fs, S, O),
         LastOK(c, fs[Len(fs)], S, O),
         NEW d, NEW S2, NEW e, e = Len(c) + 1, Becomes(c, S, O, d, S2, O, e),
         NEW s, Len(c) < Len(d) \/ s # NoSet, NEW r, NEW i, NEW m
  PROVE  Possible(d, fs, s, r, i, m)
<1> DEFINE f == fs[Len(fs)]
<1>1. e \in Nat /\ Len(c) \in Nat /\ S \subseteq 1 .. Len(c) + 1
  BY ListLength DEF Shape
<1>2. f.branch_start <= e /\ (Opened(f) => f.branch_start < e) /\ f.branch_start \in Nat
  <2>1. f.branch_start \in Nat
    BY TopCall
  <2> QED
    BY <1>1, <2>1, TopPlace
<1>3. Calls(d, fs, S2, O)
  BY <1>1, <1>2, KeepGrown
<1>4. f.last_op \in S
  BY DEF LastOK, Whole
<1> HIDE DEF f
<1>5. f.last_op \in 1 .. Len(c) + 1
  BY ONLY <1>1, <1>4
<1>6. LastOK(d, f, S2, O)
  <2>1. f.last_op <= e
    BY <1>1, <1>5
  <2>2. LastOK(c, f, S, O)
    BY DEF f
  <2> QED
    BY <2>1, <2>2, LastKept
<1>7. Shape(d, S2, O) /\ Len(d) \in Nat
  BY ListLength DEF Becomes, Shape
<1>8. f.last_op <= Len(d) \/ s # NoSet
  BY <1>1, <1>5, <1>7
<1>9. LastAt(d, fs[Len(fs)], S2, O, s, r, i)
  BY <1>6, <1>8 DEF LastAt, f
<1> QED
  BY <1>3, <1>7, <1>9 DEF Coherent, Possible

LEMMA AnchorPossible ==
  ASSUME NEW c, NEW S, NEW O, NEW fs \in Seq(CallsOfCompile), fs # <<>>, NEW r, NEW i \in Nat, NEW m,
         Coherent(c, fs, S, O, NoSet, r, i, m), r[i] \in {"^", "$"},
         NEW d, NEW S2, NEW e, e = Len(c) + 1, Becomes(c, S, O, d, S2, O, e), Len(c) < Len(d)
  PROVE  Possible(d, fs, NoSet, r, i + 1, m)
<1>1. Shape(c, S, O) /\ Calls(c, fs, S, O) /\ LastAt(c, fs[Len(fs)], S, O, NoSet, r, i)
  BY DEF Coherent
<1>2. CASE LastOK(c, fs[Len(fs)], S, O)
  BY <1>1, <1>2, KeptPossible
<1>3. CASE AfterBar(r, i)
  <2>1. AfterBar(r, i + 1)
    <3>1. PICK k \in 1 .. i - 1 : r[k] = "|" /\ ~ Escaped(r, k) /\ \A j \in k + 1 .. i - 1 : r[j] \in {"^", "$"}
      BY <1>3 DEF AfterBar
    <3>2. k \in 1 .. (i + 1) - 1 /\ \A j \in k + 1 .. (i + 1) - 1 : r[j] \in {"^", "$"}
      BY <3>1
    <3> QED
      BY <3>1, <3>2 DEF AfterBar
  <2> DEFINE f == fs[Len(fs)]
  <2>2. e \in Nat /\ Len(c) \in Nat
    BY ListLength, <1>1 DEF Shape
  <2>3. f.branch_start <= e /\ (Opened(f) => f.branch_start < e)
    <3>1. f.branch_start \in Nat
      BY TopCall
    <3> QED
      BY <1>1, <2>2, <3>1, TopPlace
  <2>4. Calls(d, fs, S2, O)
    BY <1>1, <2>2, <2>3, KeepGrown
  <2>5. Shape(d, S2, O)
    BY DEF Becomes
  <2>6. LastAt(d, fs[Len(fs)], S2, O, NoSet, r, i + 1)
    BY <2>1 DEF LastAt
  <2> QED
    BY <2>4, <2>5, <2>6 DEF Coherent, Possible
<1> QED
  BY <1>1, <1>2, <1>3 DEF LastAt

LEMMA OpenPossible ==
  ASSUME NEW c, NEW S, NEW O, NEW fs \in Seq(CallsOfCompile), fs # <<>>, Shape(c, S, O), Calls(c, fs, S, O),
         NEW d, NEW S2, NEW e, e = Len(c) + 1, Becomes(c, S, O, d, S2, O, e), Len(c) < Len(d),
         NEW l \in Nat, NEW s, NEW r, NEW i, Fresh(r, i), NEW m,
         NEW h, h = [last_op |-> Len(d) + 1, branch_start |-> Len(d) + 1, fixup |-> 0, level |-> l]
  PROVE  /\ Possible(d, Append(Mark(fs, e), h), s, r, i, m)
         /\ Append(Mark(fs, e), h) \in Seq(CallsOfCompile)
<1> DEFINE gs == Mark(fs, e)
           n == Len(gs)
           hs == Append(gs, h)
<1>1. e \in Nat /\ Len(c) \in Nat
  BY ListLength DEF Shape
<1>2. Shape(d, S2, O) /\ Len(d) \in Nat
  BY ListLength DEF Becomes, Shape
<1>3. gs \in Seq(CallsOfCompile) /\ gs # <<>> /\ n = Len(fs)
      /\ gs[n].last_op = e /\ gs[n].branch_start = fs[Len(fs)].branch_start
  <2>1. /\ Mark(fs, e) \in Seq(CallsOfCompile) /\ Mark(fs, e) # <<>> /\ Len(Mark(fs, e)) = Len(fs)
        /\ Mark(fs, e)[Len(fs)].last_op = e
        /\ Mark(fs, e)[Len(fs)].branch_start = fs[Len(fs)].branch_start
    BY <1>1, MarkIs
  <2> HIDE DEF gs
  <2>2. gs = Mark(fs, e)
    BY DEF gs
  <2> QED
    BY <2>1, <2>2
<1>4. Calls(d, gs, S2, O) /\ LastOK(d, gs[n], S2, O)
  BY <1>1, MarkGrown DEF Stands
<1>5. h \in CallsOfCompile /\ ~ Opened(h) /\ h.branch_start = Len(d) + 1 /\ h.last_op = Len(d) + 1 /\ h.fixup = 0
  BY <1>2 DEF CallsOfCompile, Opened
<1>6. Whole(d, S2, O, Len(d) + 1)
  BY <1>2, EndWhole
<1>7. FrameOK(d, h, S2, O) /\ LastOK(d, h, S2, O)
  BY <1>2, <1>5, <1>6 DEF FrameOK, LastOK
<1>8. gs[n].branch_start < h.branch_start /\ gs[n].last_op < h.branch_start
  <2>1. fs[Len(fs)].branch_start \in Nat /\ fs[Len(fs)].branch_start <= e
    BY TopCall, TopPlace
  <2> QED
    BY <1>1, <1>2, <1>3, <1>5, <2>1
<1> HIDE DEF gs, n
<1>9. n = Len(gs) /\ hs = Append(gs, h)
  BY DEF n
<1> HIDE DEF hs
<1>10. Calls(d, hs, S2, O) /\ hs \in Seq(CallsOfCompile) /\ hs # <<>> /\ hs[Len(hs)] = h
  <2>1. gs \in Seq(CallsOfCompile) /\ gs # <<>> /\ n = Len(gs)
    BY <1>3, <1>9
  <2>2. h \in CallsOfCompile /\ FrameOK(d, h, S2, O)
    BY <1>5, <1>7
  <2>3. hs = Append(gs, h)
    BY <1>9
  <2>4. PushedOn(d, hs, S2, O, h)
    BY ONLY <1>4, <1>8, <2>1, <2>2, <2>3, Pushed
  <2> QED
    BY <2>4 DEF PushedOn
<1>11. LastAt(d, hs[Len(hs)], S2, O, s, r, i)
  BY <1>7, <1>10 DEF LastAt
<1> QED
  BY <1>2, <1>10, <1>11 DEF Coherent, Possible, hs, gs

LEMMA SetPossible ==
  ASSUME NEW c, NEW fs, NEW s, s # NoSet, NEW r, NEW i, NEW m, Possible(c, fs, s, r, i, m), NEW j
  PROVE  Possible(c, fs, s, r, j, m)
<1>1. PICK S, O : Coherent(c, fs, S, O, s, r, i, m)
  BY DEF Possible
<1>2. fs # <<>>
  BY <1>1 DEF Coherent, Between
<1>3. LastAt(c, fs[Len(fs)], S, O, s, r, j)
  BY <1>1, <1>2 DEF Coherent, LastAt
<1> QED
  BY <1>1, <1>2, <1>3 DEF Coherent, Possible

LEMMA QuantifyReady ==
  ASSUME NEW c, NEW S, NEW O, NEW fs \in Seq(CallsOfCompile), fs # <<>>, NEW r, NEW i, NEW m,
         Coherent(c, fs, S, O, NoSet, r, i, m), ~ AfterBar(r, i), ~ Fresh(r, i),
         NEW b, b = fs[Len(fs)].last_op
  PROVE  Shape(c, S, O) /\ Whole(c, S, O, b) /\ b <= Len(c) /\ \A x \in O : x < b
<1> DEFINE f == fs[Len(fs)]
<1>1. Shape(c, S, O) /\ Calls(c, fs, S, O) /\ LastOK(c, f, S, O) /\ b <= Len(c)
  BY DEF Coherent, LastAt
<1>2. /\ f.branch_start \in Nat /\ b \in Nat
      /\ \A o \in O : o <= f.branch_start /\ (o = f.branch_start => Opened(f))
  BY <1>1, TopCall, TopPlace
<1>3. \A o \in O : o \in Nat
  BY <1>1, ListLength DEF Shape
<1>4. Whole(c, S, O, b) /\ f.branch_start <= b /\ (Opened(f) => f.branch_start < b)
  BY <1>1 DEF LastOK
<1> HIDE DEF f
<1>5. \A x \in O : x < b
  BY <1>2, <1>3, <1>4
<1> QED
  BY <1>1, <1>4, <1>5

LEMMA QuantifyPossible ==
  ASSUME NEW c, NEW S, NEW O, NEW fs \in Seq(CallsOfCompile), fs # <<>>, NEW r, NEW i, NEW m,
         Coherent(c, fs, S, O, NoSet, r, i, m), ~ AfterBar(r, i), ~ Fresh(r, i),
         NEW b, b = fs[Len(fs)].last_op, NEW d, NEW S2, Becomes(c, S, O, d, S2, O, b), b <= Len(d), NEW j
  PROVE  Possible(d, fs, NoSet, r, j, m)
<1> DEFINE f == fs[Len(fs)]
<1>1. Shape(c, S, O) /\ Calls(c, fs, S, O) /\ LastOK(c, f, S, O)
  BY DEF Coherent, LastAt
<1>2. f.branch_start <= b /\ (Opened(f) => f.branch_start < b) /\ b \in Nat
  BY <1>1, TopCall DEF LastOK
<1>3. Calls(d, fs, S2, O)
  BY <1>1, <1>2, KeepGrown
<1>4. LastOK(d, f, S2, O)
  <2>1. f.last_op <= b
    BY <1>2
  <2> HIDE DEF f
  <2> QED
    BY <1>1, <2>1, LastKept
<1>5. LastAt(d, fs[Len(fs)], S2, O, NoSet, r, j)
  BY <1>4 DEF LastAt
<1> QED
  BY <1>3, <1>5 DEF Coherent, Possible, Becomes

LEMMA ClosePossible ==
  ASSUME NEW c, NEW S, NEW O, NEW fs \in Seq(CallsOfCompile), Shape(c, S, O), Calls(c, fs, S, O),
         NEW n, n = Len(fs), n > 1, NEW a, a = fs[n].branch_start,
         NEW d, NEW S2, Becomes(c, S, O, d, S2, O \ {a}, a),
         NEW gs, gs = SubSeq(fs, 1, n - 1), NEW r, NEW j, NEW m
  PROVE  Possible(d, gs, NoSet, r, j, m) /\ gs \in Seq(CallsOfCompile)
<1> DEFINE O2 == O \ {a}
<1>0. fs # <<>>
  OBVIOUS
<1>1. a \in Nat /\ a <= Len(c) + 1 /\ Len(c) \in Nat
  BY <1>0, TopCall, TopPlace, ListLength DEF Shape
<1>2. \A o \in O2 : o \in O /\ o # fs[n].branch_start
  OBVIOUS
<1>3. fs[n].branch_start <= a /\ Becomes(c, S, O, d, S2, O2, a)
  BY <1>1
<1> HIDE DEF O2
<1>4. /\ Calls(d, gs, S2, O2) /\ gs \in Seq(CallsOfCompile) /\ gs # <<>>
      /\ LastOK(d, gs[Len(gs)], S2, O2) /\ gs[Len(gs)].last_op < a /\ gs[Len(gs)].last_op \in S
  <2>1. a \in Nat
    BY <1>1
  <2>2. PoppedTo(d, gs, S2, O2, a, S)
    BY ONLY <1>2, <1>3, <2>1, fs \in Seq(CallsOfCompile), n = Len(fs), n > 1, Calls(c, fs, S, O),
            gs = SubSeq(fs, 1, n - 1), Popped
  <2> QED
    BY <2>2 DEF PoppedTo
<1>5. gs[Len(gs)].last_op <= Len(d)
  <2> DEFINE x == gs[Len(gs)].last_op
  <2>1. x \in S /\ x < a /\ x \in Nat
    BY <1>4, TopCall
  <2> HIDE DEF x
  <2>2. x <= Len(c)
    BY <1>1, <2>1
  <2>3. x <= Len(d)
    BY <1>3, <2>1, <2>2 DEF Becomes
  <2> QED
    BY <2>3 DEF x
<1>6. LastAt(d, gs[Len(gs)], S2, O2, NoSet, r, j)
  BY <1>4, <1>5 DEF LastAt
<1> QED
  BY <1>3, <1>4, <1>6 DEF Coherent, Possible, Becomes

LEMMA AlternativePossible ==
  ASSUME NEW c, NEW S, NEW O, NEW fs \in Seq(CallsOfCompile), fs # <<>>, Shape(c, S, O), Calls(c, fs, S, O),
         NEW n, n = Len(fs), NEW a, a = fs[n].branch_start,
         NEW d, NEW S2, Becomes(c, S, O, d, S2, O \union {a}, a), a <= Len(d), d[a] = "BRANCH",
         NEW gs, gs = Changed(fs, n, [fs[n] EXCEPT !.fixup = a + 2]),
         NEW r, NEW i \in Nat, 1 <= i, r[i] = "|", ~ Escaped(r, i), NEW m
  PROVE  Possible(d, gs, NoSet, r, i + 1, m) /\ gs \in Seq(CallsOfCompile)
<1> DEFINE O2 == O \union {a}
           g == [fs[n] EXCEPT !.fixup = a + 2]
<1>1. n \in Nat /\ n > 0 /\ n \in 1 .. n /\ fs[n] \in CallsOfCompile /\ a \in Nat
  BY TopCall
<1>2. g.branch_start = fs[n].branch_start /\ g.level = fs[n].level /\ g.fixup = a + 2 /\ Opened(g) /\ g \in CallsOfCompile
  <2> DEFINE x == a + 2
  <2>1. x \in Nat /\ x # 0
    BY <1>1
  <2> HIDE DEF x
  <2>2. /\ [fs[n] EXCEPT !.fixup = x] \in CallsOfCompile /\ [fs[n] EXCEPT !.fixup = x].fixup = x
        /\ [fs[n] EXCEPT !.fixup = x].branch_start = fs[n].branch_start
        /\ [fs[n] EXCEPT !.fixup = x].level = fs[n].level
    BY <1>1, <2>1 DEF CallsOfCompile
  <2>3. g = [fs[n] EXCEPT !.fixup = x]
    BY DEF x
  <2> HIDE DEF g
  <2> QED
    BY <2>1, <2>2, <2>3 DEF Opened, x
<1> HIDE DEF g, O2
<1>3. Becomes(c, S, O, d, S2, O2, a)
  BY DEF O2
<1>4. FrameOK(d, g, S2, O2)
  <2>1. Whole(c, S, O, a) /\ a \in S
    BY TopPlace DEF FrameOK, Whole
  <2>2. Whole(d, S2, O2, a)
    BY <1>1, <1>3, <2>1 DEF Becomes
  <2> QED
    BY <1>2, <2>2 DEF FrameOK
<1>5. \A o \in O2 : (o \in O /\ o # g.branch_start) \/ (Opened(g) /\ o = g.branch_start)
  BY <1>2 DEF O2
<1>6. gs = Changed(fs, n, g) /\ g.branch_start = fs[n].branch_start /\ g.level = fs[n].level /\ fs[n].branch_start <= a
  BY <1>1, <1>2 DEF g
<1>7. Calls(d, gs, S2, O2)
  BY ONLY <1>1, <1>3, <1>4, <1>5, <1>6, n = Len(fs), fs \in Seq(CallsOfCompile), fs # <<>>, Calls(c, fs, S, O), Restacked
<1>8. gs \in Seq(CallsOfCompile) /\ Len(gs) = n /\ gs # <<>>
  <2>1. gs = [fs EXCEPT ![n] = g]
    BY <1>6 DEF Changed
  <2>2. gs \in Seq(CallsOfCompile) /\ Len(gs) = n /\ n # 0
    BY <1>1, <1>2, <2>1
  <2>3. gs # <<>>
    BY ONLY <2>2
  <2> QED
    BY <2>2, <2>3
<1>9. AfterBar(r, i + 1)
  <2>1. i \in 1 .. (i + 1) - 1 /\ \A j \in i + 1 .. (i + 1) - 1 : r[j] \in {"^", "$"}
    OBVIOUS
  <2> QED
    BY <2>1 DEF AfterBar
<1>10. LastAt(d, gs[Len(gs)], S2, O2, NoSet, r, i + 1)
  BY <1>9 DEF LastAt
<1> QED
  BY <1>3, <1>7, <1>8, <1>10 DEF Coherent, Possible, Becomes

LEMMA EndPossible ==
  ASSUME NEW c, NEW fs \in Seq(CallsOfCompile), Len(fs) = 1, NEW r, Len(r) \in Nat, NEW i \in Nat, i > Len(r), NEW m,
         Possible(c, fs, NoSet, r, i, m)
  PROVE  Possible(c, <<>>, NoSet, r, i, m)
<1>1. fs # <<>> /\ DOMAIN fs = {1} /\ 1 \in DOMAIN fs
  OBVIOUS
<1>2. PICK S, O : Coherent(c, fs, S, O, NoSet, r, i, m)
  BY DEF Possible
<1>3. Shape(c, S, O) /\ Calls(c, fs, S, O)
  BY <1>1, <1>2 DEF Coherent
<1>4. fs[1].branch_start = 3 /\ O \subseteq {3} /\ 3 \in S
  BY <1>1, <1>3 DEF Calls, FrameOK, Whole
<1>5. Between(c, S, O, NoSet, r, i, m)
  BY <1>4 DEF Between
<1> QED
  BY <1>3, <1>5 DEF Coherent, Possible

LEMMA EnterPossible ==
  ASSUME NEW c, NEW s, NEW r, NEW i, i <= Len(r), NEW m \in Nat, Possible(c, <<>>, s, r, i, m),
         NEW f, f = [last_op |-> Len(c) + 1, branch_start |-> Len(c) + 1, fixup |-> 0, level |-> m],
         NEW fs, fs = << f >>
  PROVE  Possible(c, fs, s, r, i, m) /\ fs \in Seq(CallsOfCompile)
<1>1. PICK S, O : Coherent(c, <<>>, S, O, s, r, i, m)
  BY DEF Possible
<1>2. Shape(c, S, O) /\ i = 1 /\ m = 0 /\ O = {} /\ Len(c) = 2 /\ s = NoSet
  BY <1>1 DEF Coherent, Between
<1>3. f \in CallsOfCompile /\ f.branch_start = 3 /\ f.last_op = 3 /\ f.level = 0 /\ f.fixup = 0 /\ ~ Opened(f)
  BY <1>2 DEF CallsOfCompile, Opened
<1>4. fs \in Seq(CallsOfCompile) /\ Len(fs) = 1 /\ DOMAIN fs = {1} /\ fs[1] = f /\ fs # <<>>
  BY <1>3
<1>5. Whole(c, S, O, 3)
  <2>1. Whole(c, S, O, Len(c) + 1)
    BY <1>2, EndWhole
  <2>2. Len(c) + 1 = 3
    BY <1>2
  <2> QED
    BY <2>1, <2>2
<1>6. FrameOK(c, f, S, O) /\ LastOK(c, f, S, O)
  BY <1>3, <1>5 DEF FrameOK, LastOK
<1>7. Calls(c, fs, S, O)
  BY <1>2, <1>3, <1>4, <1>6 DEF Calls, Nested
<1>8. LastAt(c, fs[Len(fs)], S, O, s, r, i)
  BY <1>2, <1>4, <1>6 DEF LastAt, Fresh
<1> QED
  BY <1>2, <1>4, <1>7, <1>8 DEF Coherent, Possible

LEMMA FixupStep ==
  ASSUME NEW p, NEW S, NEW O, Sized(p), Shape(p.code, S, O),
         NEW fs \in Seq(CallsOfCompile), fs # <<>>, Calls(p.code, fs, S, O),
         NEW f, f = fs[Len(fs)], NEW a, a = f.branch_start, NEW x, x = f.fixup, NEW q, q = FixupBranch(p, x)
  PROVE  Continues(p, S, O, q, O \ {a}, a)
<1>1. FrameOK(p.code, f, S, O) /\ \A o \in O : o = a => Opened(f)
  BY TopPlace
<1>2. CASE x = 0
  <2>1. q = p
    BY <1>2 DEF FixupBranch
  <2>2. O \ {a} = O
    BY <1>1, <1>2 DEF Opened
  <2>3. Becomes(p.code, S, O, p.code, S, O, a)
    BY Same
  <2> QED
    BY <2>1, <2>2, <2>3 DEF Continues
<1>3. CASE x # 0
  <2>1. x = a + 2 /\ a \in S /\ a <= Len(p.code) /\ p.code[a] = "BRANCH"
    BY <1>1, <1>3 DEF FrameOK, Opened, Whole
  <2> QED
    BY <2>1, FixupContinues
<1> QED
  BY <1>2, <1>3

LEMMA CloseContinues ==
  ASSUME NEW p, NEW S, NEW O, Sized(p), Shape(p.code, S, O), NEW a \in S,
         NEW q, NEW O1, Continues(p, S, O, q, O1, a), NEW l, NEW w, w = <<"CLOSE", l>>, NEW u, u = Emit(q, w)
  PROVE  Continues(p, S, O, u, O1, a)
<1>1. Fits(w) /\ Listed(w)
  BY BracketFits DEF Fits
<1>2. Sized(q) /\ (q.err = p.err \/ q.err = "too long")
  BY DEF Continues
<1>3. Sized(u) /\ (u.err = q.err \/ u.err = "too long")
  BY <1>1, <1>2, Emitted
<1>4. ASSUME u.err = "none" PROVE \E S2 : Becomes(p.code, S, O, u.code, S2, O1, a)
  <2>1. q.err = "none"
    BY <1>3, <1>4
  <2>2. PICK S1 : Becomes(p.code, S, O, q.code, S1, O1, a)
    BY <2>1 DEF Continues
  <2>3. Shape(q.code, S1, O1)
    BY <2>2 DEF Becomes
  <2>4. Continues(q, S1, O1, u, O1, Len(q.code) + 1)
    BY <1>1, <1>2, <2>3, EmitContinues
  <2>5. PICK S2 : Becomes(q.code, S1, O1, u.code, S2, O1, Len(q.code) + 1)
    BY <1>4, <2>4 DEF Continues
  <2>6. a \in Nat /\ a <= Len(q.code) + 1 /\ Len(q.code) \in Nat /\ Len(q.code) + 1 \in Nat
    <3>1. a \in Nat
      BY ListLength DEF Shape
    <3>2. a \in S1
      BY <2>2, <3>1 DEF Becomes
    <3>3. Len(q.code) \in Nat /\ S1 \subseteq 1 .. Len(q.code) + 1
      BY <2>3, ListLength DEF Shape
    <3>4. a \in 1 .. Len(q.code) + 1
      BY ONLY <3>2, <3>3
    <3> QED
      BY ONLY <3>1, <3>3, <3>4
  <2>7. Becomes(q.code, S1, O1, u.code, S2, O1, a)
    <3> DEFINE e == Len(q.code) + 1
    <3>1. e \in Nat /\ a \in Nat /\ a <= e /\ Becomes(q.code, S1, O1, u.code, S2, O1, e)
      BY <2>5, <2>6
    <3> HIDE DEF e
    <3> QED
      BY ONLY <2>3, <3>1, Weaker
  <2>8. Becomes(p.code, S, O, u.code, S2, O1, a)
    <3>1. a <= a
      BY <2>6
    <3> QED
      BY <2>2, <2>6, <2>7, <3>1, TwoBecomings
  <2> QED
    BY <2>8
<1> QED
  BY <1>2, <1>3, <1>4 DEF Continues

LEMMA AlternativeContinues ==
  ASSUME NEW p, NEW S, NEW O, Sized(p), Shape(p.code, S, O), NEW a, Whole(p.code, S, O, a), \A x \in O : x <= a,
         NEW q, NEW O1, O1 = O \ {a}, Continues(p, S, O, q, O1, a), NEW u, u = Branch(q, a),
         NEW O2, O2 = O \union {a}
  PROVE  /\ Continues(p, S, O, u, O2, a)
         /\ u.err = "none" => a <= Len(u.code) /\ u.code[a] = "BRANCH"
<1>1. a \in S /\ a \in Nat /\ a <= a
  BY ListLength DEF Whole, Shape
<1>2. Sized(q) /\ (q.err = p.err \/ q.err = "too long")
  BY DEF Continues
<1>3. Sized(u) /\ (u.err = q.err \/ u.err = "too long")
  <2>1. "BRANCH" \in Jumps /\ Width("BRANCH") = 3
    BY OnlyBranch3 DEF Jumps
  <2>2. u = Put(q, a, "BRANCH") /\ a \in Int
    BY <1>1, <2>1 DEF Branch, Put
  <2> QED
    BY <1>2, <2>1, <2>2, PutSized
<1>4. ASSUME u.err = "none"
      PROVE  /\ \E S2 : Becomes(p.code, S, O, u.code, S2, O2, a)
             /\ a <= Len(u.code) /\ u.code[a] = "BRANCH"
  <2>1. q.err = "none"
    BY <1>3, <1>4
  <2>2. PICK S1 : Becomes(p.code, S, O, q.code, S1, O1, a)
    BY <2>1 DEF Continues
  <2>3. Shape(q.code, S1, O1) /\ Whole(q.code, S1, O1, a)
    BY <1>1, <2>2 DEF Becomes
  <2>4. \A x \in O1 : x < a
    <3>1. \A x \in O1 : x \in O /\ x # a /\ x \in Nat
      BY ListLength DEF Shape
    <3> QED
      BY <1>1, <3>1
  <2>5. Continues(q, S1, O1, u, O1 \union {a}, a) /\ a <= Len(u.code) /\ u.code[a] = "BRANCH"
    BY <1>2, <1>4, <2>3, <2>4, BranchContinues
  <2>6. O1 \union {a} = O2
    OBVIOUS
  <2>7. PICK S2 : Becomes(q.code, S1, O1, u.code, S2, O2, a)
    BY <1>4, <2>5, <2>6 DEF Continues
  <2>8. Becomes(p.code, S, O, u.code, S2, O2, a)
    BY <1>1, <2>2, <2>7, TwoBecomings
  <2> QED
    BY <2>5, <2>8
<1> QED
  BY <1>2, <1>3, <1>4 DEF Continues

-----------------------------------------------------------------------------
(* The pattern.                                                            *)

LEMMA PatternIs ==
  ASSUME NEW p \in Pattern
  PROVE  p \in Seq(STRING) /\ Len(p) \in Nat /\ Len(p) >= 1 /\ DOMAIN p = 1 .. Len(p) /\ MaxSub \in Nat /\ MaxSub >= 1
<1>1. p \in Seq(STRING) /\ p # <<>> /\ MaxSub \in Nat \ {0}
  BY RegexAssumption
<1>2. Len(p) \in Nat /\ DOMAIN p = 1 .. Len(p) /\ Len(p) # 0
  BY <1>1
<1> QED
  BY <1>1, <1>2

(* A quantifier follows something. *)
LEMMA Quantified ==
  ASSUME NEW p \in Pattern, NEW i \in DOMAIN p, p[i] \in Quantifiers
  PROVE  ~ AfterBar(p, i) /\ ~ Fresh(p, i)
<1>1. /\ i # 1
      /\ p[i - 1] = "(" => Escaped(p, i - 1)
      /\ \A k \in 1 .. i - 1 : p[k] = "|" /\ (\A j \in k + 1 .. i - 1 : p[j] \in {"^", "$"}) => Escaped(p, k)
  BY RegexAssumption
<1> QED
  BY <1>1 DEF AfterBar, Fresh

LEMMA PastOne ==
  ASSUME NEW p, NEW i \in Nat, p[i] # "\\"
  PROVE  ~ Escaped(p, i + 1)
<1>1. (i + 1) - 1 = i
  OBVIOUS
<1> QED
  BY <1>1 DEF Escaped

LEMMA PastTwo ==
  ASSUME NEW p, NEW i \in Nat, 1 <= i, p[i] = "\\"
  PROVE  ~ Escaped(p, i + 2)
<1>1. (i + 2) - 1 = i + 1 /\ (i + 2) - 2 = i /\ i + 2 # 2
  OBVIOUS
<1> QED
  BY <1>1 DEF Escaped

LEMMA BeforeGrows ==
  ASSUME NEW p, NEW i \in Nat, NEW j \in Nat, i <= j
  PROVE  Before(p, i) \in Nat /\ Before(p, j) \in Nat /\ Before(p, i) <= Before(p, j)
<1> DEFINE A == {k \in 1 .. i - 1 : p[k] = "("}
           B == {k \in 1 .. j - 1 : p[k] = "("}
<1>1. A \subseteq B
  OBVIOUS
<1>2. IsFiniteSet(B)
  <2>1. IsFiniteSet(1 .. j - 1) /\ B \subseteq 1 .. j - 1
    BY FS_Interval
  <2> HIDE DEF B
  <2> QED
    BY <2>1, FS_Subset
<1> HIDE DEF A, B
<1>3. IsFiniteSet(A) /\ Cardinality(A) <= Cardinality(B)
  BY <1>1, <1>2, FS_Subset
<1>4. Cardinality(A) \in Nat /\ Cardinality(B) \in Nat
  BY <1>2, <1>3, FS_CardinalityType
<1> QED
  BY <1>3, <1>4 DEF A, B, Before

LEMMA BeforeOpens ==
  ASSUME NEW p, NEW i \in Nat, 1 <= i, p[i] = "("
  PROVE  Before(p, i + 1) = Before(p, i) + 1
<1> DEFINE A == {k \in 1 .. i - 1 : p[k] = "("}
           B == {k \in 1 .. (i + 1) - 1 : p[k] = "("}
<1>1. B = A \union {i} /\ i \notin A
  OBVIOUS
<1>2. IsFiniteSet(A)
  <2>1. IsFiniteSet(1 .. i - 1) /\ A \subseteq 1 .. i - 1
    BY FS_Interval
  <2> HIDE DEF A
  <2> QED
    BY <2>1, FS_Subset
<1> HIDE DEF A, B
<1>3. Cardinality(A \union {i}) = Cardinality(A) + 1
  BY <1>1, <1>2, FS_AddElement
<1> QED
  BY <1>1, <1>3 DEF A, B, Before

LEMMA BeforeBounded ==
  ASSUME NEW p \in Pattern, NEW i \in 1 .. Len(p) + 1
  PROVE  Before(p, i) \in Nat /\ Before(p, i) < MaxSub
<1>1. Len(p) \in Nat /\ DOMAIN p = 1 .. Len(p) /\ MaxSub \in Nat
  BY PatternIs
<1>2. Cardinality({k \in DOMAIN p : p[k] = "("}) < MaxSub
  BY RegexAssumption
<1>3. (Len(p) + 1) - 1 = Len(p) /\ i \in Nat /\ Len(p) + 1 \in Nat /\ i <= Len(p) + 1
  BY <1>1
<1>4. Before(p, Len(p) + 1) = Cardinality({k \in DOMAIN p : p[k] = "("})
  BY <1>1, <1>3 DEF Before
<1> DEFINE x == Before(p, i)
           y == Before(p, Len(p) + 1)
<1>5. x \in Nat /\ y \in Nat /\ x <= y
  BY <1>3, BeforeGrows
<1>6. y < MaxSub
  BY <1>2, <1>4
<1> HIDE DEF x, y
<1>7. x \in Nat /\ x < MaxSub
  BY <1>1, <1>5, <1>6
<1> QED
  BY <1>7 DEF x

-----------------------------------------------------------------------------
(* The steps of compile.                                                   *)

Quiet == UNCHANGED <<phase, reg, matcher, result>>

LEMMA CompilerStep ==
  ASSUME IInv, phase = "compile", Quiet, re' \in 1 .. Len(reg) + 1, ~ Escaped(reg, re'), Sized(prog'),
         frames' \in Seq(CallsOfCompile), set' \in {NoSet} \union [op : {"ANYOF", "ANYBUT"}, from : Nat],
         num_caps' \in Nat, num_caps' <= Before(reg, re'),
         prog'.err = "none" => Possible(prog'.code, frames', set', reg, re', num_caps'),
         prog'.err = "bracket" => Broken'
  PROVE  IInv'
<1>1. reg' = reg /\ phase' = phase
  BY DEF Quiet
<1>2. Compiler'
  BY <1>1 DEF IInv, Compiler, Compiling
<1>3. Matcher'
  BY <1>1 DEF IInv, Matcher, Quiet, matcher, Offsets, anchored
<1>4. Result'
  BY <1>1 DEF IInv, Result, Quiet, matcher, result
<1> QED
  BY <1>2, <1>3, <1>4 DEF IInv

LEMMA AtPlace ==
  ASSUME IInv, NEW c, At(c)
  PROVE  /\ reg \in Pattern /\ Len(reg) \in Nat /\ re \in Nat /\ 1 <= re /\ re <= Len(reg) /\ re \in DOMAIN reg
         /\ reg[re] = c /\ phase = "compile" /\ prog.err # "too long" /\ set = NoSet /\ Sized(prog)
         /\ frames # <<>> /\ frames \in Seq(CallsOfCompile) /\ Len(frames) \in Nat
         /\ num_caps \in Nat /\ num_caps <= Before(reg, re) /\ ~ Escaped(reg, re)
         /\ c # ")" => prog.err = "none" /\ Possible(prog.code, frames, NoSet, reg, re, num_caps)
<1>1. Compiler
  BY DEF IInv
<1>2. reg \in Pattern /\ re \in 1 .. Len(reg) + 1 /\ re <= Len(reg) /\ reg[re] = c
  BY <1>1 DEF Compiler, At
<1>3. Len(reg) \in Nat /\ DOMAIN reg = 1 .. Len(reg)
  BY <1>2, PatternIs
<1>4. re \in Nat /\ 1 <= re /\ re \in DOMAIN reg
  BY <1>2, <1>3
<1>5. phase = "compile" /\ prog.err # "too long" /\ set = NoSet /\ frames # <<>>
  BY DEF At
<1>6. Sized(prog) /\ frames \in Seq(CallsOfCompile) /\ num_caps \in Nat /\ num_caps <= Before(reg, re) /\ ~ Escaped(reg, re)
  BY <1>1 DEF Compiler
<1>7. Len(frames) \in Nat
  BY <1>6
<1>8. ASSUME c # ")" PROVE prog.err = "none" /\ Possible(prog.code, frames, NoSet, reg, re, num_caps)
  <2>1. ~ Broken
    BY <1>2, <1>3, <1>4, <1>8 DEF Broken
  <2>2. prog.err = "none"
    BY <1>1, <1>5, <1>6, <2>1 DEF Compiler, Sized, Errors
  <2> QED
    BY <1>1, <1>5, <2>2 DEF Compiler, Compiling
<1> QED
  BY <1>2, <1>3, <1>4, <1>5, <1>6, <1>7, <1>8

(* An instruction was added. *)
Grows(p, q) ==
  \A S, O : Shape(p.code, S, O) => /\ Continues(p, S, O, q, O, Len(p.code) + 1)
                                   /\ q.err = "none" => Len(p.code) < Len(q.code)

Onward == re' \in re + 1 .. Len(reg) + 1 /\ ~ Escaped(reg, re')

LEMMA Place ==
  ASSUME IInv
  PROVE  /\ reg \in Pattern /\ Len(reg) \in Nat /\ re \in Nat /\ 1 <= re /\ re <= Len(reg) + 1 /\ DOMAIN reg = 1 .. Len(reg)
         /\ Sized(prog) /\ frames \in Seq(CallsOfCompile) /\ Len(frames) \in Nat
         /\ num_caps \in Nat /\ num_caps <= Before(reg, re) /\ ~ Escaped(reg, re)
<1>1. Compiler
  BY DEF IInv
<1>2. reg \in Pattern /\ re \in 1 .. Len(reg) + 1
  BY <1>1 DEF Compiler
<1>3. Len(reg) \in Nat /\ DOMAIN reg = 1 .. Len(reg)
  BY <1>2, PatternIs
<1>4. frames \in Seq(CallsOfCompile)
  BY <1>1 DEF Compiler
<1>5. Len(frames) \in Nat
  BY <1>4
<1> QED
  BY <1>1, <1>2, <1>3, <1>4, <1>5 DEF Compiler

LEMMA CapsKept ==
  ASSUME IInv, Onward, num_caps' = num_caps
  PROVE  num_caps' \in Nat /\ num_caps' <= Before(reg, re') /\ re' \in 1 .. Len(reg) + 1
<1>1. Len(reg) \in Nat /\ re \in Nat /\ num_caps \in Nat /\ num_caps <= Before(reg, re)
  BY Place
<1>2. re' \in Nat /\ re <= re' /\ re' \in 1 .. Len(reg) + 1
  BY <1>1 DEF Onward
<1> DEFINE i == re
           j == re'
<1>3. Before(reg, i) \in Nat /\ Before(reg, j) \in Nat /\ Before(reg, i) <= Before(reg, j)
  BY <1>1, <1>2, BeforeGrows
<1> HIDE DEF i, j
<1>4. num_caps <= Before(reg, i) /\ num_caps \in Nat
  BY <1>1 DEF i
<1>5. num_caps <= Before(reg, j)
  BY ONLY <1>3, <1>4
<1> QED
  BY <1>1, <1>2, <1>5 DEF j

LEMMA MarkStep ==
  ASSUME IInv, NEW c, c # ")", At(c), MarkLast, Quiet, UNCHANGED <<num_caps, set>>, Grows(prog, prog'), Onward
  PROVE  IInv'
<1> DEFINE e == Len(prog.code) + 1
<1>1. /\ phase = "compile" /\ set = NoSet /\ Sized(prog) /\ frames # <<>> /\ frames \in Seq(CallsOfCompile)
      /\ prog.err = "none" /\ Possible(prog.code, frames, NoSet, reg, re, num_caps)
  BY AtPlace
<1>2. PICK S, O : Coherent(prog.code, frames, S, O, NoSet, reg, re, num_caps)
  BY <1>1 DEF Possible
<1>3. Shape(prog.code, S, O) /\ Calls(prog.code, frames, S, O)
  BY <1>1, <1>2 DEF Coherent
<1>4. Continues(prog, S, O, prog', O, e) /\ (prog'.err = "none" => Len(prog.code) < Len(prog'.code))
  BY <1>3 DEF Grows
<1>5. e \in Nat
  BY <1>3, ListLength DEF Shape
<1>6. frames' = Mark(frames, e) /\ frames' \in Seq(CallsOfCompile)
  <2>1. frames' = [frames EXCEPT ![Len(frames)] = [frames[Len(frames)] EXCEPT !.last_op = e]]
    BY DEF MarkLast, ReplaceTop, Top, End
  <2>2. /\ Mark(frames, e) \in Seq(CallsOfCompile)
        /\ Mark(frames, e) = [frames EXCEPT ![Len(frames)] = [frames[Len(frames)] EXCEPT !.last_op = e]]
    BY <1>1, <1>5, MarkIs
  <2> QED
    BY <2>1, <2>2
<1>7. ASSUME prog'.err = "none" PROVE Possible(prog'.code, frames', set', reg, re', num_caps')
  <2>1. PICK S2 : Becomes(prog.code, S, O, prog'.code, S2, O, e)
    BY <1>4, <1>7 DEF Continues
  <2>2. Len(prog.code) < Len(prog'.code) /\ e = Len(prog.code) + 1
    BY <1>4, <1>7
  <2> DEFINE d == prog'.code
             i == re'
  <2> HIDE DEF d, e, i
  <2>3. Possible(d, Mark(frames, e), NoSet, reg, i, num_caps)
    BY <1>1, <1>3, <2>1, <2>2, MarkedPossible DEF d
  <2> QED
    BY <1>1, <1>6, <2>3 DEF d, i
<1>8. Sized(prog') /\ prog'.err # "bracket"
  BY <1>1, <1>4 DEF Continues
<1>9. num_caps' \in Nat /\ num_caps' <= Before(reg, re') /\ re' \in 1 .. Len(reg) + 1 /\ ~ Escaped(reg, re')
  BY CapsKept DEF Onward
<1> QED
  BY <1>1, <1>6, <1>7, <1>8, <1>9, CompilerStep

LEMMA GrowsEmit ==
  ASSUME NEW p, Sized(p), NEW w, Fits(w), NEW q, q = Emit(p, w)
  PROVE  Grows(p, q)
BY EmitContinues DEF Grows

LEMMA GrowsExact ==
  ASSUME NEW p, Sized(p), NEW chars, Listed(chars), NEW q, q = Literal(Store(p, chars), "EXACT", Len(p.data))
  PROVE  Grows(p, q)
BY ExactContinues DEF Grows

LEMMA GrowsSet ==
  ASSUME NEW p, Sized(p), NEW o \in {"ANYOF", "ANYBUT"}, NEW from, NEW q, q = Literal(p, o, from)
  PROVE  Grows(p, q)
BY SetContinues DEF Grows

LEMMA OnwardOne ==
  ASSUME IInv, NEW c, At(c), c # "\\", re' = re + 1
  PROVE  Onward
<1>1. Len(reg) \in Nat /\ re \in Nat /\ re <= Len(reg) /\ reg[re] = c
  BY AtPlace
<1>2. ~ Escaped(reg, re + 1)
  BY <1>1, PastOne
<1> QED
  BY <1>1, <1>2 DEF Onward

LEMMA OnwardTwo ==
  ASSUME IInv, NEW c, At(c), re < Len(reg), c = "\\" \/ reg[re + 1] # "\\", re' = re + 2
  PROVE  Onward
<1>1. Len(reg) \in Nat /\ re \in Nat /\ 1 <= re /\ re <= Len(reg) /\ reg[re] = c
  BY AtPlace
<1>2. ~ Escaped(reg, re + 2)
  <2>1. CASE c = "\\"
    BY <1>1, <2>1, PastTwo
  <2>2. CASE reg[re + 1] # "\\"
    <3> DEFINE j == re + 1
    <3>1. j \in Nat /\ reg[j] # "\\" /\ j + 1 = re + 2
      BY <1>1, <2>2
    <3> HIDE DEF j
    <3>2. ~ Escaped(reg, j + 1)
      BY ONLY <3>1, PastOne
    <3> QED
      BY <3>1, <3>2
  <2> QED
    BY <2>1, <2>2
<1> QED
  BY <1>1, <1>2 DEF Onward

LEMMA AnyCharKeeps ==
  ASSUME IInv, AnyChar, Quiet
  PROVE  IInv'
<1>1. At(".") /\ Sized(prog)
  BY AtPlace DEF AnyChar
<1>2. prog' = Emit(prog, << "ANY" >>) /\ re' = re + 1
  BY DEF AnyChar, Single
<1>3. Grows(prog, prog')
  <2>1. Fits(<< "ANY" >>)
    BY SimpleFits
  <2> DEFINE w == << "ANY" >>
             q == prog'
  <2>2. Fits(w) /\ q = Emit(prog, w)
    BY <1>2, <2>1
  <2> HIDE DEF w, q
  <2>3. Grows(prog, q)
    BY <1>1, <2>2, GrowsEmit
  <2> QED
    BY <2>3 DEF q
<1>4. Onward
  BY <1>1, <1>2, OnwardOne
<1> DEFINE c == "."
<1>5. At(c) /\ c # ")"
  BY <1>1
<1> HIDE DEF c
<1>6. MarkLast /\ UNCHANGED <<num_caps, set>>
  BY DEF AnyChar
<1> QED
  BY ONLY IInv, Quiet, <1>3, <1>4, <1>5, <1>6, MarkStep

LEMMA ClassFits ==
  ASSUME NEW c \in DOMAIN Class
  PROVE  Fits(<< Class[c] >>)
<1>1. Class[c] \in {"NONSPACE", "SPACE", "DIGIT", "LOWER", "UPPER", "ALPHA", "ALNUM"}
  BY DEF Class
<1> DEFINE o == Class[c]
<1>2. o \in {"BOL", "EOL", "ANY", "END", "NONSPACE", "SPACE", "DIGIT", "LOWER", "UPPER", "ALPHA", "ALNUM"}
  BY <1>1
<1> HIDE DEF o
<1>3. Fits(<< o >>)
  BY <1>2, SimpleFits
<1> QED
  BY <1>3 DEF o

LEMMA EscapeKeeps ==
  ASSUME IInv, Escape, Quiet
  PROVE  IInv'
<1> DEFINE b == "\\"
           c == reg[re + 1]
           q == prog'
<1>1. At(b) /\ Sized(prog) /\ b # ")" /\ b = "\\" /\ re < Len(reg) /\ re' = re + 2 /\ MarkLast /\ UNCHANGED <<num_caps, set>>
  BY AtPlace DEF Escape
<1>2. q = IF c \in DOMAIN Class THEN Emit(prog, << Class[c] >>)
          ELSE IF c \in High THEN Emit(prog, << "unknown" >>)
          ELSE Literal(Store(prog, << EscapeChar(c) >>), "EXACT", Len(prog.data))
  BY DEF Escape
<1>3. Onward
  <2> HIDE DEF b
  <2> QED
    BY <1>1, OnwardTwo
<1>4. Grows(prog, q)
  <2> HIDE DEF c, q
  <2>1. CASE c \in DOMAIN Class
    <3> DEFINE w == << Class[c] >>
    <3>1. Fits(w) /\ q = Emit(prog, w)
      BY <1>2, <2>1, ClassFits
    <3> HIDE DEF w
    <3> QED
      BY <1>1, <3>1, GrowsEmit
  <2>3. CASE c \notin DOMAIN Class /\ c \in High
    <3> DEFINE w == << "unknown" >>
    <3>1. Fits(w) /\ q = Emit(prog, w)
      BY <1>2, <2>3, UnknownFits
    <3> HIDE DEF w
    <3> QED
      BY <1>1, <3>1, GrowsEmit
  <2>2. CASE c \notin DOMAIN Class /\ c \notin High
    <3> DEFINE w == << EscapeChar(c) >>
    <3>1. Listed(w)
      BY OneCell
    <3>2. q = Literal(Store(prog, w), "EXACT", Len(prog.data))
      BY <1>2, <2>2
    <3> HIDE DEF w
    <3> QED
      BY <1>1, <3>1, <3>2, GrowsExact
  <2> QED
    BY <2>1, <2>2, <2>3
<1>5. Grows(prog, prog')
  BY <1>4
<1> HIDE DEF b, c, q
<1> QED
  BY ONLY IInv, Quiet, <1>1, <1>3, <1>5, MarkStep

LEMMA PartListed ==
  ASSUME NEW q, NEW m \in Int, NEW n \in Int
  PROVE  Listed(SubSeq(q, m, n))
BY ListPart

LEMMA ExactKeeps ==
  ASSUME IInv, Exact, Quiet
  PROVE  IInv'
<1> DEFINE c == reg[re]
           q == prog'
<1>1. At(c) /\ MarkLast /\ UNCHANGED <<num_caps, set>>
  BY DEF Exact
<1>2. PICK x \in re .. Len(reg) :
        RunEnd(x) /\ prog' = Literal(Store(prog, SubSeq(reg, re, x)), "EXACT", Len(prog.data)) /\ re' = x + 1
  BY DEF Exact
<1> HIDE DEF c
<1>3. Len(reg) \in Nat /\ re \in Nat /\ re <= Len(reg) /\ reg[re] = c /\ Sized(prog)
  BY <1>1, AtPlace
<1>4. x \in Nat /\ re <= x /\ x <= Len(reg) /\ re \in re .. x /\ x \in re .. x
  BY <1>3
<1>5. reg[re] \notin meta_chars /\ reg[x] \notin meta_chars
  BY <1>2, <1>4 DEF RunEnd
<1>6. c # ")" /\ reg[x] # "\\"
  BY <1>3, <1>5 DEF meta_chars
<1>7. ~ Escaped(reg, x + 1)
  BY <1>4, <1>6, PastOne
<1>8. Onward
  BY <1>2, <1>3, <1>4, <1>7 DEF Onward
<1> DEFINE w == SubSeq(reg, re, x)
<1>9. Listed(w)
  <2>1. re \in Int /\ x \in Int
    BY <1>3, <1>4
  <2> QED
    BY ONLY <2>1, PartListed
<1>10. q = Literal(Store(prog, w), "EXACT", Len(prog.data))
  BY <1>2
<1> HIDE DEF w, q
<1>11. Grows(prog, q)
  BY <1>3, <1>9, <1>10, GrowsExact
<1>12. Grows(prog, prog')
  BY <1>11 DEF q
<1> QED
  BY ONLY IInv, Quiet, <1>1, <1>6, <1>8, <1>12, MarkStep

LEMMA AnchorStep ==
  ASSUME IInv, NEW c, c \in {"^", "$"}, At(c), Quiet, UNCHANGED <<num_caps, frames, set>>, Grows(prog, prog'),
         re' = re + 1, Onward
  PROVE  IInv'
<1> DEFINE e == Len(prog.code) + 1
           d == prog'.code
<1>1. /\ phase = "compile" /\ set = NoSet /\ Sized(prog) /\ frames # <<>> /\ frames \in Seq(CallsOfCompile)
      /\ prog.err = "none" /\ Possible(prog.code, frames, NoSet, reg, re, num_caps) /\ re \in Nat /\ reg[re] = c
  BY AtPlace
<1>2. PICK S, O : Coherent(prog.code, frames, S, O, NoSet, reg, re, num_caps)
  BY <1>1 DEF Possible
<1>3. Shape(prog.code, S, O)
  BY <1>2 DEF Coherent
<1>4. Continues(prog, S, O, prog', O, e) /\ (prog'.err = "none" => Len(prog.code) < Len(d))
  BY <1>3 DEF Grows
<1>7. ASSUME prog'.err = "none" PROVE Possible(prog'.code, frames', set', reg, re', num_caps')
  <2>1. PICK S2 : Becomes(prog.code, S, O, d, S2, O, e)
    BY <1>4, <1>7 DEF Continues
  <2>2. Len(prog.code) < Len(d) /\ e = Len(prog.code) + 1 /\ reg[re] \in {"^", "$"} /\ re \in Nat
    BY <1>1, <1>4, <1>7
  <2> HIDE DEF d, e
  <2>3. Possible(d, frames, NoSet, reg, re + 1, num_caps)
    BY <1>1, <1>2, <2>1, <2>2, AnchorPossible
  <2> QED
    BY <1>1, <2>3 DEF d
<1>8. Sized(prog') /\ prog'.err # "bracket"
  BY <1>1, <1>4 DEF Continues
<1>9. num_caps' \in Nat /\ num_caps' <= Before(reg, re') /\ re' \in 1 .. Len(reg) + 1 /\ ~ Escaped(reg, re')
  BY CapsKept DEF Onward
<1>10. frames' \in Seq(CallsOfCompile) /\ set' = NoSet
  BY <1>1
<1> QED
  BY <1>1, <1>7, <1>8, <1>9, <1>10, CompilerStep

LEMMA AnchorKeeps ==
  ASSUME IInv, Anchor, Quiet
  PROVE  IInv'
<1>1. PICK c \in {"^", "$"} : \E o \in {"BOL", "EOL"} : At(c) /\ Single(<< o >>)
  BY DEF Anchor
<1>2. PICK o \in {"BOL", "EOL"} : At(c) /\ Single(<< o >>)
  BY <1>1
<1> DEFINE w == << o >>
           q == prog'
<1>3. Fits(w) /\ q = Emit(prog, w) /\ re' = re + 1
  BY <1>2, SimpleFits DEF Single
<1>4. Sized(prog) /\ At(c)
  BY <1>2, AtPlace
<1> HIDE DEF w, q
<1>5. Grows(prog, q)
  BY <1>3, <1>4, GrowsEmit
<1>6. Grows(prog, prog')
  BY <1>5 DEF q
<1>7. Onward
  BY <1>3, <1>4, OnwardOne
<1>8. UNCHANGED <<num_caps, frames, set>>
  BY DEF Anchor
<1> QED
  BY ONLY IInv, Quiet, c \in {"^", "$"}, <1>3, <1>4, <1>6, <1>7, <1>8, AnchorStep

LEMMA SetOpenKeeps ==
  ASSUME IInv, SetOpen, Quiet
  PROVE  IInv'
<1> DEFINE c == "["
           e == Len(prog.code) + 1
<1>1. At(c) /\ MarkLast /\ UNCHANGED <<prog, num_caps>> /\ c = "[" /\ c # ")"
  BY DEF SetOpen
<1> HIDE DEF c
<1>2. /\ phase = "compile" /\ set = NoSet /\ Sized(prog) /\ frames # <<>> /\ frames \in Seq(CallsOfCompile)
      /\ prog.err = "none" /\ Possible(prog.code, frames, NoSet, reg, re, num_caps)
      /\ re \in Nat /\ Len(reg) \in Nat /\ re <= Len(reg)
  BY <1>1, AtPlace
<1>3. Onward
  <2>1. CASE re < Len(reg) /\ reg[re + 1] = "^"
    <3>1. re' = re + 2
      BY <2>1 DEF SetOpen
    <3> QED
      BY <1>1, <2>1, <3>1, OnwardTwo
  <2>2. CASE ~ (re < Len(reg) /\ reg[re + 1] = "^")
    <3>1. re' = re + 1
      BY <2>2 DEF SetOpen
    <3> QED
      BY <1>1, <3>1, OnwardOne
  <2> QED
    BY <2>1, <2>2
<1>4. set' \in [op : {"ANYOF", "ANYBUT"}, from : Nat] /\ set' # NoSet
  <2>1. Len(prog.data) \in Nat
    BY <1>2, ListLength DEF Sized
  <2>2. \E o \in {"ANYOF", "ANYBUT"} : set' = [op |-> o, from |-> Len(prog.data)]
    BY DEF SetOpen
  <2> QED
    BY <2>1, <2>2 DEF NoSet
<1>5. PICK S, O : Coherent(prog.code, frames, S, O, NoSet, reg, re, num_caps)
  BY <1>2 DEF Possible
<1>6. Shape(prog.code, S, O) /\ Calls(prog.code, frames, S, O)
  BY <1>2, <1>5 DEF Coherent
<1>7. e \in Nat
  BY <1>6, ListLength DEF Shape
<1>8. frames' = Mark(frames, e) /\ frames' \in Seq(CallsOfCompile)
  <2>1. frames' = [frames EXCEPT ![Len(frames)] = [frames[Len(frames)] EXCEPT !.last_op = e]]
    BY <1>1 DEF MarkLast, ReplaceTop, Top, End
  <2>2. /\ Mark(frames, e) \in Seq(CallsOfCompile)
        /\ Mark(frames, e) = [frames EXCEPT ![Len(frames)] = [frames[Len(frames)] EXCEPT !.last_op = e]]
    BY <1>2, <1>7, MarkIs
  <2> QED
    BY <2>1, <2>2
<1>9. Possible(prog'.code, frames', set', reg, re', num_caps')
  <2> DEFINE d == prog.code
             s == set'
             i == re'
  <2>1. Becomes(d, S, O, d, S, O, e) /\ e = Len(d) + 1 /\ s # NoSet
    BY <1>4, <1>6, Same
  <2>2. Shape(d, S, O) /\ Calls(d, frames, S, O) /\ frames \in Seq(CallsOfCompile) /\ frames # <<>>
    BY <1>2, <1>6
  <2> HIDE DEF d, e, s, i
  <2>3. Possible(d, Mark(frames, e), s, reg, i, num_caps)
    BY ONLY <2>1, <2>2, MarkedPossible
  <2> QED
    BY <1>1, <1>8, <2>3 DEF d, s, i
<1>10. num_caps' \in Nat /\ num_caps' <= Before(reg, re') /\ re' \in 1 .. Len(reg) + 1 /\ ~ Escaped(reg, re')
  BY <1>1, <1>3, CapsKept DEF Onward
<1>11. Sized(prog') /\ prog'.err # "bracket"
  BY <1>1, <1>2
<1> QED
  BY <1>2, <1>4, <1>8, <1>9, <1>10, <1>11, CompilerStep

LEMMA SetPlace ==
  ASSUME IInv, InSet
  PROVE  /\ phase = "compile" /\ prog.err = "none" /\ Possible(prog.code, frames, set, reg, re, num_caps)
         /\ set # NoSet /\ set \in [op : {"ANYOF", "ANYBUT"}, from : Nat] /\ frames # <<>>
<1>1. Compiler
  BY DEF IInv
<1>2. phase = "compile" /\ prog.err # "too long" /\ set # NoSet
  BY DEF InSet
<1>3. prog.err = "none"
  BY <1>1, <1>2 DEF Compiler, Broken, Sized, Errors
<1>4. Possible(prog.code, frames, set, reg, re, num_caps)
  BY <1>1, <1>2, <1>3 DEF Compiler, Compiling
<1>5. frames # <<>>
  BY <1>2, <1>4 DEF Possible, Coherent, Between
<1> QED
  BY <1>1, <1>2, <1>3, <1>4, <1>5 DEF Compiler

LEMMA SetStored ==
  ASSUME IInv, InSet, Quiet, Onward, UNCHANGED <<num_caps, frames, set>>, NEW w, Listed(w), prog' = Store(prog, w)
  PROVE  IInv'
<1>1. /\ phase = "compile" /\ prog.err = "none" /\ Possible(prog.code, frames, set, reg, re, num_caps)
      /\ set # NoSet /\ set \in [op : {"ANYOF", "ANYBUT"}, from : Nat]
  BY SetPlace
<1>2. Sized(prog) /\ frames \in Seq(CallsOfCompile)
  BY Place
<1> DEFINE q == prog'
<1>3. Sized(q) /\ q.code = prog.code /\ (q.err = "too long" \/ q.err = prog.err)
  <2>1. q = Store(prog, w)
    OBVIOUS
  <2> HIDE DEF q
  <2> QED
    BY <1>2, <2>1, Stored
<1>4. Possible(prog'.code, frames', set', reg, re', num_caps')
  <2> DEFINE j == re'
  <2> HIDE DEF j
  <2>1. Possible(prog.code, frames, set, reg, j, num_caps)
    BY <1>1, SetPossible
  <2> QED
    BY <1>3, <2>1 DEF j
<1>5. Sized(prog') /\ prog'.err # "bracket"
  BY <1>1, <1>3
<1>6. num_caps' \in Nat /\ num_caps' <= Before(reg, re') /\ re' \in 1 .. Len(reg) + 1 /\ ~ Escaped(reg, re')
  BY CapsKept DEF Onward
<1> QED
  BY <1>1, <1>2, <1>4, <1>5, <1>6, CompilerStep

LEMMA SetCharKeeps ==
  ASSUME IInv, SetChar, Quiet
  PROVE  IInv'
<1>1. InSet /\ UNCHANGED <<num_caps, frames, set>> /\ re' = re + 1 /\ re <= Len(reg) /\ reg[re] # "\\"
  BY DEF SetChar
<1>2. re \in Nat /\ Len(reg) \in Nat
  BY Place
<1>3. Onward
  <2>1. ~ Escaped(reg, re + 1)
    BY <1>1, <1>2, PastOne
  <2> QED
    BY <1>1, <1>2, <2>1 DEF Onward
<1> DEFINE w == << reg[re] >>
<1>4. Listed(w) /\ prog' = Store(prog, w)
  BY OneCell DEF SetChar
<1> HIDE DEF w
<1> QED
  BY <1>1, <1>3, <1>4, SetStored

LEMMA SetEscapeKeeps ==
  ASSUME IInv, SetEscape, Quiet
  PROVE  IInv'
<1> DEFINE c == reg[re + 1]
           w == IF c \in DOMAIN Class THEN << "NUL", Class[c] >>
                ELSE IF c = "0" THEN << "NUL", "NUL" >> ELSE << EscapeChar(c) >>
<1>1. /\ InSet /\ UNCHANGED <<num_caps, frames, set>> /\ re' = re + 2 /\ re < Len(reg) /\ reg[re] = "\\"
      /\ prog' = Store(prog, w)
  BY DEF SetEscape
<1>2. re \in Nat /\ Len(reg) \in Nat /\ 1 <= re
  BY Place
<1>3. Onward
  <2>1. ~ Escaped(reg, re + 2)
    BY <1>1, <1>2, PastTwo
  <2> QED
    BY <1>1, <1>2, <2>1 DEF Onward
<1> HIDE DEF c
<1>4. Listed(w)
  <2>1. Listed(<< "NUL", Class[c] >>) /\ Listed(<< "NUL", "NUL" >>)
    BY TwoCells
  <2>2. Listed(<< EscapeChar(c) >>)
    BY OneCell
  <2> QED
    BY <2>1, <2>2
<1> HIDE DEF w
<1> QED
  BY <1>1, <1>3, <1>4, SetStored

LEMMA SetCloseKeeps ==
  ASSUME IInv, SetClose, Quiet
  PROVE  IInv'
<1> DEFINE e == Len(prog.code) + 1
           q == prog'
<1>1. /\ InSet /\ UNCHANGED <<num_caps, frames>> /\ re' = re + 1 /\ re <= Len(reg) /\ reg[re] # "\\" /\ set' = NoSet
      /\ q = Literal(prog, set.op, set.from)
  BY DEF SetClose
<1>2. /\ phase = "compile" /\ prog.err = "none" /\ Possible(prog.code, frames, set, reg, re, num_caps)
      /\ set # NoSet /\ set.op \in {"ANYOF", "ANYBUT"} /\ frames # <<>>
  BY <1>1, SetPlace
<1>3. Sized(prog) /\ frames \in Seq(CallsOfCompile) /\ re \in Nat /\ Len(reg) \in Nat
  BY Place
<1>4. Onward
  <2>1. ~ Escaped(reg, re + 1)
    BY <1>1, <1>3, PastOne
  <2> QED
    BY <1>1, <1>3, <2>1 DEF Onward
<1>5. Grows(prog, q)
  <2> HIDE DEF q
  <2> QED
    BY <1>1, <1>2, <1>3, GrowsSet
<1>6. PICK S, O : Coherent(prog.code, frames, S, O, set, reg, re, num_caps)
  BY <1>2 DEF Possible
<1>7. Shape(prog.code, S, O) /\ Calls(prog.code, frames, S, O) /\ LastOK(prog.code, frames[Len(frames)], S, O)
  BY <1>2, <1>6 DEF Coherent, LastAt
<1>8. Continues(prog, S, O, q, O, e) /\ (q.err = "none" => Len(prog.code) < Len(q.code))
  BY <1>5, <1>7 DEF Grows
<1>9. ASSUME prog'.err = "none" PROVE Possible(prog'.code, frames', set', reg, re', num_caps')
  <2> DEFINE c == prog.code
             d == q.code
             i == re'
  <2>1. PICK S2 : Becomes(c, S, O, d, S2, O, e)
    BY <1>8, <1>9 DEF Continues
  <2>2. Len(c) < Len(d) /\ e = Len(c) + 1
    BY <1>8, <1>9
  <2>3. /\ Shape(c, S, O) /\ Calls(c, frames, S, O) /\ LastOK(c, frames[Len(frames)], S, O)
        /\ frames \in Seq(CallsOfCompile) /\ frames # <<>>
    BY <1>2, <1>3, <1>7
  <2> HIDE DEF c, d, e, i, q
  <2>4. Possible(d, frames, NoSet, reg, i, num_caps)
    BY ONLY <2>1, <2>2, <2>3, KeptPossible
  <2> QED
    BY <1>1, <2>4 DEF d, i, q
<1>10. Sized(prog') /\ prog'.err # "bracket"
  BY <1>2, <1>8 DEF Continues
<1>11. num_caps' \in Nat /\ num_caps' <= Before(reg, re') /\ re' \in 1 .. Len(reg) + 1 /\ ~ Escaped(reg, re')
  BY <1>1, <1>4, CapsKept DEF Onward
<1>12. frames' \in Seq(CallsOfCompile) /\ set' = NoSet
  BY <1>1, <1>3
<1> QED
  BY <1>2, <1>9, <1>10, <1>11, <1>12, CompilerStep

LEMMA SetUnclosedKeeps ==
  ASSUME IInv, SetUnclosed, Quiet
  PROVE  IInv'
<1>1. InSet /\ re > Len(reg) /\ prog' = Fail(prog, "bracket") /\ set' = NoSet /\ UNCHANGED <<re, num_caps, frames>>
  BY DEF SetUnclosed
<1>2. phase = "compile"
  BY <1>1, SetPlace
<1>3. /\ Sized(prog) /\ frames \in Seq(CallsOfCompile) /\ re \in Nat /\ Len(reg) \in Nat /\ 1 <= re /\ re <= Len(reg) + 1
      /\ num_caps \in Nat /\ num_caps <= Before(reg, re) /\ ~ Escaped(reg, re)
  BY Place
<1>4. Sized(prog') /\ prog'.err = "bracket"
  <2>1. Sized(Fail(prog, "bracket")) /\ Fail(prog, "bracket").err = "bracket"
    BY <1>3, Failed DEF Errors
  <2> QED
    BY <1>1, <2>1
<1>5. Broken'
  <2>1. reg' = reg
    BY DEF Quiet
  <2> QED
    BY <1>1, <1>3, <2>1 DEF Broken
<1> QED
  BY <1>1, <1>2, <1>3, <1>4, <1>5, CompilerStep

LEMMA EnterKeeps ==
  ASSUME IInv, Enter, Quiet
  PROVE  IInv'
<1> DEFINE f == [last_op |-> Len(prog.code) + 1, branch_start |-> Len(prog.code) + 1, fixup |-> 0, level |-> num_caps]
           fs == << f >>
<1>0. re' = re /\ prog' = prog /\ num_caps' = num_caps /\ set' = set
  BY DEF Enter
<1>1. phase = "compile" /\ prog.err # "too long" /\ frames = <<>> /\ re <= Len(reg) /\ frames' = fs
  BY DEF Enter, Frame, End
<1>2. Compiler
  BY DEF IInv
<1>3. /\ Sized(prog) /\ re \in Nat /\ Len(reg) \in Nat /\ 1 <= re /\ re <= Len(reg) + 1
      /\ num_caps \in Nat /\ num_caps <= Before(reg, re) /\ ~ Escaped(reg, re)
  BY Place
<1>4. Len(prog.code) \in Nat
  BY <1>3, ListLength DEF Sized
<1>5. f \in CallsOfCompile /\ f.fixup = 0
  BY <1>3, <1>4 DEF CallsOfCompile
<1>6. fs \in Seq(CallsOfCompile) /\ Len(fs) = 1 /\ DOMAIN fs = {1} /\ fs[1].fixup = 0
  BY <1>5
<1>7. ASSUME prog'.err = "none" PROVE Possible(prog'.code, frames', set', reg, re', num_caps')
  <2>1. Possible(prog.code, <<>>, set, reg, re, num_caps)
    BY <1>0, <1>1, <1>2, <1>7 DEF Compiler, Compiling
  <2> DEFINE c == prog.code
  <2>2. f = [last_op |-> Len(c) + 1, branch_start |-> Len(c) + 1, fixup |-> 0, level |-> num_caps] /\ fs = << f >>
    OBVIOUS
  <2>3. Possible(c, <<>>, set, reg, re, num_caps)
    BY <2>1
  <2> HIDE DEF c, f, fs
  <2>4. Possible(c, fs, set, reg, re, num_caps)
    BY <1>1, <1>3, <2>2, <2>3, EnterPossible
  <2> QED
    BY <1>0, <1>1, <2>4 DEF c
<1>8. ASSUME prog'.err = "bracket" PROVE Broken'
  <2>1. Broken
    BY <1>0, <1>1, <1>2, <1>8 DEF Compiler
  <2>2. reg' = reg
    BY DEF Quiet
  <2> HIDE DEF fs
  <2>3. set = NoSet /\ (re > Len(reg) \/ reg[re] = ")")
    BY <2>1 DEF Broken
  <2>4. Len(frames') = 1 /\ \A k \in DOMAIN frames' : frames'[k].fixup = 0
    BY <1>1, <1>6
  <2>6. Len(frames') <= 1
    BY ONLY <2>4
  <2>5. reg' = reg /\ re' = re /\ set' = set /\ Len(frames') <= 1
    BY <1>0, <2>2, <2>6
  <2> QED
    BY <2>3, <2>4, <2>5 DEF Broken
<1>9. set' \in {NoSet} \union [op : {"ANYOF", "ANYBUT"}, from : Nat]
  BY <1>0, <1>2 DEF Compiler
<1> HIDE DEF fs, f
<1>10. frames' \in Seq(CallsOfCompile) /\ Sized(prog')
  BY <1>0, <1>1, <1>3, <1>6
<1>11. num_caps' \in Nat /\ num_caps' <= Before(reg, re') /\ re' \in 1 .. Len(reg) + 1 /\ ~ Escaped(reg, re')
  BY <1>0, <1>3
<1> QED
  BY ONLY IInv, Quiet, <1>1, <1>7, <1>8, <1>9, <1>10, <1>11, CompilerStep

LEMMA OpenKeeps ==
  ASSUME IInv, Open, Quiet
  PROVE  IInv'
<1> DEFINE b == "("
           l == num_caps + 1
           w == << "OPEN", l >>
           c == prog.code
           d == prog'.code
           e == Len(c) + 1
           h == [last_op |-> Len(d) + 1, branch_start |-> Len(d) + 1, fixup |-> 0, level |-> l]
           q == prog'
<1>1. /\ At(b) /\ b # ")" /\ b = "(" /\ num_caps' = l /\ prog' = Emit(prog, w) /\ re' = re + 1 /\ set' = set
      /\ frames' = Append([frames EXCEPT ![Len(frames)] = [frames[Len(frames)] EXCEPT !.last_op = e]], h)
  BY DEF Open, ReplaceTop, Top, End, Frame
<1> HIDE DEF b
<1>2. /\ phase = "compile" /\ set = NoSet /\ Sized(prog) /\ frames # <<>> /\ frames \in Seq(CallsOfCompile)
      /\ prog.err = "none" /\ Possible(prog.code, frames, NoSet, reg, re, num_caps)
      /\ re \in Nat /\ Len(reg) \in Nat /\ re <= Len(reg) /\ 1 <= re /\ reg[re] = "(" /\ ~ Escaped(reg, re)
      /\ num_caps \in Nat /\ num_caps <= Before(reg, re)
  BY <1>1, AtPlace
<1>3. Onward /\ b # "\\"
  BY <1>1, OnwardOne
<1>4. Grows(prog, prog')
  <2>1. Fits(w) /\ q = Emit(prog, w)
    BY <1>1, BracketFits
  <2> HIDE DEF w, q
  <2>2. Grows(prog, q)
    BY <1>2, <2>1, GrowsEmit
  <2> QED
    BY <2>2 DEF q
<1>5. PICK S, O : Coherent(prog.code, frames, S, O, NoSet, reg, re, num_caps)
  BY <1>2 DEF Possible
<1>6. Shape(c, S, O) /\ Calls(c, frames, S, O)
  BY <1>2, <1>5 DEF Coherent
<1>7. Continues(prog, S, O, prog', O, e) /\ (prog'.err = "none" => Len(c) < Len(d))
  BY <1>4, <1>6 DEF Grows
<1>8. Sized(prog') /\ prog'.err # "bracket"
  BY <1>2, <1>7 DEF Continues
<1>9. l \in Nat /\ e \in Nat /\ Len(d) \in Nat
  BY <1>2, <1>8, ListLength DEF Sized
<1>10. frames' = Append(Mark(frames, e), h)
  <2>1. Mark(frames, e) = [frames EXCEPT ![Len(frames)] = [frames[Len(frames)] EXCEPT !.last_op = e]]
    BY <1>2, <1>9, MarkIs
  <2> QED
    BY <1>1, <2>1
<1>11. frames' \in Seq(CallsOfCompile)
  <2> DEFINE gs == Mark(frames, e)
  <2>1. h \in CallsOfCompile
    BY <1>9 DEF CallsOfCompile
  <2>2. gs \in Seq(CallsOfCompile)
    BY <1>2, <1>9, MarkIs
  <2> HIDE DEF h, gs
  <2>3. Append(gs, h) \in Seq(CallsOfCompile)
    BY <2>1, <2>2
  <2> QED
    BY <1>10, <2>3 DEF gs
<1>12. ASSUME prog'.err = "none" PROVE Possible(prog'.code, frames', set', reg, re', num_caps')
  <2> DEFINE i == re'
             m == num_caps'
  <2>1. PICK S2 : Becomes(c, S, O, d, S2, O, e)
    BY <1>7, <1>12 DEF Continues
  <2>2. Len(c) < Len(d) /\ e = Len(c) + 1 /\ l \in Nat
    BY <1>7, <1>9, <1>12
  <2>3. Fresh(reg, i)
    <3>1. i - 1 = re
      BY <1>1, <1>2
    <3> QED
      BY <1>2, <3>1 DEF Fresh
  <2>4. h = [last_op |-> Len(d) + 1, branch_start |-> Len(d) + 1, fixup |-> 0, level |-> l]
    OBVIOUS
  <2>5. Shape(c, S, O) /\ Calls(c, frames, S, O) /\ frames \in Seq(CallsOfCompile) /\ frames # <<>>
    BY <1>2, <1>6
  <2> HIDE DEF c, d, e, h, i, m, l
  <2>6. Possible(d, Append(Mark(frames, e), h), NoSet, reg, i, m)
    BY ONLY <2>1, <2>2, <2>3, <2>4, <2>5, OpenPossible
  <2> QED
    BY <1>1, <1>2, <1>10, <2>6 DEF d, i, m
<1>13. num_caps' \in Nat /\ num_caps' <= Before(reg, re') /\ re' \in 1 .. Len(reg) + 1 /\ ~ Escaped(reg, re')
  <2>1. Before(reg, re + 1) = Before(reg, re) + 1
    BY <1>2, BeforeOpens
  <2>2. Before(reg, re) \in Nat
    BY <1>2, BeforeGrows
  <2> DEFINE x == Before(reg, re)
  <2>3. x \in Nat /\ num_caps <= x /\ num_caps \in Nat /\ Before(reg, re') = x + 1
    BY <1>1, <1>2, <2>1, <2>2
  <2> HIDE DEF x
  <2>4. num_caps' \in Nat /\ num_caps' <= Before(reg, re')
    BY <1>1, <2>3
  <2> QED
    BY <1>1, <1>2, <1>3, <2>4 DEF Onward
<1>14. set' = NoSet
  BY <1>1, <1>2
<1> QED
  BY <1>2, <1>8, <1>11, <1>12, <1>13, <1>14, CompilerStep

(* A call of compile that reaches a closing bracket without an error before. *)
LEMMA AtBracket ==
  ASSUME IInv, At(")"), prog.err = "none"
  PROVE  Possible(prog.code, frames, NoSet, reg, re, num_caps)
<1>1. Compiler /\ phase = "compile" /\ set = NoSet
  BY DEF IInv, At
<1> QED
  BY <1>1 DEF Compiler, Compiling

LEMMA CloseBracketKeeps ==
  ASSUME IInv, CloseBracket, Quiet
  PROVE  IInv'
<1> DEFINE b == ")"
           n == Len(frames)
           f == frames[n]
           a == f.branch_start
           x == f.fixup
           l == f.level
           c == prog.code
           d == prog'.code
           p == FixupBranch(prog, x)
           w == << "CLOSE", l >>
           u == prog'
           gs == SubSeq(frames, 1, n - 1)
<1>0. re' = re + 1 /\ num_caps' = num_caps /\ set' = set
  BY DEF CloseBracket
<1>1. At(b) /\ b = ")" /\ n > 1 /\ u = Emit(p, w) /\ frames' = gs
  BY DEF CloseBracket, Top, Caller
<1>2. /\ phase = "compile" /\ set = NoSet /\ Sized(prog) /\ frames # <<>> /\ frames \in Seq(CallsOfCompile)
      /\ re \in Nat /\ Len(reg) \in Nat /\ re <= Len(reg) /\ reg[re] = ")" /\ prog.err # "too long" /\ n \in Nat
  BY <1>1, AtPlace
<1>16. Len(frames) > 1
  BY DEF CloseBracket
<1>3. prog.err = "none" /\ Possible(c, frames, NoSet, reg, re, num_caps)
  <2>1. ~ Broken
    <3>2. re \in Nat /\ Len(reg) \in Nat /\ re <= Len(reg) /\ n \in Nat
      BY <1>2
    <3>1. ~ (re > Len(reg)) /\ ~ (Len(frames) <= 1)
      BY ONLY <1>16, <3>2
    <3> QED
      BY <3>1 DEF Broken
  <2>2. prog.err = "none"
    BY <1>2, <2>1 DEF IInv, Compiler, Sized, Errors
  <2> QED
    BY <1>1, <2>2, AtBracket
<1>4. PICK S, O : Coherent(c, frames, S, O, NoSet, reg, re, num_caps)
  BY <1>3 DEF Possible
<1>5. Shape(c, S, O) /\ Calls(c, frames, S, O)
  BY <1>2, <1>4 DEF Coherent
<1>6. Onward
  <2> HIDE DEF b
  <2>1. b # "\\"
    BY <1>1
  <2> QED
    BY <1>0, <1>1, <2>1, OnwardOne
<1> DEFINE O1 == O \ {a}
<1>7. Continues(prog, S, O, p, O1, a)
  <2>1. f = frames[Len(frames)] /\ a = f.branch_start /\ x = f.fixup /\ p = FixupBranch(prog, x)
    OBVIOUS
  <2>2. Shape(prog.code, S, O) /\ Calls(prog.code, frames, S, O)
    BY <1>5
  <2> HIDE DEF f, a, x, p
  <2> QED
    BY <1>2, <2>1, <2>2, FixupStep
<1>8. a \in S
  <2>1. frames[Len(frames)].branch_start \in S
    BY <1>2, <1>5, TopPlace
  <2> QED
    BY <2>1
<1>9. Continues(prog, S, O, u, O1, a)
  <2>1. w = << "CLOSE", l >> /\ u = Emit(p, w) /\ Shape(prog.code, S, O)
    BY <1>1, <1>5
  <2> HIDE DEF a, p, w, u, l, O1
  <2> QED
    BY <1>2, <1>7, <1>8, <2>1, CloseContinues
<1>10. Sized(prog') /\ prog'.err # "bracket"
  BY <1>3, <1>9 DEF Continues
<1>11. ASSUME prog'.err = "none" PROVE Possible(prog'.code, frames', set', reg, re', num_caps')
  <2> DEFINE j == re'
  <2>1. PICK S2 : Becomes(c, S, O, d, S2, O1, a)
    BY <1>9, <1>11 DEF Continues
  <2>2. n = Len(frames) /\ a = frames[n].branch_start /\ gs = SubSeq(frames, 1, n - 1)
    OBVIOUS
  <2>3. Becomes(c, S, O, d, S2, O \ {a}, a)
    BY <2>1
  <2> HIDE DEF n, a, c, d, gs, j
  <2>4. Possible(d, gs, NoSet, reg, j, num_caps)
    BY <1>1, <1>2, <1>5, <2>2, <2>3, ClosePossible
  <2> QED
    BY <1>0, <1>1, <1>2, <2>4 DEF d, j
<1>12. frames' \in Seq(CallsOfCompile)
  <2>1. frames \in Seq(CallsOfCompile) /\ n = Len(frames)
    BY <1>2
  <2> HIDE DEF n
  <2>2. SubSeq(frames, 1, n - 1) \in Seq(CallsOfCompile)
    BY ONLY <1>16, <2>1
  <2> QED
    BY <1>1, <2>2
<1>13. num_caps' \in Nat /\ num_caps' <= Before(reg, re') /\ re' \in 1 .. Len(reg) + 1 /\ ~ Escaped(reg, re')
  BY <1>0, <1>6, CapsKept DEF Onward
<1>14. set' = NoSet
  BY <1>0, <1>2
<1> QED
  BY ONLY IInv, Quiet, <1>2, <1>10, <1>11, <1>12, <1>13, <1>14, CompilerStep

LEMMA UnbalancedKeeps ==
  ASSUME IInv, Unbalanced, Quiet
  PROVE  IInv'
<1> DEFINE f == frames[Len(frames)]
           x == f.fixup
           p == FixupBranch(prog, x)
<1>0. re' = re /\ num_caps' = num_caps /\ set' = set
  BY DEF Unbalanced
<1>01. frames' = <<>>
  BY DEF Unbalanced
<1>1. At(")") /\ Len(frames) = 1 /\ prog' = IF f.level = 0 THEN Fail(p, "bracket") ELSE p
  BY DEF Unbalanced, Top
<1>2. /\ phase = "compile" /\ set = NoSet /\ Sized(prog) /\ frames # <<>> /\ frames \in Seq(CallsOfCompile)
      /\ re \in Nat /\ 1 <= re /\ Len(reg) \in Nat /\ re <= Len(reg) /\ reg[re] = ")" /\ prog.err # "too long"
      /\ num_caps \in Nat /\ num_caps <= Before(reg, re) /\ ~ Escaped(reg, re)
  BY <1>1, AtPlace
<1>3. Sized(p) /\ (f.level = 0 \/ p.err = "bracket")
  <2>1. CASE prog.err = "none"
    <3>1. PICK S, O : Coherent(prog.code, frames, S, O, NoSet, reg, re, num_caps)
      BY <1>1, <2>1, AtBracket DEF Possible
    <3>2. Shape(prog.code, S, O) /\ Calls(prog.code, frames, S, O)
      BY <1>2, <3>1 DEF Coherent
    <3>3. f.level = 0
      BY <1>1, <3>2 DEF Calls
    <3> DEFINE a == f.branch_start
    <3>4. f = frames[Len(frames)] /\ a = f.branch_start /\ x = f.fixup /\ p = FixupBranch(prog, x)
      OBVIOUS
    <3> HIDE DEF f, a, x, p
    <3>5. Continues(prog, S, O, p, O \ {a}, a)
      BY <1>2, <3>2, <3>4, FixupStep
    <3> QED
      BY <3>3, <3>5 DEF Continues
  <2>2. CASE prog.err = "bracket"
    <3>1. Broken
      BY <1>2, <2>2 DEF IInv, Compiler
    <3>4. Len(frames) \in DOMAIN frames
      BY <1>2, TopCall
    <3>2. x = 0
      BY <1>2, <3>1, <3>4 DEF Broken
    <3>3. p = prog
      BY <3>2 DEF FixupBranch
    <3> QED
      BY <1>2, <2>2, <3>3
  <2> QED
    BY <1>2, <2>1, <2>2 DEF Sized, Errors
<1>4. Sized(prog') /\ prog'.err = "bracket"
  <2> HIDE DEF p, f
  <2>1. Sized(Fail(p, "bracket")) /\ Fail(p, "bracket").err = "bracket"
    BY <1>3, Failed DEF Errors
  <2> QED
    BY <1>1, <1>3, <2>1
<1>5. Broken'
  <2>1. reg' = reg
    BY DEF Quiet
  <2>2. Len(frames') <= 1 /\ DOMAIN frames' = {}
    BY ONLY <1>01
  <2> QED
    BY <1>0, <1>2, <2>1, <2>2 DEF Broken
<1>6. frames' \in Seq(CallsOfCompile)
  BY <1>01
<1>7. num_caps' \in Nat /\ num_caps' <= Before(reg, re') /\ re' \in 1 .. Len(reg) + 1 /\ ~ Escaped(reg, re') /\ set' = NoSet
  <2>1. re \in Nat /\ 1 <= re /\ Len(reg) \in Nat /\ re <= Len(reg)
    BY <1>2
  <2>2. re \in 1 .. Len(reg) + 1
    BY ONLY <2>1
  <2> QED
    BY <1>0, <1>2, <2>2
<1> QED
  BY ONLY IInv, Quiet, <1>2, <1>4, <1>5, <1>6, <1>7, CompilerStep

LEMMA QuantifyStep ==
  ASSUME IInv, NEW c, c \in Quantifiers, At(c), Quiet, UNCHANGED <<num_caps, frames, set>>, Onward,
         NEW o \in Loops \union {"QUEST"}, prog' = Quantify(prog, Top.last_op, o)
  PROVE  IInv'
<1> DEFINE b == frames[Len(frames)].last_op
           d == prog'.code
           q == prog'
<1>0. c # ")" /\ b = frames[Len(frames)].last_op /\ q = Quantify(prog, b, o)
  BY DEF Quantifiers, Top
<1>1. /\ phase = "compile" /\ set = NoSet /\ Sized(prog) /\ frames # <<>> /\ frames \in Seq(CallsOfCompile)
      /\ prog.err = "none" /\ Possible(prog.code, frames, NoSet, reg, re, num_caps)
      /\ reg \in Pattern /\ re \in DOMAIN reg /\ reg[re] \in Quantifiers
  BY <1>0, AtPlace
<1>2. ~ AfterBar(reg, re) /\ ~ Fresh(reg, re)
  BY <1>1, Quantified
<1>3. PICK S, O : Coherent(prog.code, frames, S, O, NoSet, reg, re, num_caps)
  BY <1>1 DEF Possible
<1>4. Shape(prog.code, S, O) /\ Whole(prog.code, S, O, b) /\ b <= Len(prog.code) /\ \A x \in O : x < b
  <2> HIDE DEF b
  <2> QED
    BY <1>0, <1>1, <1>2, <1>3, QuantifyReady
<1>5. Continues(prog, S, O, q, O, b) /\ (q.err = "none" => b <= Len(q.code))
  <2> HIDE DEF b, q
  <2> QED
    BY <1>0, <1>1, <1>4, QuantifyContinues
<1>6. ASSUME prog'.err = "none" PROVE Possible(prog'.code, frames', set', reg, re', num_caps')
  <2> DEFINE j == re'
             e == prog.code
  <2>1. PICK S2 : Becomes(e, S, O, d, S2, O, b)
    BY <1>5, <1>6 DEF Continues
  <2>2. b <= Len(d) /\ Coherent(e, frames, S, O, NoSet, reg, re, num_caps)
    BY <1>3, <1>5, <1>6
  <2> HIDE DEF b, d, j, e, q
  <2>3. Possible(d, frames, NoSet, reg, j, num_caps)
    BY <1>0, <1>1, <1>2, <2>1, <2>2, QuantifyPossible
  <2> QED
    BY <1>1, <2>3 DEF d, j
<1>7. Sized(prog') /\ prog'.err # "bracket"
  BY <1>1, <1>5 DEF Continues
<1>8. num_caps' \in Nat /\ num_caps' <= Before(reg, re') /\ re' \in 1 .. Len(reg) + 1 /\ ~ Escaped(reg, re')
  BY CapsKept DEF Onward
<1>9. frames' \in Seq(CallsOfCompile) /\ set' = NoSet
  BY <1>1
<1> QED
  BY ONLY IInv, Quiet, <1>1, <1>6, <1>7, <1>8, <1>9, CompilerStep

LEMMA RepeatKeeps ==
  ASSUME IInv, Repeat, Quiet
  PROVE  IInv'
<1>1. PICK c \in {"*", "+"} : At(c)
  BY DEF Repeat
<1>2. re \in Nat /\ Len(reg) \in Nat /\ c \in Quantifiers /\ c # "\\"
  BY <1>1, AtPlace DEF Quantifiers
<1>3. Onward
  <2>1. CASE re < Len(reg) /\ reg[re + 1] = "?"
    <3>1. re' = re + 2 /\ reg[re + 1] # "\\"
      BY <2>1 DEF Repeat
    <3> QED
      BY <1>1, <2>1, <3>1, OnwardTwo
  <2>2. CASE ~ (re < Len(reg) /\ reg[re + 1] = "?")
    <3>1. re' = re + 1
      BY <2>2 DEF Repeat
    <3> QED
      BY <1>1, <1>2, <3>1, OnwardOne
  <2> QED
    BY <2>1, <2>2
<1>4. PICK o \in Loops : prog' = Quantify(prog, Top.last_op, o)
  <2>1. \E o \in {"STAR", "PLUS", "STARQ", "PLUSQ"} : prog' = Quantify(prog, Top.last_op, o)
    <3> DEFINE kind == IF reg[re] = "*" THEN IF re < Len(reg) /\ reg[re + 1] = "?" THEN "STARQ" ELSE "STAR"
                       ELSE IF re < Len(reg) /\ reg[re + 1] = "?" THEN "PLUSQ" ELSE "PLUS"
    <3>1. kind \in {"STAR", "PLUS", "STARQ", "PLUSQ"}
      OBVIOUS
    <3>2. prog' = Quantify(prog, Top.last_op, kind)
      BY DEF Repeat
    <3> HIDE DEF kind
    <3> QED
      BY <3>1, <3>2
  <2> QED
    BY <2>1 DEF Loops
<1>5. UNCHANGED <<num_caps, frames, set>> /\ o \in Loops \union {"QUEST"}
  BY DEF Repeat
<1> QED
  BY ONLY IInv, Quiet, <1>1, <1>2, <1>3, <1>4, <1>5, QuantifyStep

LEMMA OptionalKeeps ==
  ASSUME IInv, Optional, Quiet
  PROVE  IInv'
<1> DEFINE c == "?"
           o == "QUEST"
<1>1. /\ At(c) /\ c \in Quantifiers /\ c # "\\" /\ re' = re + 1 /\ prog' = Quantify(prog, Top.last_op, o)
      /\ UNCHANGED <<num_caps, frames, set>> /\ o \in Loops \union {"QUEST"}
  BY DEF Optional, Quantifiers
<1> HIDE DEF c, o
<1>2. Onward
  BY <1>1, OnwardOne
<1> QED
  BY ONLY IInv, Quiet, <1>1, <1>2, QuantifyStep

LEMMA AlternativeKeeps ==
  ASSUME IInv, Alternative, Quiet
  PROVE  IInv'
<1> DEFINE b == "|"
           n == Len(frames)
           f == frames[n]
           a == f.branch_start
           x == f.fixup
           c == prog.code
           d == prog'.code
           p == FixupBranch(prog, x)
           u == prog'
           gs == Changed(frames, n, [f EXCEPT !.fixup = a + 2])
<1>0. re' = re + 1 /\ num_caps' = num_caps /\ set' = set
  BY DEF Alternative
<1>1. At(b) /\ b = "|" /\ b # ")" /\ b # "\\" /\ u = Branch(p, a) /\ frames' = gs
  BY DEF Alternative, Top, ReplaceTop, Changed
<1> HIDE DEF b
<1>2. /\ phase = "compile" /\ set = NoSet /\ Sized(prog) /\ frames # <<>> /\ frames \in Seq(CallsOfCompile)
      /\ prog.err = "none" /\ Possible(c, frames, NoSet, reg, re, num_caps)
      /\ re \in Nat /\ 1 <= re /\ reg[re] = "|" /\ ~ Escaped(reg, re)
  BY <1>1, AtPlace
<1>4. PICK S, O : Coherent(c, frames, S, O, NoSet, reg, re, num_caps)
  BY <1>2 DEF Possible
<1>5. Shape(c, S, O) /\ Calls(c, frames, S, O)
  BY <1>2, <1>4 DEF Coherent
<1>6. Onward
  BY <1>0, <1>1, OnwardOne
<1> DEFINE O1 == O \ {a}
           O2 == O \union {a}
<1>7. Continues(prog, S, O, p, O1, a)
  <2>1. f = frames[Len(frames)] /\ a = f.branch_start /\ x = f.fixup /\ p = FixupBranch(prog, x)
    OBVIOUS
  <2>2. Shape(prog.code, S, O) /\ Calls(prog.code, frames, S, O)
    BY <1>5
  <2> HIDE DEF f, a, x, p
  <2> QED
    BY <1>2, <2>1, <2>2, FixupStep
<1>8. Whole(c, S, O, a) /\ \A y \in O : y <= a
  <2>1. /\ FrameOK(c, frames[Len(frames)], S, O)
        /\ \A o \in O : o <= frames[Len(frames)].branch_start
    BY <1>2, <1>5, TopPlace
  <2> QED
    BY <2>1 DEF FrameOK
<1>9. Continues(prog, S, O, u, O2, a) /\ (u.err = "none" => a <= Len(u.code) /\ u.code[a] = "BRANCH")
  <2>1. O1 = O \ {a} /\ O2 = O \union {a} /\ u = Branch(p, a)
    BY <1>1
  <2>2. Shape(prog.code, S, O) /\ Whole(prog.code, S, O, a) /\ Sized(prog)
    BY <1>2, <1>5, <1>8
  <2> HIDE DEF a, p, u, O1, O2
  <2> QED
    BY ONLY <1>7, <1>8, <2>1, <2>2, AlternativeContinues
<1>10. Sized(prog') /\ prog'.err # "bracket"
  BY <1>2, <1>9 DEF Continues
<1>11. ASSUME prog'.err = "none" PROVE Possible(prog'.code, frames', set', reg, re', num_caps')
  <2>1. PICK S2 : Becomes(c, S, O, d, S2, O2, a)
    BY <1>9, <1>11 DEF Continues
  <2>2. /\ n = Len(frames) /\ a = frames[n].branch_start /\ gs = Changed(frames, n, [frames[n] EXCEPT !.fixup = a + 2])
        /\ a <= Len(d) /\ d[a] = "BRANCH"
    BY <1>9, <1>11
  <2>3. Becomes(c, S, O, d, S2, O \union {a}, a)
    BY <2>1
  <2> HIDE DEF n, a, c, d, gs
  <2>4. Possible(d, gs, NoSet, reg, re + 1, num_caps)
    BY <1>2, <1>5, <2>2, <2>3, AlternativePossible
  <2> QED
    BY <1>0, <1>1, <1>2, <2>4 DEF d
<1>12. frames' \in Seq(CallsOfCompile)
  <2>1. n \in 1 .. n /\ f \in CallsOfCompile /\ a \in Nat
    BY <1>2, TopCall
  <2> DEFINE y == a + 2
             g == [f EXCEPT !.fixup = y]
  <2>2. y \in Nat
    BY <2>1
  <2> HIDE DEF y
  <2>3. g \in CallsOfCompile
    <3> HIDE DEF f
    <3> QED
      BY <2>1, <2>2 DEF CallsOfCompile
  <2>4. gs = [frames EXCEPT ![n] = g]
    BY DEF Changed, y
  <2> HIDE DEF g, gs
  <2>5. gs \in Seq(CallsOfCompile)
    BY <1>2, <2>1, <2>3, <2>4
  <2> QED
    BY <1>1, <2>5
<1>13. num_caps' \in Nat /\ num_caps' <= Before(reg, re') /\ re' \in 1 .. Len(reg) + 1 /\ ~ Escaped(reg, re')
  BY <1>0, <1>6, CapsKept DEF Onward
<1>14. set' = NoSet
  BY <1>0, <1>2
<1> QED
  BY ONLY IInv, Quiet, <1>2, <1>10, <1>11, <1>12, <1>13, <1>14, CompilerStep

LEMMA PatternEndKeeps ==
  ASSUME IInv, PatternEnd, Quiet
  PROVE  IInv'
<1>0. re' = re /\ prog' = prog /\ num_caps' = num_caps /\ set' = set
  BY DEF PatternEnd
<1>01. frames' = <<>>
  BY DEF PatternEnd
<1>1. phase = "compile" /\ prog.err # "too long" /\ set = NoSet /\ Len(frames) = 1 /\ re > Len(reg)
  BY DEF PatternEnd
<1>2. /\ Sized(prog) /\ frames \in Seq(CallsOfCompile) /\ re \in Nat /\ Len(reg) \in Nat /\ 1 <= re /\ re <= Len(reg) + 1
      /\ num_caps \in Nat /\ num_caps <= Before(reg, re) /\ ~ Escaped(reg, re)
  BY Place
<1>3. ASSUME prog'.err = "none" PROVE Possible(prog'.code, frames', set', reg, re', num_caps')
  <2>1. Possible(prog.code, frames, NoSet, reg, re, num_caps)
    BY <1>0, <1>1, <1>3 DEF IInv, Compiler, Compiling
  <2>2. Possible(prog.code, <<>>, NoSet, reg, re, num_caps)
    BY <1>1, <1>2, <2>1, EndPossible
  <2> QED
    BY <1>0, <1>01, <1>1, <2>2
<1>4. Broken'
  <2>1. reg' = reg
    BY DEF Quiet
  <2>2. re > Len(reg) /\ re \in Nat /\ Len(reg) \in Nat
    BY <1>1, <1>2
  <2>3. re > Len(reg) /\ ~ (re <= Len(reg))
    BY ONLY <2>2
  <2>4. re' > Len(reg') /\ ~ (re' <= Len(reg')) /\ set' = NoSet
    BY <1>0, <1>1, <2>1, <2>3
  <2> QED
    BY <2>4 DEF Broken
<1>5. frames' \in Seq(CallsOfCompile)
  BY <1>01
<1>6. num_caps' \in Nat /\ num_caps' <= Before(reg, re') /\ re' \in 1 .. Len(reg) + 1 /\ ~ Escaped(reg, re') /\ set' = NoSet
  <2>1. re \in Nat /\ 1 <= re /\ Len(reg) \in Nat /\ re <= Len(reg) + 1
    BY <1>2
  <2>2. re \in 1 .. Len(reg) + 1
    BY ONLY <2>1
  <2>3. set = NoSet
    BY <1>1
  <2> QED
    BY <1>0, <1>2, <2>2, <2>3
<1>7. Sized(prog')
  BY <1>0, <1>2
<1> QED
  BY ONLY IInv, Quiet, <1>1, <1>3, <1>4, <1>5, <1>6, <1>7, CompilerStep

LEMMA CompileStepKeeps ==
  ASSUME IInv, CompileStep
  PROVE  IInv'
<1>1. Quiet
  BY DEF CompileStep, Quiet
<1>2. \/ Enter \/ Anchor \/ AnyChar \/ Escape \/ Exact
      \/ SetOpen \/ SetChar \/ SetEscape \/ SetClose \/ SetUnclosed
      \/ Open \/ CloseBracket \/ Unbalanced \/ Repeat \/ Optional \/ Alternative
      \/ PatternEnd
  BY DEF CompileStep
<1> QED
  BY ONLY IInv, <1>1, <1>2, EnterKeeps, AnchorKeeps, AnyCharKeeps, EscapeKeeps, ExactKeeps,
          SetOpenKeeps, SetCharKeeps, SetEscapeKeeps, SetCloseKeeps, SetUnclosedKeeps,
          OpenKeeps, CloseBracketKeeps, UnbalancedKeeps, RepeatKeeps, OptionalKeeps, AlternativeKeeps,
          PatternEndKeeps

-----------------------------------------------------------------------------
(* The end of compilation, and the steps that end all.                     *)

LEMMA Left ==
  ASSUME IInv, phase # "match" \/ stack = <<>>, phase' \in {"done", "lost"}, UNCHANGED <<compiler, matcher>>,
         ret' \in {0, -1, -11, -12}, nsub' \in 0 .. MaxSub
  PROVE  IInv'
<1>1. stack = <<>>
  BY DEF IInv, Matcher
<1>2. Compiler'
  BY DEF IInv, Compiler, compiler
<1>3. Matcher'
  <2>1. /\ txt' = txt /\ start' = start /\ ofs' = ofs /\ stack' = stack
        /\ phase' # "compile" /\ phase' # "match" /\ phase' # "scan"
    BY DEF matcher
  <2> QED
    BY <1>1, <2>1 DEF IInv, Matcher, Offsets
<1>4. Result'
  BY DEF IInv, Result, matcher
<1> QED
  BY <1>2, <1>3, <1>4 DEF IInv

LEMMA UnclosedKeeps ==
  ASSUME IInv, Unclosed
  PROVE  IInv'
<1>0. /\ reg' = reg /\ re' = re /\ num_caps' = num_caps /\ set' = set /\ UNCHANGED <<matcher, result>>
      /\ phase' \in {"compile", "lost"}
  BY DEF Unclosed
<1>01. frames' = <<>>
  BY DEF Unclosed
<1>1. phase = "compile" /\ set = NoSet /\ re > Len(reg) /\ prog' = Fail(prog, "bracket")
  BY DEF Unclosed
<1>2. Compiler /\ Sized(prog) /\ re \in Nat /\ Len(reg) \in Nat
  BY Place DEF IInv
<1>3. Sized(prog') /\ prog'.err = "bracket"
  <2>1. Sized(Fail(prog, "bracket")) /\ Fail(prog, "bracket").err = "bracket"
    BY <1>2, Failed DEF Errors
  <2> QED
    BY <1>1, <2>1
<1>4. Broken'
  <2>1. re > Len(reg) /\ ~ (re <= Len(reg))
    BY <1>1, <1>2
  <2>2. re' > Len(reg') /\ ~ (re' <= Len(reg')) /\ set' = NoSet
    BY <1>0, <1>1, <2>1
  <2> QED
    BY <2>2 DEF Broken
<1>5. frames' \in Seq(CallsOfCompile)
  BY <1>01
<1>6. Compiler'
  BY <1>0, <1>2, <1>3, <1>4, <1>5 DEF Compiler
<1>7. Matcher'
  <2>1. /\ txt' = txt /\ start' = start /\ ofs' = ofs /\ stack' = stack
        /\ phase' # "match" /\ phase' # "scan"
    BY <1>0 DEF matcher
  <2> QED
    BY <1>1, <2>1 DEF IInv, Matcher, Offsets
<1>8. Result'
  BY <1>0 DEF IInv, Result, matcher, result
<1> QED
  BY <1>6, <1>7, <1>8 DEF IInv

LEMMA EscapeEndKeeps ==
  ASSUME IInv, EscapeEnd
  PROVE  IInv'
<1>1. /\ phase # "match" /\ phase' \in {"done", "lost"} /\ UNCHANGED <<compiler, matcher>>
      /\ ret' \in {0, -1, -11, -12} /\ nsub' \in 0 .. MaxSub
  BY DEF EscapeEnd, result, IInv, Result
<1> QED
  BY <1>1, Left

LEMMA TooLongKeeps ==
  ASSUME IInv, TooLong
  PROVE  IInv'
<1>1. /\ phase # "match" /\ phase' \in {"done", "lost"} /\ UNCHANGED <<compiler, matcher>>
      /\ ret' \in {0, -1, -11, -12} /\ nsub' \in 0 .. MaxSub
  BY DEF TooLong, Finish, result, IInv, Result
<1> QED
  BY <1>1, Left

LEMMA NoMatchKeeps ==
  ASSUME IInv, NoMatch
  PROVE  IInv'
<1>1. /\ phase # "match" /\ phase' \in {"done", "lost"} /\ UNCHANGED <<compiler, matcher>>
      /\ ret' \in {0, -1, -11, -12}
  BY DEF NoMatch, Finish
<1>2. nsub' = 0 /\ MaxSub \in Nat
  BY RegexAssumption DEF NoMatch, Finish
<1>3. nsub' \in 0 .. MaxSub
  BY <1>2
<1> QED
  BY <1>1, <1>3, Left

LEMMA FixupSized ==
  ASSUME NEW p, Sized(p), NEW x, NEW q, q = FixupBranch(p, x)
  PROVE  Sized(q) /\ (q.err = p.err \/ q.err = "too long")
<1> DEFINE w == << "END" >>
           u == Emit(p, w)
           y == x - 2
<1>1. Listed(w)
  BY OneCell
<1>2. q = p \/ q = SetJump(u, x, y)
  BY DEF FixupBranch
<1>3. u = Emit(p, w)
  OBVIOUS
<1> HIDE DEF w, u, y
<1>4. Sized(u) /\ (u.err = p.err \/ u.err = "too long")
  BY <1>1, <1>3, Emitted
<1>5. Sized(SetJump(u, x, y)) /\ SetJump(u, x, y).err = u.err
  BY <1>4, JumpSized
<1> QED
  BY <1>2, <1>4, <1>5

LEMMA Joined ==
  ASSUME NEW x, NEW y, NEW z
  PROVE  << x, y >> \o << z >> = << x, y, z >>
<1> DEFINE A == {x, y, z}
           v == << x, y >>
           w == << z >>
           u == << x, y, z >>
<1>1. v \in Seq(A) /\ w \in Seq(A) /\ u \in Seq(A)
  <2>1. x \in A /\ y \in A /\ z \in A
    OBVIOUS
  <2> HIDE DEF A
  <2> QED
    BY <2>1
<1>2. Len(v) = 2 /\ Len(w) = 1 /\ Len(u) = 3 /\ v[1] = x /\ v[2] = y /\ w[1] = z /\ u[1] = x /\ u[2] = y /\ u[3] = z
  OBVIOUS
<1> HIDE DEF A, v, w, u
<1>3. /\ v \o w \in Seq(A) /\ Len(v \o w) = 3
      /\ (v \o w)[1] = x /\ (v \o w)[2] = y /\ (v \o w)[3] = z
  <2>1. v \o w \in Seq(A)
    BY <1>1
  <2>2. /\ Listed(v) /\ Listed(w)
    BY <1>1 DEF Listed
  <2>3. /\ Len(v \o w) = Len(v) + Len(w)
        /\ \A i \in 1 .. Len(v) : (v \o w)[i] = v[i]
        /\ \A i \in 1 .. Len(w) : (v \o w)[Len(v) + i] = w[i]
    BY ONLY <2>2, ListJoin
  <2>4. 1 \in 1 .. Len(v) /\ 2 \in 1 .. Len(v) /\ 1 \in 1 .. Len(w) /\ Len(v) + 1 = 3 /\ Len(v) + Len(w) = 3
    BY ONLY <1>2
  <2> QED
    BY <1>2, <2>1, <2>3, <2>4
<1> DEFINE r == v \o w
<1>4. \A i \in 1 .. 3 : i = 1 \/ i = 2 \/ i = 3
  OBVIOUS
<1> HIDE DEF r
<1>5. r \in Seq(A) /\ Len(r) = 3 /\ \A i \in 1 .. 3 : r[i] = u[i]
  BY <1>2, <1>3, <1>4 DEF r
<1>6. r = u
  BY <1>1, <1>2, <1>5, SeqEqual
<1> QED
  BY <1>6 DEF r, v, w, u

LEMMA Regrouped ==
  ASSUME NEW a, NEW b, NEW c, Listed(a), Listed(b), Listed(c)
  PROVE  a \o (b \o c) = (a \o b) \o c
<1>1. PICK A : a \in Seq(A)
  BY DEF Listed
<1>2. PICK B : b \in Seq(B)
  BY DEF Listed
<1>3. PICK C : c \in Seq(C)
  BY DEF Listed
<1> DEFINE D == A \union B \union C
<1>4. a \in Seq(D) /\ b \in Seq(D) /\ c \in Seq(D)
  BY <1>1, <1>2, <1>3
<1> HIDE DEF D
<1> QED
  BY <1>4, ConcatAssociative

(* The program with its end is one that can be run. *)
LEMMA Completed ==
  ASSUME NEW c, NEW S, Shape(c, S, {}), NEW d, d = c \o << "CLOSE", 0, "END" >>
  PROVE  \E T : Runs(d, T)
<1> DEFINE w == << "CLOSE", 0 >>
           z == << "END" >>
           m == c \o w
           S1 == S \union {Len(m) + 1}
           S2 == S1 \union {Len(d) + 1}
           n == Len(d)
           T == S2 \ {n + 1}
<1>1. Fits(w) /\ Fits(z)
  BY BracketFits, SimpleFits
<1>2. Listed(c) /\ Listed(w) /\ Listed(z)
  BY <1>1 DEF Shape, Fits
<1>3. d = m \o z
  <2>1. w \o z = << "CLOSE", 0, "END" >>
    BY Joined
  <2>2. c \o (w \o z) = (c \o w) \o z
    <3> HIDE DEF w, z
    <3> QED
      BY <1>2, Regrouped
  <2> QED
    BY <2>1, <2>2
<1>4. Becomes(c, S, {}, m, S1, {}, Len(c) + 1) /\ Len(m) \in Nat
  <2> HIDE DEF w
  <2>1. m = c \o w
    OBVIOUS
  <2> HIDE DEF m
  <2>2. Becomes(c, S, {}, m, S \union {Len(m) + 1}, {}, Len(c) + 1) /\ Len(m) \in Nat /\ Len(c) < Len(m)
    BY <1>1, <2>1, Added
  <2> QED
    BY <2>2
<1>5. Shape(m, S1, {})
  BY <1>4 DEF Becomes
<1>6. Becomes(m, S1, {}, d, S2, {}, Len(m) + 1) /\ n \in Nat /\ n = Len(m) + 1 /\ d[n] = "END"
  <2> HIDE DEF S1, m
  <2>1. Becomes(m, S1, {}, d, S1 \union {Len(d) + 1}, {}, Len(m) + 1) /\ Len(d) \in Nat
    BY <1>1, <1>3, <1>5, Added
  <2>2. Listed(m) /\ Len(z) = 1 /\ z[1] = "END"
    BY <1>5 DEF Shape
  <2>3. Len(m) \in Nat /\ Len(m \o z) = Len(m) + Len(z) /\ \A i \in 1 .. Len(z) : (m \o z)[Len(m) + i] = z[i]
    <3>1. Listed(z)
      BY <1>2
    <3>2. Listed(m)
      BY <2>2
    <3> HIDE DEF z
    <3>3. Len(m \o z) = Len(m) + Len(z) /\ \A i \in 1 .. Len(z) : (m \o z)[Len(m) + i] = z[i]
      BY ONLY <3>1, <3>2, ListJoin
    <3> QED
      BY <1>4, <3>3
  <2>4. Len(d) = Len(m) + 1 /\ d[Len(m) + 1] = "END"
    BY <1>3, <2>2, <2>3
  <2> QED
    BY <2>1, <2>4
<1>7. Whole(d, S2, {}, n)
  <2>1. Whole(m, S1, {}, Len(m) + 1) /\ Len(m) + 1 \in S1
    BY <1>5, EndWhole DEF Shape
  <2> DEFINE y == Len(m) + 1
  <2>2. y \in S1 /\ y <= y /\ Whole(m, S1, {}, y) /\ Becomes(m, S1, {}, d, S2, {}, y) /\ n = y
    BY <1>6, <2>1
  <2> HIDE DEF y, S1, S2, m, n
  <2> QED
    BY <2>2 DEF Becomes
<1>8. Shape(d, S2, {})
  BY <1>6 DEF Becomes
<1> HIDE DEF S1, S2, m, w, z
<1>9. /\ Listed(d) /\ S2 \subseteq 1 .. n + 1 /\ 1 \in S2 /\ Apart(d, S2) /\ n \in S2 /\ n \in Nat /\ n >= 1
      /\ \A s \in S2 : s <= n => Instr(d, S2, {}, s)
  <2>1. n \in S2
    BY <1>7 DEF Whole
  <2>2. Listed(d) /\ S2 \subseteq 1 .. n + 1 /\ 1 \in S2 /\ Apart(d, S2) /\ \A s \in S2 : s <= n => Instr(d, S2, {}, s)
    BY <1>8 DEF Shape
  <2>3. n \in Nat
    BY <1>6
  <2>4. n >= 1
    BY ONLY <2>1, <2>2, <2>3
  <2> QED
    BY <2>1, <2>2, <2>3, <2>4
<1> HIDE DEF n
<1>10. T \subseteq 1 .. n /\ 1 \in T /\ T \subseteq S2
  BY <1>9
<1>19. ASSUME NEW x \in S2, x <= n PROVE x \in T
  <2>1. x \in Nat /\ x # n + 1
    BY <1>9, <1>19
  <2> QED
    BY <2>1
<1>11. ASSUME NEW s \in T PROVE s \in S2 /\ s \in Nat /\ s <= n /\ Instr(d, S2, {}, s) /\ Width(d[s]) \in {1, 2, 3}
  BY <1>9, <1>10, Widths
<1>12. ASSUME NEW s \in T, s < n PROVE Within(d, {}, s, n) /\ s + Width(d[s]) <= n
  BY <1>7, <1>9, <1>11, <1>12 DEF Whole, Apart
<1>20. ASSUME NEW s \in T, d[s] # "END" PROVE s < n
  <2>1. s # n
    BY <1>6, <1>20
  <2> QED
    BY <1>9, <1>11, <2>1
<1>13. ASSUME NEW s \in T, s < n PROVE s + Width(d[s]) \in T
  <2>2. s < n
    BY <1>13
  <2>3. s + Width(d[s]) <= n /\ s + Width(d[s]) \in S2
    BY <1>11, <1>12, <2>2 DEF Instr
  <2> DEFINE x == s + Width(d[s])
  <2>4. x \in S2 /\ x <= n
    BY <2>3
  <2> HIDE DEF x, T
  <2>5. x \in T
    BY ONLY <1>19, <2>4
  <2> QED
    BY <2>2, <2>5 DEF x
<1>14. ASSUME NEW s \in T, d[s] \in Jumps PROVE s + d[s + 1] \in T
  <2>1. s < n
    BY <1>20, <1>14 DEF Jumps, Loops
  <2>2. d[s + 1] \in Nat /\ s + d[s + 1] \in S2
    BY <1>11, <1>14 DEF Instr
  <2>3. s + d[s + 1] <= n
    BY <1>12, <1>14, <2>1 DEF Within
  <2> DEFINE x == s + d[s + 1]
  <2>4. x \in S2 /\ x <= n
    BY <2>2, <2>3
  <2> HIDE DEF x, T
  <2>5. x \in T
    BY ONLY <1>19, <2>4
  <2> QED
    BY <2>5 DEF x
<1>15. ASSUME NEW s \in T, d[s] = "BRANCH" PROVE s + d[s + 2] \in T
  <2>1. s < n
    BY <1>20, <1>15
  <2>2. d[s + 2] \in Nat /\ s + d[s + 2] \in S2
    BY <1>11, <1>15 DEF Instr
  <2>3. s + d[s + 2] <= n
    BY <1>12, <1>15, <2>1 DEF Within
  <2> DEFINE x == s + d[s + 2]
  <2>4. x \in S2 /\ x <= n
    BY <2>2, <2>3
  <2> HIDE DEF x, T
  <2>5. x \in T
    BY ONLY <1>19, <2>4
  <2> QED
    BY <2>5 DEF x
<1>16. \A s \in T : d[s] = "EXACT" => d[s + 2] \in Nat
  BY <1>11 DEF Instr
<1>17. Apart(d, T)
  BY <1>9, <1>10 DEF Apart
<1>18. T \subseteq 1 .. Len(d)
  BY <1>10 DEF n
<1>21. \A s \in T : s < Len(d) => s + Width(d[s]) \in T
  BY <1>13 DEF n
<1>22. d[Len(d)] = "END"
  BY <1>6 DEF n
<1> HIDE DEF T
<1> QED
  BY <1>9, <1>10, <1>14, <1>15, <1>16, <1>17, <1>18, <1>21, <1>22 DEF Runs

(* What slre_compile leaves to be run. *)
LEMMA ReadyToRun ==
  ASSUME IInv, phase = "compile", frames = <<>>, re > Len(reg),
         NEW p, p = (IF Len(prog.code) > 2 /\ prog.code[3] = "BRANCH" THEN FixupBranch(prog, 5) ELSE prog),
         NEW q, q = Emit(p, << "CLOSE", 0, "END" >>)
  PROVE  /\ Sized(q) /\ (q.err = prog.err \/ q.err = "too long")
         /\ q.err = "none" => \E T : Runs(q.code, T)
<1> DEFINE w == << "CLOSE", 0, "END" >>
<1>1. Sized(prog)
  BY Place
<1>2. Sized(p) /\ (p.err = prog.err \/ p.err = "too long")
  <2> DEFINE u == FixupBranch(prog, 5)
  <2>1. p = u \/ p = prog
    OBVIOUS
  <2> HIDE DEF u
  <2>2. Sized(u) /\ (u.err = prog.err \/ u.err = "too long")
    BY <1>1, FixupSized DEF u
  <2> QED
    BY <1>1, <2>1, <2>2
<1>3. Listed(w)
  BY ThreeCells
<1>4. /\ Sized(q)
      /\ \/ q.err = "too long" /\ q.code = p.code
         \/ q.err = p.err /\ p.err # "too long" /\ q.code = p.code \o w
  <2>1. q = Emit(p, w)
    OBVIOUS
  <2> HIDE DEF w
  <2>2. /\ Sized(q) /\ q.data = p.data
        /\ \/ q.err = "too long" /\ q.code = p.code
           \/ q.err = p.err /\ p.err # "too long" /\ q.code = p.code \o w
    <3>1. Sized(p)
      BY <1>2
    <3> QED
      BY ONLY <3>1, <1>3, <2>1, Emitted, Zenon
  <2> QED
    BY <2>2
<1>5. ASSUME q.err = "none" PROVE \E T : Runs(q.code, T)
  <2>1. prog.err = "none" /\ p.err = "none" /\ q.code = p.code \o << "CLOSE", 0, "END" >>
    BY <1>2, <1>4, <1>5
  <2>2. PICK S, O : Coherent(prog.code, frames, S, O, set, reg, re, num_caps)
    BY <2>1 DEF IInv, Compiler, Compiling, Possible
  <2>3. Shape(prog.code, S, O) /\ 3 \in S /\ O \subseteq {3}
    BY <2>2 DEF Coherent, Between
  <2>4. Len(prog.code) \in Nat
    BY <1>1, ListLength DEF Sized
  <2>5. PICK S1 : Shape(p.code, S1, {})
    <3>1. CASE Len(prog.code) > 2 /\ prog.code[3] = "BRANCH"
      <4> DEFINE a == 3
                 f == 5
      <4>1. p = FixupBranch(prog, f) /\ a \in S /\ a <= Len(prog.code) /\ prog.code[a] = "BRANCH" /\ f = a + 2
        BY <2>3, <2>4, <3>1
      <4>2. O \ {a} = {}
        BY <2>3
      <4> HIDE DEF a, f
      <4>3. Continues(prog, S, O, p, O \ {a}, a)
        BY ONLY <1>1, <2>3, <4>1, FixupContinues
      <4>4. PICK S1 : Becomes(prog.code, S, O, p.code, S1, O \ {a}, a)
        BY <2>1, <4>3 DEF Continues
      <4> QED
        BY <4>2, <4>4 DEF Becomes
    <3>2. CASE ~ (Len(prog.code) > 2 /\ prog.code[3] = "BRANCH")
      <4>1. p = prog
        BY <3>2
      <4>2. ASSUME 3 \in O PROVE FALSE
        <5>1. 3 <= Len(prog.code) /\ prog.code[3] = "BRANCH"
          BY <2>3, <4>2 DEF Shape
        <5> QED
          BY <2>4, <3>2, <5>1
      <4>3. O = {}
        BY <2>3, <4>2
      <4> QED
        BY <2>3, <4>1, <4>3
    <3> QED
      BY <3>1, <3>2
  <2> DEFINE d == q.code
             c == p.code
  <2>6. d = c \o << "CLOSE", 0, "END" >> /\ Shape(c, S1, {})
    BY <2>1, <2>5
  <2> HIDE DEF c, d
  <2>7. \E T : Runs(d, T)
    BY ONLY <2>6, Completed
  <2> QED
    BY <2>7 DEF d
<1> QED
  BY <1>2, <1>4, <1>5

LEMMA CompiledKeeps ==
  ASSUME IInv, Compiled
  PROVE  IInv'
<1> DEFINE p == IF Len(prog.code) > 2 /\ prog.code[3] = "BRANCH" THEN FixupBranch(prog, 5) ELSE prog
           q == Emit(p, << "CLOSE", 0, "END" >>)
<1>0. /\ reg' = reg /\ re' = re /\ num_caps' = num_caps /\ set' = set /\ frames' = frames
      /\ start' = start /\ ofs' = ofs /\ stack' = stack /\ res' = res /\ caps' = caps
  BY DEF Compiled
<1>1. phase = "compile" /\ prog.err # "too long" /\ re > Len(reg) /\ prog' = q
  BY DEF Compiled
<1>11. frames = <<>>
  BY DEF Compiled
<1>2. /\ q.err = "none" => phase' = "scan" /\ txt' \in Text /\ UNCHANGED result
      /\ q.err = "bracket" => Finish(-11, nsub) /\ UNCHANGED txt
      /\ q.err # "none" /\ q.err # "bracket" => UNCHANGED <<phase, txt, result>>
  BY DEF Compiled
<1>3. /\ Sized(q) /\ (q.err = prog.err \/ q.err = "too long")
      /\ q.err = "none" => \E T : Runs(q.code, T)
  <2> DEFINE r == q
             o == p
  <2>1. o = (IF Len(prog.code) > 2 /\ prog.code[3] = "BRANCH" THEN FixupBranch(prog, 5) ELSE prog)
        /\ r = Emit(o, << "CLOSE", 0, "END" >>)
    OBVIOUS
  <2> HIDE DEF o, r
  <2>2. /\ Sized(r) /\ (r.err = prog.err \/ r.err = "too long")
        /\ r.err = "none" => \E T : Runs(r.code, T)
    BY <1>1, <1>11, <2>1, ReadyToRun
  <2> QED
    BY <2>2 DEF r
<1> HIDE DEF q, p
<1>4. /\ Compiler /\ Sized(prog) /\ re \in Nat /\ Len(reg) \in Nat
  BY Place DEF IInv
<1>5. Compiler'
  <2>1. phase' = "compile" => prog'.err = "too long"
    <3>1. CASE q.err = "none"
      BY <1>2, <3>1
    <3>2. CASE q.err = "bracket"
      BY <1>2, <3>2 DEF Finish
    <3>3. CASE q.err = "too long"
      BY <1>1, <3>3
    <3> QED
      BY <1>3, <3>1, <3>2, <3>3 DEF Sized, Errors
  <2> QED
    BY <1>0, <1>1, <1>3, <1>4, <2>1 DEF Compiler
<1>6. stack = <<>> /\ txt = <<>> /\ start = 0 /\ start \in 0 .. Len(txt) /\ ofs \in 0 .. Len(txt)
  BY <1>1 DEF IInv, Matcher, Offsets
<1>7. start = 0 /\ ofs = 0
  <2>1. Len(txt) = 0
    BY <1>6
  <2> QED
    BY <1>6, <2>1
<1>8. txt' \in Seq(STRING) /\ phase' \in {"compile", "scan", "done"} /\ (phase' = "compile" => txt' = <<>>)
      /\ (phase' = "scan" => q.err = "none")
  <2>1. txt = <<>> /\ txt \in Seq(STRING)
    BY <1>6 DEF IInv, Matcher
  <2>2. CASE q.err = "none"
    BY <1>2, <2>1, <2>2, RegexAssumption
  <2>3. CASE q.err = "bracket"
    BY <1>2, <2>1, <2>3 DEF Finish
  <2>4. CASE q.err # "none" /\ q.err # "bracket"
    BY <1>1, <1>2, <2>1, <2>4
  <2> QED
    BY <2>2, <2>3, <2>4
<1>9. Matcher'
  <2>1. Len(txt') \in Nat
    BY <1>8
  <2>2. start' \in Offsets' /\ ofs' \in Offsets' /\ start' = 0 /\ stack' = <<>>
    BY <1>0, <1>6, <1>7, <2>1 DEF Offsets
  <2>3. phase' = "scan" => Matching'
    <3>1. ASSUME phase' = "scan" PROVE Matching'
      <4>1. \E T : Runs(prog'.code, T)
        BY <1>1, <1>3, <1>8, <3>1
      <4>2. \A n \in DOMAIN stack' : FALSE
        BY <2>2
      <4> QED
        BY <4>1, <4>2 DEF Matching
    <3> QED
      BY <3>1
  <2>4. stack' \in Seq(MatchCalls')
    BY <2>2
  <2>5. phase' # "match"
    BY <1>8
  <2> QED
    BY <1>8, <2>2, <2>3, <2>4, <2>5 DEF Matcher
<1>10. Result'
  <2>1. CASE q.err = "none"
    BY <1>0, <1>2, <2>1 DEF IInv, Result, result
  <2>2. CASE q.err = "bracket"
    BY <1>0, <1>2, <2>2 DEF IInv, Result, Finish
  <2>3. CASE q.err # "none" /\ q.err # "bracket"
    BY <1>0, <1>2, <2>3 DEF IInv, Result, result
  <2> QED
    BY <2>1, <2>2, <2>3
<1> QED
  BY <1>5, <1>9, <1>10 DEF IInv

(***************************************************************************)
(* A run stays at the beginnings of instructions and inside the text.      *)
(***************************************************************************)
StackOK(st, S) == st \in Seq(MatchCalls) /\ \A n \in DOMAIN st : CallOK(st[n], S)

(* The run of the program with the places S is in progress.                *)
InRun(S) ==
  /\ phase = "match"
  /\ Runs(prog.code, S)
  /\ StackOK(stack, S)
  /\ ofs \in Offsets /\ 0 \in Offsets

(* And it goes on.                                                         *)
Stays(S) ==
  /\ StackOK(stack', S)
  /\ ofs' \in Offsets
  /\ res' \in {"none", "yes", "no"}

LEMMA TextBounds ==
  ASSUME IInv
  PROVE  Len(txt) \in Nat /\ 0 \in Offsets /\ \A i \in Offsets : i \in Nat /\ i <= Len(txt)
<1>1. Len(txt) \in Nat
  BY DEF IInv, Matcher
<1> QED
  BY <1>1 DEF Offsets

LEMMA OnTop ==
  ASSUME NEW S, InRun(S), stack # <<>>
  PROVE  /\ t \in MatchCalls /\ CallOK(t, S) /\ t.pc \in S
         /\ Len(stack) \in Nat \ {0} /\ t = stack[Len(stack)]
<1>1. stack \in Seq(MatchCalls)
  BY DEF InRun, StackOK
<1>2. Len(stack) \in Nat /\ Len(stack) # 0
  BY <1>1
<1>3. Len(stack) \in DOMAIN stack /\ stack[Len(stack)] \in MatchCalls
  BY <1>1, <1>2
<1>4. CallOK(stack[Len(stack)], S)
  BY <1>3 DEF InRun, StackOK
<1> QED
  BY <1>2, <1>3, <1>4 DEF t, CallOK

LEMMA AtInstruction ==
  ASSUME NEW S, InRun(S), stack # <<>>
  PROVE  /\ op # "END" => t.pc + Width(op) \in S
         /\ op = "EXACT" => Arg(2) \in Nat
         /\ op \in Jumps => t.pc + Arg(1) \in S
         /\ op = "BRANCH" => t.pc + Arg(2) \in S
<1>1. t.pc \in S
  BY OnTop
<1>2. ASSUME op # "END" PROVE t.pc + Width(op) \in S
  <2>1. Listed(prog.code) /\ S \subseteq 1 .. Len(prog.code) /\ prog.code[Len(prog.code)] = "END"
    BY DEF InRun, Runs
  <2>2. t.pc # Len(prog.code)
    BY <1>2, <2>1 DEF op
  <2>3. Len(prog.code) \in Nat /\ t.pc \in 1 .. Len(prog.code)
    BY <1>1, <2>1, ListLength
  <2>4. t.pc < Len(prog.code)
    BY ONLY <2>2, <2>3
  <2> QED
    BY <1>1, <1>2, <2>4 DEF InRun, Runs, op
<1> QED
  BY <1>1, <1>2 DEF InRun, Runs, op, Arg

LEMMA PlaceIsNat ==
  ASSUME NEW S, InRun(S), NEW x \in S
  PROVE  x \in Nat
<1>1. S \subseteq 1 .. Len(prog.code) /\ Len(prog.code) \in Nat
  BY ListLength DEF InRun, Runs
<1> QED
  BY <1>1

(* The topmost call is replaced by another one.                            *)
LEMMA Replaced ==
  ASSUME NEW S, InRun(S), stack # <<>>,
         NEW f, f \in MatchCalls, CallOK(f, S), NEW st, st = ReplaceT(f)
  PROVE  StackOK(st, S)
<1>1. stack \in Seq(MatchCalls) /\ \A n \in DOMAIN stack : CallOK(stack[n], S)
  BY DEF InRun, StackOK
<1>2. st = [stack EXCEPT ![Len(stack)] = f]
  BY DEF ReplaceT
<1>3. st \in Seq(MatchCalls) /\ DOMAIN st = DOMAIN stack
  BY <1>1, <1>2
<1>4. ASSUME NEW n \in DOMAIN st PROVE CallOK(st[n], S)
  <2>1. st[n] = IF n = Len(stack) THEN f ELSE stack[n]
    BY <1>1, <1>2, <1>3, <1>4
  <2> QED
    BY <1>1, <1>3, <2>1
<1> QED
  BY <1>3, <1>4 DEF StackOK

LEMMA Pushes ==
  ASSUME NEW S, NEW st, StackOK(st, S), NEW f, f \in MatchCalls, CallOK(f, S),
         NEW u, u = Append(st, f)
  PROVE  StackOK(u, S)
<1>1. st \in Seq(MatchCalls) /\ \A n \in DOMAIN st : CallOK(st[n], S)
  BY DEF StackOK
<1>2. u \in Seq(MatchCalls) /\ DOMAIN u = 1 .. Len(st) + 1 /\ Len(st) \in Nat
  BY <1>1
<1>3. ASSUME NEW n \in DOMAIN u PROVE CallOK(u[n], S)
  <2>1. u[n] = IF n = Len(st) + 1 THEN f ELSE st[n]
    BY <1>1, <1>2, <1>3
  <2>2. n # Len(st) + 1 => n \in DOMAIN st
    BY <1>1, <1>2, <1>3
  <2> QED
    BY <1>1, <2>1, <2>2
<1> QED
  BY <1>2, <1>3 DEF StackOK

LEMMA GoesTo ==
  ASSUME NEW S, InRun(S), stack # <<>>, NEW pc \in S, Goto(pc)
  PROVE  StackOK(stack', S)
<1> DEFINE f == [t EXCEPT !.pc = pc, !.wait = "run"]
<1>1. t \in MatchCalls /\ CallOK(t, S)
  BY OnTop
<1>2. pc \in Nat
  BY PlaceIsNat
<1>3. f \in MatchCalls /\ f.pc = pc /\ f.wait = "run" /\ f.saved = t.saved /\ f.matched = t.matched
  BY <1>1, <1>2 DEF MatchCalls, WaitNames
<1>4. CallOK(f, S)
  BY <1>1, <1>3 DEF CallOK, WaitsAt, WaitNames
<1>5. stack' = ReplaceT(f)
  BY DEF Goto
<1> HIDE DEF f
<1> QED
  BY <1>3, <1>4, <1>5, Replaced

LEMMA Waits ==
  ASSUME NEW S, InRun(S), stack # <<>>,
         NEW w, WaitsAt(w, op), NEW saved \in Offsets, NEW matched \in Offsets, NEW pc \in S,
         NEW keep \in BOOLEAN, Wait(w, saved, matched, pc, keep)
  PROVE  StackOK(stack', S) /\ res' = "none"
<1> DEFINE f == [t EXCEPT !.wait = w, !.saved = saved, !.matched = matched]
           g == Call(pc, keep)
           st == ReplaceT(f)
<1>1. t \in MatchCalls /\ CallOK(t, S)
  BY OnTop
<1>2. pc \in Nat /\ 0 \in Offsets
  BY PlaceIsNat DEF InRun
<1>3. f \in MatchCalls /\ f.pc = t.pc /\ f.wait = w /\ f.saved = saved /\ f.matched = matched
  <2>1. w \in WaitNames
    BY DEF WaitsAt
  <2> QED
    BY <1>1, <2>1 DEF MatchCalls
<1>4. CallOK(f, S)
  BY <1>1, <1>3 DEF CallOK, op
<1>5. g \in MatchCalls /\ g.pc = pc /\ g.wait = "run" /\ g.saved = 0 /\ g.matched = 0
  BY <1>2 DEF MatchCalls, Call, WaitNames
<1>6. CallOK(g, S)
  BY <1>2, <1>5 DEF CallOK, WaitsAt, WaitNames
<1>7. stack' = Append(st, g) /\ res' = "none"
  BY DEF Wait
<1>8. StackOK(st, S)
  <2>1. st = ReplaceT(f)
    OBVIOUS
  <2> HIDE DEF f, st
  <2> QED
    BY <1>3, <1>4, <2>1, Replaced
<1> HIDE DEF f, g, st
<1> QED
  BY <1>5, <1>6, <1>7, <1>8, Pushes

LEMMA Returns ==
  ASSUME NEW S, InRun(S), stack # <<>>, NEW r, Return(r)
  PROVE  StackOK(stack', S) /\ res' = r
<1>1. stack \in Seq(MatchCalls) /\ \A n \in DOMAIN stack : CallOK(stack[n], S)
  BY DEF InRun, StackOK
<1>2. Len(stack) \in Nat \ {0}
  BY OnTop
<1>3. stack' = SubSeq(stack, 1, Len(stack) - 1) /\ res' = r
  BY DEF Return
<1>4. stack' \in Seq(MatchCalls) /\ DOMAIN stack' = 1 .. Len(stack) - 1
  BY <1>1, <1>2, <1>3
<1>5. ASSUME NEW n \in DOMAIN stack' PROVE CallOK(stack'[n], S)
  <2>1. stack'[n] = stack[n] /\ n \in DOMAIN stack
    BY <1>1, <1>2, <1>3, <1>4, <1>5
  <2> QED
    BY <1>1, <2>1
<1> QED
  BY <1>3, <1>4, <1>5 DEF StackOK

(* An instruction is done.                                                 *)
LEMMA GoesOn ==
  ASSUME NEW S, InRun(S), stack # <<>>, res = "none", NEW r \in BOOLEAN, NEW pc \in S, Go(r, pc)
  PROVE  StackOK(stack', S) /\ res' \in {"none", "yes", "no"}
<1>1. CASE r
  <2>1. Goto(pc) /\ res' = res
    BY <1>1 DEF Go
  <2> QED
    BY <2>1, GoesTo
<1>2. CASE ~ r
  <2>1. Return("no")
    BY <1>2 DEF Go
  <2> QED
    BY <2>1, Returns
<1> QED
  BY <1>1, <1>2

(* One instruction of match.                                               *)
LEMMA EndCodeStays ==
  ASSUME NEW S, InRun(S), EndCode, UNCHANGED <<ofs, caps>>
  PROVE  Stays(S)
<1>1. stack # <<>> /\ Return("yes")
  BY DEF EndCode, Running
<1>2. ofs' \in Offsets
  BY DEF InRun
<1> QED
  BY <1>1, <1>2, Returns DEF Stays

LEMMA AnchorStays ==
  ASSUME NEW S, InRun(S), MatchAnchor, UNCHANGED <<ofs, caps>>
  PROVE  Stays(S)
<1> DEFINE r == ofs = (IF op = "BOL" THEN 0 ELSE Len(txt))
           pc == t.pc + 1
<1>1. stack # <<>> /\ res = "none" /\ op \in {"BOL", "EOL"} /\ Go(r, pc)
  BY DEF MatchAnchor, Running
<1>2. pc \in S
  BY <1>1, AtInstruction DEF Width
<1>3. ofs' \in Offsets /\ r \in BOOLEAN
  BY DEF InRun
<1> HIDE DEF r, pc
<1> QED
  BY <1>1, <1>2, <1>3, GoesOn DEF Stays

LEMMA ClassStays ==
  ASSUME IInv, NEW S, InRun(S), MatchClass
  PROVE  Stays(S)
<1> DEFINE r == ofs < Len(txt) /\ (op = "ANY" \/ txt[ofs + 1] \in CharsOf[op])
           pc == t.pc + 1
<1>1. /\ stack # <<>> /\ res = "none" /\ op \in {"ANY"} \union {Class[c] : c \in DOMAIN Class}
      /\ Go(r, pc) /\ ofs' = (IF r THEN ofs + 1 ELSE ofs)
  BY DEF MatchClass, Running
<1>2. pc \in S
  <2>1. op \in {"ANY", "NONSPACE", "SPACE", "DIGIT", "LOWER", "UPPER", "ALPHA", "ALNUM"}
    BY <1>1 DEF Class
  <2>2. Width(op) = 1 /\ op # "END"
    BY <2>1 DEF Width
  <2> QED
    BY <1>1, <2>2, AtInstruction
<1>3. ofs' \in Offsets
  <2>1. ofs \in Nat /\ Len(txt) \in Nat /\ ofs <= Len(txt) /\ ofs \in Offsets
    BY TextBounds DEF InRun
  <2>2. CASE r
    <3>1. ofs < Len(txt) /\ ofs' = ofs + 1
      BY <1>1, <2>2
    <3> QED
      BY <2>1, <3>1 DEF Offsets
  <2>3. CASE ~ r
    BY <1>1, <2>1, <2>3
  <2> QED
    BY <2>2, <2>3
<1>4. r \in BOOLEAN
  OBVIOUS
<1> HIDE DEF r, pc
<1> QED
  BY <1>1, <1>2, <1>3, <1>4, GoesOn DEF Stays

LEMMA SetStays ==
  ASSUME IInv, NEW S, InRun(S), MatchSet
  PROVE  Stays(S)
<1> DEFINE r == ofs < Len(txt) /\ (txt[ofs + 1] \in {String[i] : i \in DOMAIN String} \ High <=> op = "ANYOF")
           pc == t.pc + 3
<1>1. /\ stack # <<>> /\ res = "none" /\ op \in {"ANYOF", "ANYBUT"}
      /\ Go(r, pc) /\ ofs' = (IF r THEN ofs + 1 ELSE ofs)
  BY DEF MatchSet, Running
<1>2. pc \in S
  BY <1>1, AtInstruction DEF Width
<1>3. ofs' \in Offsets
  <2>1. ofs \in Nat /\ Len(txt) \in Nat /\ ofs <= Len(txt) /\ ofs \in Offsets
    BY TextBounds DEF InRun
  <2>2. CASE r
    <3>1. ofs < Len(txt) /\ ofs' = ofs + 1
      BY <1>1, <2>2
    <3> QED
      BY <2>1, <3>1 DEF Offsets
  <2>3. CASE ~ r
    BY <1>1, <2>1, <2>3
  <2> QED
    BY <2>2, <2>3
<1>4. r \in BOOLEAN
  OBVIOUS
<1> HIDE DEF r, pc
<1> QED
  BY <1>1, <1>2, <1>3, <1>4, GoesOn DEF Stays

LEMMA ExactStays ==
  ASSUME IInv, NEW S, InRun(S), MatchExact
  PROVE  Stays(S)
<1> DEFINE r == Arg(2) <= Len(txt) - ofs /\ Rest(Arg(2)) = String
           pc == t.pc + 3
<1>1. /\ stack # <<>> /\ res = "none" /\ op = "EXACT"
      /\ Go(r, pc) /\ ofs' = (IF r THEN ofs + Arg(2) ELSE ofs)
  BY DEF MatchExact, Running
<1>2. pc \in S /\ Arg(2) \in Nat
  BY <1>1, AtInstruction DEF Width
<1>3. ofs' \in Offsets
  <2>1. ofs \in Nat /\ Len(txt) \in Nat /\ ofs <= Len(txt) /\ ofs \in Offsets
    BY TextBounds DEF InRun
  <2>2. CASE r
    <3>1. Arg(2) <= Len(txt) - ofs /\ ofs' = ofs + Arg(2)
      BY <1>1, <2>2
    <3> QED
      BY <1>2, <2>1, <3>1 DEF Offsets
  <2>3. CASE ~ r
    BY <1>1, <2>1, <2>3
  <2> QED
    BY <2>2, <2>3
<1>4. r \in BOOLEAN
  OBVIOUS
<1> HIDE DEF r, pc
<1> QED
  BY <1>1, <1>2, <1>3, <1>4, GoesOn DEF Stays

LEMMA BracketStays ==
  ASSUME NEW S, InRun(S), MatchBracket, UNCHANGED ofs
  PROVE  Stays(S)
<1> DEFINE pc == t.pc + 2
<1>1. stack # <<>> /\ res = "none" /\ op \in {"OPEN", "CLOSE"} /\ Goto(pc) /\ res' = res
  BY DEF MatchBracket, Running
<1>2. pc \in S
  BY <1>1, AtInstruction DEF Width
<1>3. ofs' \in Offsets
  BY DEF InRun
<1> HIDE DEF pc
<1> QED
  BY <1>1, <1>2, <1>3, GoesTo DEF Stays

(* One that waits for another call.                                        *)
LEMMA Enters ==
  ASSUME NEW S, InRun(S), stack # <<>>, ofs' \in Offsets,
         NEW w, WaitsAt(w, op), NEW saved \in Offsets, NEW matched \in Offsets, NEW pc \in S,
         NEW keep \in BOOLEAN, Wait(w, saved, matched, pc, keep)
  PROVE  Stays(S)
<1>1. StackOK(stack', S) /\ res' = "none"
  BY Waits
<1> QED
  BY <1>1 DEF Stays

LEMMA TopFields ==
  ASSUME NEW S, InRun(S), stack # <<>>
  PROVE  /\ t.keep \in BOOLEAN /\ t.saved \in Offsets /\ t.matched \in Offsets /\ t.pc \in S
         /\ WaitsAt(t.wait, op)
BY OnTop DEF CallOK, MatchCalls, op

LEMMA BranchStays ==
  ASSUME NEW S, InRun(S), MatchBranch, UNCHANGED <<ofs, caps>>
  PROVE  Stays(S)
<1> DEFINE pc == t.pc + 3
           keep == t.keep
<1>1. stack # <<>> /\ op = "BRANCH" /\ Wait("first", ofs, 0, pc, keep)
  BY DEF MatchBranch, Running
<1>2. pc \in S /\ keep \in BOOLEAN
  BY <1>1, AtInstruction, TopFields DEF Width
<1>3. ofs' \in Offsets /\ ofs \in Offsets /\ 0 \in Offsets
  BY DEF InRun
<1>4. WaitsAt("first", op)
  BY <1>1 DEF WaitsAt, WaitNames
<1> HIDE DEF pc, keep
<1> QED
  BY <1>1, <1>2, <1>3, <1>4, Enters

LEMMA QuestStays ==
  ASSUME NEW S, InRun(S), MatchQuest, UNCHANGED <<ofs, caps>>
  PROVE  Stays(S)
<1> DEFINE pc == t.pc + 2
           keep == t.keep
<1>1. stack # <<>> /\ op = "QUEST" /\ Wait("quest", ofs, 0, pc, keep)
  BY DEF MatchQuest, Running
<1>2. pc \in S /\ keep \in BOOLEAN
  BY <1>1, AtInstruction, TopFields DEF Width
<1>3. ofs' \in Offsets /\ ofs \in Offsets /\ 0 \in Offsets
  BY DEF InRun
<1>4. WaitsAt("quest", op)
  BY <1>1 DEF WaitsAt, WaitNames
<1> HIDE DEF pc, keep
<1> QED
  BY <1>1, <1>2, <1>3, <1>4, Enters

LEMMA PlusStays ==
  ASSUME NEW S, InRun(S), MatchPlus, UNCHANGED <<ofs, caps>>
  PROVE  Stays(S)
<1> DEFINE pc == t.pc + 2
           keep == t.keep
<1>1. stack # <<>> /\ op \in {"PLUS", "PLUSQ"} /\ Wait("once", 0, 0, pc, keep)
  BY DEF MatchPlus, Running
<1>2. pc \in S /\ keep \in BOOLEAN
  BY <1>1, AtInstruction, TopFields DEF Width
<1>3. ofs' \in Offsets /\ 0 \in Offsets
  BY DEF InRun
<1>4. WaitsAt("once", op)
  BY <1>1 DEF WaitsAt, WaitNames
<1> HIDE DEF pc, keep
<1> QED
  BY <1>1, <1>2, <1>3, <1>4, Enters

LEMMA LoopPlaces ==
  ASSUME NEW S, InRun(S), stack # <<>>, op \in Loops
  PROVE  /\ t.pc + 2 \in S /\ t.pc + Arg(1) \in S
         /\ WaitsAt("body", op) /\ WaitsAt("rest", op)
<1>1. Width(op) = 2 /\ op # "END" /\ op \in Jumps
  BY DEF Width, Loops, Jumps
<1> QED
  BY <1>1, AtInstruction DEF WaitsAt, WaitNames

LEMMA LoopStays ==
  ASSUME NEW S, InRun(S), stack # <<>>, op \in Loops, Loop, UNCHANGED <<ofs, caps>>
  PROVE  Stays(S)
<1> DEFINE pc == t.pc + 2
<1>1. Wait("body", ofs, ofs, pc, FALSE)
  BY DEF Loop
<1>2. pc \in S /\ WaitsAt("body", op) /\ FALSE \in BOOLEAN
  BY LoopPlaces
<1>3. ofs' \in Offsets /\ ofs \in Offsets
  BY DEF InRun
<1> HIDE DEF pc
<1> QED
  BY <1>1, <1>2, <1>3, Enters

LEMMA StarStays ==
  ASSUME NEW S, InRun(S), MatchStar, UNCHANGED <<ofs, caps>>
  PROVE  Stays(S)
<1>1. stack # <<>> /\ op \in Loops /\ Loop
  BY DEF MatchStar, Running, Loops
<1> QED
  BY <1>1, LoopStays

(* What waits for a call of match, and is resumed or goes on.              *)
LEMMA WaitsFor ==
  ASSUME NEW S, InRun(S), NEW w, NEW r, Returned(w, r)
  PROVE  /\ stack # <<>> /\ t.wait = w /\ res = r /\ WaitsAt(w, op)
         /\ t.saved \in Offsets /\ t.matched \in Offsets /\ ofs \in Offsets /\ 0 \in Offsets
         /\ t.keep \in BOOLEAN
<1>1. stack # <<>> /\ t.wait = w /\ res = r
  BY DEF Returned
<1>2. WaitsAt(t.wait, op) /\ t.saved \in Offsets /\ t.matched \in Offsets /\ t.keep \in BOOLEAN
  BY <1>1, TopFields
<1>3. ofs \in Offsets /\ 0 \in Offsets
  BY DEF InRun
<1> QED
  BY <1>1, <1>2, <1>3

LEMMA Resumes ==
  ASSUME NEW S, InRun(S), stack # <<>>, ofs' \in Offsets, NEW pc \in S, Resume(pc)
  PROVE  Stays(S)
<1>1. Goto(pc) /\ res' = "none"
  BY DEF Resume
<1>2. StackOK(stack', S)
  BY <1>1, GoesTo
<1> QED
  BY <1>1, <1>2 DEF Stays

LEMMA FirstFailedStays ==
  ASSUME NEW S, InRun(S), FirstFailed
  PROVE  Stays(S)
<1> DEFINE pc == t.pc + Arg(1)
           keep == t.keep
           saved == t.saved
<1>1. Returned("first", "no") /\ ofs' = saved /\ Wait("second", saved, 0, pc, keep)
  BY DEF FirstFailed
<1>2. stack # <<>> /\ WaitsAt("first", op) /\ saved \in Offsets /\ keep \in BOOLEAN /\ 0 \in Offsets
  BY <1>1, WaitsFor
<1>3. op = "BRANCH" /\ WaitsAt("second", op)
  BY <1>2 DEF WaitsAt, WaitNames
<1>4. pc \in S
  BY <1>2, <1>3, AtInstruction DEF Jumps
<1> HIDE DEF pc, keep, saved
<1>5. ofs' \in Offsets
  BY <1>1, <1>2
<1> QED
  BY <1>1, <1>2, <1>3, <1>4, <1>5, Enters

LEMMA BranchMatchedStays ==
  ASSUME NEW S, InRun(S), BranchMatched, UNCHANGED <<ofs, caps>>
  PROVE  Stays(S)
<1> DEFINE pc == t.pc + Arg(2)
<1>1. Resume(pc) /\ (Returned("first", "yes") \/ Returned("second", "yes"))
  BY DEF BranchMatched
<1>2. stack # <<>> /\ op = "BRANCH" /\ ofs \in Offsets
  BY <1>1, WaitsFor DEF WaitsAt
<1>3. pc \in S
  BY <1>2, AtInstruction
<1>4. ofs' \in Offsets
  BY <1>2
<1> HIDE DEF pc
<1> QED
  BY <1>1, <1>2, <1>3, <1>4, Resumes

LEMMA CallFailsStays ==
  ASSUME NEW S, InRun(S), CallFails, UNCHANGED <<ofs, caps>>
  PROVE  Stays(S)
<1>1. Return("no") /\ (Returned("second", "no") \/ Returned("once", "no"))
  BY DEF CallFails
<1>2. stack # <<>> /\ ofs' \in Offsets
  BY <1>1, WaitsFor
<1> QED
  BY <1>1, <1>2, Returns DEF Stays

LEMMA QuestDoneStays ==
  ASSUME NEW S, InRun(S), QuestDone
  PROVE  Stays(S)
<1> DEFINE pc == t.pc + Arg(1)
<1>1. /\ Resume(pc) /\ (Returned("quest", "yes") \/ Returned("quest", "no"))
      /\ ofs' = IF res = "yes" THEN ofs ELSE t.saved
  BY DEF QuestDone
<1>2. stack # <<>> /\ op = "QUEST" /\ ofs \in Offsets /\ t.saved \in Offsets
  BY <1>1, WaitsFor DEF WaitsAt
<1>3. pc \in S
  BY <1>2, AtInstruction DEF Jumps
<1>4. ofs' \in Offsets
  BY <1>1, <1>2
<1> HIDE DEF pc
<1> QED
  BY <1>1, <1>2, <1>3, <1>4, Resumes

LEMMA FirstRepetitionStays ==
  ASSUME NEW S, InRun(S), FirstRepetition, UNCHANGED <<ofs, caps>>
  PROVE  Stays(S)
<1>1. Returned("once", "yes") /\ Loop
  BY DEF FirstRepetition
<1>2. stack # <<>> /\ op \in Loops
  BY <1>1, WaitsFor DEF WaitsAt, Loops
<1> QED
  BY <1>1, <1>2, LoopStays

LEMMA BodyMatchedStays ==
  ASSUME NEW S, InRun(S), BodyMatched, UNCHANGED <<ofs, caps>>
  PROVE  Stays(S)
<1> DEFINE pc == t.pc + Arg(1)
           matched == t.matched
<1>1. Returned("body", "yes") /\ Wait("rest", ofs, matched, pc, FALSE)
  BY DEF BodyMatched
<1>2. stack # <<>> /\ op \in Loops /\ ofs \in Offsets /\ matched \in Offsets
  BY <1>1, WaitsFor DEF WaitsAt
<1>3. pc \in S /\ WaitsAt("rest", op) /\ FALSE \in BOOLEAN
  BY <1>2, LoopPlaces
<1>4. ofs' \in Offsets
  BY <1>2
<1> HIDE DEF pc, matched
<1> QED
  BY <1>1, <1>2, <1>3, <1>4, Enters

LEMMA GreedyRestStays ==
  ASSUME NEW S, InRun(S), GreedyRest
  PROVE  Stays(S)
<1> DEFINE pc == t.pc + 2
           saved == t.saved
           matched == IF res = "yes" THEN t.saved ELSE t.matched
<1>1. /\ Returned("rest", "yes") \/ Returned("rest", "no")
      /\ ofs' = saved /\ Wait("body", saved, matched, pc, FALSE)
  BY DEF GreedyRest
<1>2. stack # <<>> /\ op \in Loops /\ saved \in Offsets /\ matched \in Offsets
  BY <1>1, WaitsFor DEF WaitsAt
<1>3. pc \in S /\ WaitsAt("body", op) /\ FALSE \in BOOLEAN
  BY <1>2, LoopPlaces
<1>4. ofs' \in Offsets
  BY <1>1, <1>2
<1> HIDE DEF pc, matched, saved
<1> QED
  BY <1>1, <1>2, <1>3, <1>4, Enters

LEMMA LazyMatchedStays ==
  ASSUME NEW S, InRun(S), LazyMatched
  PROVE  Stays(S)
<1> DEFINE pc == t.pc + Arg(1)
<1>1. Returned("rest", "yes") /\ ofs' = t.saved /\ Resume(pc)
  BY DEF LazyMatched
<1>2. stack # <<>> /\ op \in Loops /\ t.saved \in Offsets
  BY <1>1, WaitsFor DEF WaitsAt
<1>3. pc \in S
  BY <1>2, LoopPlaces
<1>4. ofs' \in Offsets
  BY <1>1, <1>2
<1> HIDE DEF pc
<1> QED
  BY <1>1, <1>2, <1>3, <1>4, Resumes

LEMMA LazyGoesOnStays ==
  ASSUME NEW S, InRun(S), LazyGoesOn, UNCHANGED <<ofs, caps>>
  PROVE  Stays(S)
<1> DEFINE pc == t.pc + 2
           saved == t.saved
<1>1. Returned("rest", "no") /\ Wait("body", saved, 0, pc, FALSE)
  BY DEF LazyGoesOn
<1>2. stack # <<>> /\ op \in Loops /\ ofs \in Offsets /\ saved \in Offsets /\ 0 \in Offsets
  BY <1>1, WaitsFor DEF WaitsAt
<1>3. pc \in S /\ WaitsAt("body", op) /\ FALSE \in BOOLEAN
  BY <1>2, LoopPlaces
<1>4. ofs' \in Offsets
  BY <1>2
<1> HIDE DEF pc, saved
<1> QED
  BY <1>1, <1>2, <1>3, <1>4, Enters

LEMMA BodyFailedStays ==
  ASSUME NEW S, InRun(S), BodyFailed
  PROVE  Stays(S)
<1> DEFINE pc == t.pc + Arg(1)
<1>1. Returned("body", "no") /\ Resume(pc) /\ ofs' = IF greedy THEN t.matched ELSE t.saved
  BY DEF BodyFailed
<1>2. stack # <<>> /\ op \in Loops /\ t.saved \in Offsets /\ t.matched \in Offsets
  BY <1>1, WaitsFor DEF WaitsAt
<1>3. pc \in S
  BY <1>2, LoopPlaces
<1>4. ofs' \in Offsets
  BY <1>1, <1>2
<1> HIDE DEF pc
<1> QED
  BY <1>1, <1>2, <1>3, <1>4, Resumes

(* Every step of match.                                                    *)
LEMMA Runnable ==
  ASSUME IInv, phase = "match"
  PROVE  \E S : InRun(S)
<1>1. PICK S : Runs(prog.code, S) /\ \A n \in DOMAIN stack : CallOK(stack[n], S)
  BY DEF IInv, Matcher, Matching
<1>2. stack \in Seq(MatchCalls) /\ ofs \in Offsets
  BY DEF IInv, Matcher
<1>3. 0 \in Offsets
  BY TextBounds
<1> QED
  BY <1>1, <1>2, <1>3 DEF InRun, StackOK

LEMMA ControlStays ==
  ASSUME NEW S, InRun(S), ControlStep, UNCHANGED <<ofs, caps>>
  PROVE  Stays(S)
BY EndCodeStays, AnchorStays, BranchStays, QuestStays, PlusStays, StarStays, BranchMatchedStays,
   CallFailsStays, FirstRepetitionStays, BodyMatchedStays, LazyGoesOnStays DEF ControlStep

LEMMA OffsetStays ==
  ASSUME IInv, NEW S, InRun(S), OffsetStep
  PROVE  Stays(S)
BY ExactStays, ClassStays, SetStays, FirstFailedStays, QuestDoneStays, GreedyRestStays,
   LazyMatchedStays, BodyFailedStays DEF OffsetStep

LEMMA SamePlaces ==
  ASSUME NEW S, StackOK(stack', S), UNCHANGED <<prog, txt>>
  PROVE  stack' \in Seq(MatchCalls') /\ \A n \in DOMAIN stack' : CallOK(stack[n], S)'
<1>1. Offsets' = Offsets /\ MatchCalls' = MatchCalls
  BY DEF Offsets, MatchCalls
<1>2. stack' \in Seq(MatchCalls) /\ \A n \in DOMAIN stack' : CallOK(stack'[n], S)
  BY DEF StackOK
<1>3. ASSUME NEW n \in DOMAIN stack' PROVE CallOK(stack[n], S)'
  <2>1. CallOK(stack'[n], S)
    BY <1>2
  <2> QED
    BY <1>1, <2>1 DEF CallOK
<1> QED
  BY <1>1, <1>2, <1>3

LEMMA MatchStepKeeps ==
  ASSUME IInv, MatchStep
  PROVE  IInv'
<1>1. phase = "match"
  BY DEF MatchStep, ControlStep, OffsetStep, EndCode, MatchAnchor, MatchBranch, MatchQuest, MatchPlus, MatchStar,
         BranchMatched, CallFails, FirstRepetition, BodyMatched, LazyGoesOn, MatchExact, MatchClass, MatchSet,
         FirstFailed, QuestDone, GreedyRest, LazyMatched, BodyFailed, MatchBracket, Running, Returned
<1>2. PICK S : InRun(S)
  BY <1>1, Runnable
<1>3. Stays(S)
  BY <1>2, ControlStays, OffsetStays, BracketStays DEF MatchStep
<1>0. /\ phase' = phase /\ reg' = reg /\ re' = re /\ prog' = prog /\ num_caps' = num_caps /\ frames' = frames
      /\ set' = set /\ txt' = txt /\ start' = start /\ ret' = ret /\ nsub' = nsub
  BY DEF MatchStep, compiler, result
<1>4. Compiler'
  <2>1. Compiler
    BY DEF IInv
  <2> QED
    BY <1>0, <1>1, <2>1 DEF Compiler
<1>5. /\ stack' \in Seq(MatchCalls') /\ \A n \in DOMAIN stack' : CallOK(stack[n], S)'
      /\ ofs' \in Offsets' /\ res' \in {"none", "yes", "no"}
  <2>1. StackOK(stack', S) /\ ofs' \in Offsets /\ res' \in {"none", "yes", "no"}
    BY <1>3 DEF Stays
  <2>2. ofs' \in Offsets'
    BY <1>0, <2>1 DEF Offsets
  <2> QED
    BY <1>0, <2>1, <2>2, SamePlaces
<1>6. Matching'
  <2>1. Runs(prog'.code, S)
    BY <1>0, <1>2 DEF InRun
  <2> QED
    BY <1>5, <2>1 DEF Matching
<1>7. Matcher'
  <2>1. txt \in Seq(STRING) /\ start \in Offsets /\ (~anchored => start < Len(txt))
    BY <1>1 DEF IInv, Matcher
  <2>2. txt' \in Seq(STRING) /\ start' \in Offsets' /\ (~anchored' => start' < Len(txt'))
    BY <1>0, <2>1 DEF Offsets, anchored
  <2>3. phase' = "match"
    BY <1>0, <1>1
  <2> QED
    BY <1>5, <1>6, <2>2, <2>3 DEF Matcher
<1>8. Result'
  BY <1>0, <1>5 DEF IInv, Result
<1> QED
  BY <1>4, <1>7, <1>8 DEF IInv

(***************************************************************************)
(* An attempt begins, and ends.                                            *)
(***************************************************************************)
LEMMA SingleList ==
  ASSUME NEW c, NEW C, c \in C, NEW s, s = << c >>
  PROVE  s \in Seq(C) /\ DOMAIN s = 1 .. 1 /\ s[1] = c
OBVIOUS

LEMMA OneCall ==
  ASSUME NEW S, 1 \in S, 0 \in Offsets, NEW st, st = << Call(1, TRUE) >>
  PROVE  StackOK(st, S)
<1>1. Call(1, TRUE) \in MatchCalls /\ CallOK(Call(1, TRUE), S)
  BY DEF Call, MatchCalls, CallOK, WaitsAt, WaitNames
<1> DEFINE c == Call(1, TRUE)
<1>2. c \in MatchCalls /\ CallOK(c, S) /\ st = << c >>
  BY <1>1
<1> HIDE DEF c
<1>3. st \in Seq(MatchCalls) /\ DOMAIN st = 1 .. 1 /\ st[1] = c
  BY ONLY <1>2, SingleList
<1>4. ASSUME NEW n \in DOMAIN st PROVE CallOK(st[n], S)
  <2>1. n = 1
    BY <1>3, <1>4
  <2>2. st[n] = c
    BY <1>3, <2>1
  <2> QED
    BY <1>2, <2>2
<1> QED
  BY <1>3, <1>4 DEF StackOK

LEMMA TryKeeps ==
  ASSUME IInv, Try
  PROVE  IInv'
<1>0. /\ reg' = reg /\ re' = re /\ prog' = prog /\ num_caps' = num_caps /\ frames' = frames
      /\ set' = set /\ txt' = txt /\ start' = start /\ ret' = ret /\ nsub' = nsub
      /\ phase' = "match" /\ ofs' = start /\ res' = "none"
  BY DEF Try, compiler, result
<1>1. phase = "scan" /\ (anchored \/ start < Len(txt)) /\ stack' = << Call(1, TRUE) >>
  BY DEF Try
<1>2. start \in Offsets /\ txt \in Seq(STRING) /\ 0 \in Offsets
  BY TextBounds DEF IInv, Matcher
<1>3. PICK S : Runs(prog.code, S)
  BY <1>1 DEF IInv, Matcher, Matching
<1>4. 1 \in S
  BY <1>3 DEF Runs
<1>5. StackOK(stack', S)
  BY <1>1, <1>2, <1>4, OneCall
<1>6. stack' \in Seq(MatchCalls') /\ \A n \in DOMAIN stack' : CallOK(stack[n], S)'
  BY <1>0, <1>5, SamePlaces
<1>7. Matching'
  <2>1. Runs(prog'.code, S)
    BY <1>0, <1>3
  <2> QED
    BY <1>6, <2>1 DEF Matching
<1>8. Compiler'
  <2>1. Compiler
    BY DEF IInv
  <2> QED
    BY <1>0, <1>1, <2>1 DEF Compiler
<1>9. Matcher'
  <2>1. txt' \in Seq(STRING) /\ start' \in Offsets' /\ ofs' \in Offsets'
    BY <1>0, <1>2 DEF Offsets
  <2>2. ~anchored' => start' < Len(txt')
    BY <1>0, <1>1 DEF anchored
  <2>3. phase' = "match"
    BY <1>0
  <2> QED
    BY <1>6, <1>7, <2>1, <2>2, <2>3 DEF Matcher
<1>10. Result'
  BY <1>0 DEF IInv, Result
<1> QED
  BY <1>8, <1>9, <1>10 DEF IInv

(* Captures are counted up to the room for them.                           *)
LEMMA CapturesFit ==
  CaptureCount \in 0 .. MaxSub
<1> DEFINE full == {k \in 0 .. MaxSub : \A j \in 0 .. k - 1 : caps[j].len # 0}
           T == {MaxSub - k : k \in full}
<1>1. MaxSub \in Nat
  BY RegexAssumption
<1>2. 0 \in full /\ full \subseteq 0 .. MaxSub
  BY <1>1
<1>3. T \subseteq Nat /\ MaxSub - 0 \in T
  BY <1>1, <1>2
<1> HIDE DEF full
<1>4. PICK m \in T : \A k \in T : m <= k
  <2>1. T \subseteq Nat /\ T # {}
    BY <1>3
  <2> HIDE DEF T
  <2> QED
    BY <2>1, LeastNumber
<1>5. PICK x \in full : m = MaxSub - x
  BY <1>4
<1>6. \A j \in full : j <= x
  <2> SUFFICES ASSUME NEW j \in full PROVE j <= x
    OBVIOUS
  <2>1. m <= MaxSub - j
    BY <1>4
  <2> QED
    BY <1>1, <1>2, <1>5, <2>1
<1>7. CaptureCount = CHOOSE k \in full : \A j \in full : j <= k
  BY DEF CaptureCount, full
<1>8. CaptureCount \in full
  BY <1>6, <1>7
<1> QED
  BY <1>2, <1>8

LEMMA TriedKeeps ==
  ASSUME IInv, Tried
  PROVE  IInv'
<1>1. /\ phase = "match" /\ UNCHANGED <<compiler, txt, ofs, stack, res, caps>>
      /\ IF res = "yes" THEN Finish(0, CaptureCount) /\ UNCHANGED start
         ELSE IF anchored THEN Finish(-1, 0) /\ UNCHANGED start
         ELSE start' = start + 1 /\ phase' = "scan" /\ UNCHANGED result
  BY DEF Tried
<1>2. stack = <<>>
  BY DEF Tried
<1>3. MaxSub \in Nat /\ 0 \in 0 .. MaxSub
  BY RegexAssumption
<1>4. CASE res = "yes"
  <2>1. Finish(0, CaptureCount) /\ UNCHANGED <<compiler, matcher>>
    BY <1>1, <1>4 DEF matcher
  <2>2. phase' \in {"done", "lost"} /\ ret' \in {0, -1, -11, -12} /\ nsub' \in 0 .. MaxSub
    BY <2>1, CapturesFit DEF Finish
  <2> QED
    BY <1>2, <2>1, <2>2, Left
<1>5. CASE res # "yes" /\ anchored
  <2>1. Finish(-1, 0) /\ UNCHANGED <<compiler, matcher>>
    BY <1>1, <1>5 DEF matcher
  <2>2. phase' \in {"done", "lost"} /\ ret' \in {0, -1, -11, -12} /\ nsub' \in 0 .. MaxSub
    BY <1>3, <2>1 DEF Finish
  <2> QED
    BY <1>2, <2>1, <2>2, Left
<1>6. CASE res # "yes" /\ ~ anchored
  <2>0. /\ reg' = reg /\ re' = re /\ prog' = prog /\ num_caps' = num_caps /\ frames' = frames
        /\ set' = set /\ txt' = txt /\ ofs' = ofs /\ stack' = stack /\ res' = res /\ ret' = ret /\ nsub' = nsub
        /\ start' = start + 1 /\ phase' = "scan"
    BY <1>1, <1>6 DEF compiler, result
  <2>1. start < Len(txt) /\ start \in Offsets /\ ofs \in Offsets /\ txt \in Seq(STRING) /\ stack \in Seq(MatchCalls)
    BY <1>1, <1>6 DEF IInv, Matcher
  <2>2. start \in Nat /\ Len(txt) \in Nat
    BY <2>1, TextBounds
  <2>3. start' \in Offsets' /\ ofs' \in Offsets' /\ txt' \in Seq(STRING)
    BY <2>0, <2>1, <2>2 DEF Offsets
  <2>4. Matching'
    <3>1. Matching
      BY <1>1 DEF IInv, Matcher
    <3> QED
      BY <2>0, <3>1 DEF Matching, CallOK, Offsets
  <2>5. Compiler'
    <3>1. Compiler
      BY DEF IInv
    <3> QED
      BY <1>1, <2>0, <3>1 DEF Compiler
  <2>6. stack' = <<>>
    BY <1>2, <2>0
  <2>7. stack' \in Seq(MatchCalls')
    BY <2>0, <2>1 DEF MatchCalls, Offsets
  <2>8. phase' = "scan"
    BY <2>0
  <2>9. Matcher'
    BY <2>3, <2>4, <2>6, <2>7, <2>8 DEF Matcher
  <2>10. Result'
    BY <2>0 DEF IInv, Result
  <2> QED
    BY <2>5, <2>9, <2>10 DEF IInv
<1> QED
  BY <1>4, <1>5, <1>6

(***************************************************************************)
(* Walking through the program comes to each of the places.                *)
(***************************************************************************)
Walked(c, pc, f) == f = [i \in Nat |-> i = pc \/ (i < pc /\ f[i + Width(c[i])])]

Walk(c, pc) == CHOOSE f : Walked(c, pc, f)

(* R is closed under going on to the next instruction, up to pc.           *)
Leads(c, pc, R) ==
  /\ R \subseteq Nat
  /\ \A r \in R : r = pc \/ (r < pc /\ r + Width(c[r]) \in R)

LEMMA WalkIs ==
  ASSUME NEW c, NEW pc \in Nat
  PROVE  Walked(c, pc, Walk(c, pc))
<1> DEFINE G(i) == \E R : Leads(c, pc, R) /\ i \in R
           f == [i \in Nat |-> G(i)]
<1>1. ASSUME NEW i \in Nat, G(i) PROVE i = pc \/ (i < pc /\ G(i + Width(c[i])))
  <2>1. PICK R : Leads(c, pc, R) /\ i \in R
    BY <1>1
  <2>2. i = pc \/ (i < pc /\ i + Width(c[i]) \in R)
    BY <2>1 DEF Leads
  <2> QED
    BY <2>1, <2>2
<1>2. ASSUME NEW i \in Nat, i = pc PROVE G(i)
  <2>1. Leads(c, pc, {pc}) /\ i \in {pc}
    BY <1>2 DEF Leads
  <2> QED
    BY <2>1
<1>3. ASSUME NEW i \in Nat, i < pc, G(i + Width(c[i])) PROVE G(i)
  <2>1. PICK R : Leads(c, pc, R) /\ i + Width(c[i]) \in R
    BY <1>3
  <2>2. Leads(c, pc, R \union {i}) /\ i \in R \union {i}
    BY <1>3, <2>1 DEF Leads
  <2> QED
    BY <2>2
<1>4. \A i \in Nat : i + Width(c[i]) \in Nat
  BY Widths
<1> HIDE DEF G
<1>5. \A i \in Nat : f[i + Width(c[i])] = G(i + Width(c[i]))
  BY <1>4
<1>6. ASSUME NEW i \in Nat PROVE G(i) = (i = pc \/ (i < pc /\ f[i + Width(c[i])]))
  <2>1. f[i + Width(c[i])] = G(i + Width(c[i]))
    BY <1>5
  <2>2. G(i) <=> (i = pc \/ (i < pc /\ G(i + Width(c[i]))))
    BY <1>1, <1>2, <1>3
  <2>3. G(i) \in BOOLEAN
    BY DEF G
  <2> QED
    BY <2>1, <2>2, <2>3
<1>7. f = [i \in Nat |-> i = pc \/ (i < pc /\ f[i + Width(c[i])])]
  BY <1>6
<1>8. Walked(c, pc, f)
  BY <1>7 DEF Walked
<1> QED
  BY <1>8 DEF Walk

LEMMA WalkArrives ==
  ASSUME NEW c, NEW S, Runs(c, S), NEW pc \in S
  PROVE  Walk(c, pc)[1] /\ pc \in Nat /\ pc \in DOMAIN c
<1> DEFINE f == Walk(c, pc)
           W(i) == f[i]
<1>1. S \subseteq 1 .. Len(c) /\ 1 \in S /\ Len(c) \in Nat /\ DOMAIN c = 1 .. Len(c)
  BY ListLength DEF Runs
<1>2. pc \in Nat /\ pc <= Len(c)
  BY <1>1
<1>3. \A i \in Nat : f[i] = (i = pc \/ (i < pc /\ f[i + Width(c[i])]))
  <2>1. Walked(c, pc, f)
    BY <1>2, WalkIs
  <2> HIDE DEF f
  <2> QED
    BY <2>1 DEF Walked
<1> HIDE DEF f
<1>4. W(pc)
  BY <1>2, <1>3
<1>5. ASSUME NEW s \in S, s < pc PROVE s + Width(c[s]) \in S /\ s + Width(c[s]) <= pc /\ Width(c[s]) \in {1, 2, 3}
                                       /\ (W(s + Width(c[s])) => W(s))
  <2>1. s < Len(c)
    BY <1>1, <1>2, <1>5
  <2>2. s + Width(c[s]) \in S /\ s + Width(c[s]) <= pc
    BY <1>5, <2>1 DEF Runs, Apart
  <2>3. s \in Nat
    BY <1>1
  <2> QED
    BY <1>3, <1>5, <2>2, <2>3, Widths
<1> HIDE DEF W
<1> DEFINE T == {pc - s : s \in {x \in S : x <= pc /\ ~ W(x)}}
<1>6. ASSUME T # {} PROVE FALSE
  <2>1. T \subseteq Nat
    <3>1. ASSUME NEW s \in S, s <= pc PROVE pc - s \in Nat
      <4>1. s \in Nat
        BY <1>1
      <4> QED
        BY <1>2, <3>1, <4>1
    <3> QED
      BY <3>1
  <2>2. PICK m \in T : \A k \in T : m <= k
    <3> HIDE DEF T
    <3> QED
      BY <1>6, <2>1, LeastNumber
  <2>3. PICK s \in S : s <= pc /\ ~ W(s) /\ m = pc - s
    BY <2>2
  <2>4. s # pc /\ s \in Nat
    BY <1>1, <1>4, <2>3
  <2>5. s < pc
    BY <1>2, <2>3, <2>4
  <2> DEFINE x == s + Width(c[s])
  <2>6. x \in S /\ x <= pc /\ (W(x) => W(s)) /\ x > s /\ x \in Nat
    BY <1>5, <2>4, <2>5
  <2> HIDE DEF x
  <2>7. ~ W(x)
    BY <2>3, <2>6
  <2>8. pc - x \in T
    BY <2>6, <2>7
  <2> HIDE DEF T
  <2>9. m <= pc - x
    BY <2>2, <2>8
  <2> QED
    BY <1>2, <2>3, <2>4, <2>6, <2>9
<1>7. W(1)
  <2>1. 1 <= pc
    BY <1>1
  <2>2. ASSUME ~ W(1) PROVE FALSE
    <3>1. pc - 1 \in T
      BY <1>1, <2>1, <2>2
    <3> QED
      BY <1>6, <3>1
  <2> QED
    BY <2>2
<1> QED
  BY <1>1, <1>2, <1>7 DEF W, f

LEMMA PlacesAreInstructions ==
  ASSUME NEW S, Runs(prog.code, S), NEW pc \in S
  PROVE  IsInstruction(pc)
<1>1. Walk(prog.code, pc)[1] /\ pc \in DOMAIN prog.code
  BY WalkArrives
<1> QED
  BY <1>1 DEF IsInstruction, Walk, Walked

(***************************************************************************)
(* The whole                                                               *)
(***************************************************************************)
LEMMA FirstProgram ==
  ASSUME NEW p, p = Emit(NewProgram, << "OPEN", 0 >>)
  PROVE  /\ Sized(p) /\ p.err = "none" /\ Len(p.code) = 2
         /\ Shape(p.code, {1, 3}, {})
<1> DEFINE w == << "OPEN", 0 >>
           c == p.code
<1>1. CodeSize \in Nat /\ CodeSize >= 16
  BY ProgramAssumption
<1>2. Listed(w) /\ Len(w) = 2 /\ w[1] = "OPEN"
  <2>1. w \in Seq({"OPEN", 0})
    OBVIOUS
  <2> QED
    BY <2>1 DEF Listed
<1>3. Sized(NewProgram) /\ NewProgram.err = "none" /\ NewProgram.data = <<>> /\ NewProgram.code = <<>>
  <2>1. <<>> \in Seq({}) /\ Len(<<>>) = 0
    OBVIOUS
  <2> QED
    BY <1>1, <2>1 DEF Sized, NewProgram, Listed, Errors
<1> HIDE DEF w
<1>4. ~ NoRoom(NewProgram, Len(NewProgram.code) + Len(w))
  <2>1. Len(NewProgram.code) + Len(w) = 2
    BY <1>2, <1>3
  <2>2. NewProgram.err = "none"
    BY <1>3
  <2>3. ~ (2 > CodeSize)
    BY <1>1
  <2>4. ~ NoRoom(NewProgram, 2)
    BY <2>2, <2>3 DEF NoRoom
  <2> QED
    BY <2>1, <2>4
<1>5. p = [NewProgram EXCEPT !.code = NewProgram.code \o w]
  BY <1>4 DEF Emit, w
<1>6. NewProgram.code \o w = w
  BY <1>2, <1>3 DEF Listed
<1>7. p = [code |-> w, data |-> <<>>, err |-> "none"]
  BY <1>5, <1>6 DEF NewProgram
<1>8. p.err = "none" /\ c = w /\ p.data = <<>>
  BY <1>7
<1>9. Sized(p)
  <2>1. Len(p.data) = 0 /\ Listed(p.data)
    BY <1>3, <1>8 DEF Sized
  <2>2. p = [code |-> p.code, data |-> p.data, err |-> p.err]
    BY <1>7, <1>8
  <2>3. Listed(p.code) /\ Len(p.code) = 2 /\ p.err \in Errors
    BY <1>2, <1>8 DEF Errors
  <2>4. Len(p.code) <= CodeSize /\ Len(p.data) <= CodeSize
    <3>1. Len(p.code) = 2 /\ Len(p.data) = 0
      BY <2>1, <2>3
    <3> QED
      BY ONLY <1>1, <3>1
  <2> QED
    BY <2>1, <2>2, <2>3, <2>4 DEF Sized
<1>10. Shape(c, {1, 3}, {})
  <2>1. Width(c[1]) = 2 /\ c[1] # "EXACT" /\ c[1] \notin Jumps /\ c[1] # "BRANCH" /\ Len(c) = 2 /\ Listed(c)
    BY <1>2, <1>8 DEF Width, Jumps, Loops
  <2> HIDE DEF c
  <2>2. Apart(c, {1, 3})
    BY <2>1 DEF Apart
  <2>3. \A s \in {1, 3} : s <= Len(c) => Instr(c, {1, 3}, {}, s)
    BY <2>1 DEF Instr
  <2> QED
    BY <2>1, <2>2, <2>3 DEF Shape
<1> QED
  BY <1>2, <1>8, <1>9, <1>10

LEMMA InitIInv ==
  ASSUME Init
  PROVE  IInv
<1>1. /\ phase = "compile" /\ reg \in Pattern /\ re = 1 /\ prog = Emit(NewProgram, << "OPEN", 0 >>)
      /\ num_caps = 0 /\ set = NoSet /\ start = 0 /\ ofs = 0 /\ res = "none" /\ ret = 0 /\ nsub = 0
  BY DEF Init
<1>2. frames = <<>>
  BY DEF Init
<1>3. txt = <<>>
  BY DEF Init
<1>4. stack = <<>>
  BY DEF Init
<1>5. /\ Sized(prog) /\ prog.err = "none" /\ Len(prog.code) = 2
      /\ Shape(prog.code, {1, 3}, {})
  BY <1>1, FirstProgram
<1>6. Len(reg) \in Nat /\ Len(reg) >= 1 /\ MaxSub \in Nat
  BY <1>1, PatternIs
<1>7. Possible(prog.code, frames, set, reg, re, num_caps)
  <2> DEFINE S == {1, 3}
             O == {}
  <2>1. Between(prog.code, S, O, set, reg, re, num_caps)
    BY <1>1, <1>5 DEF Between
  <2>2. Coherent(prog.code, frames, S, O, set, reg, re, num_caps)
    BY <1>2, <1>5, <2>1 DEF Coherent
  <2> QED
    BY <2>2 DEF Possible
<1>8. Compiler
  <2>1. re \in 1 .. Len(reg) + 1 /\ ~ Escaped(reg, re)
    BY <1>1, <1>6 DEF Escaped
  <2>2. frames \in Seq(CallsOfCompile)
    BY <1>2
  <2>3. num_caps \in Nat /\ num_caps <= Before(reg, re)
    <3>1. Before(reg, re) \in Nat
      BY <1>1, <2>1, BeforeBounded
    <3> QED
      BY <1>1, <3>1
  <2>4. prog.err # "bracket"
    BY <1>5
  <2> QED
    BY <1>1, <1>5, <1>7, <2>1, <2>2, <2>3, <2>4 DEF Compiler, Compiling
<1>9. Matcher
  <2>1. Len(txt) = 0
    BY <1>3
  <2>2. start \in Offsets /\ ofs \in Offsets
    BY <1>1, <2>1 DEF Offsets
  <2>3. stack \in Seq(MatchCalls)
    BY <1>4
  <2>4. txt \in Seq(STRING)
    BY <1>3
  <2> QED
    BY <1>1, <1>3, <1>4, <2>2, <2>3, <2>4 DEF Matcher
<1>10. Result
  BY <1>1, <1>6 DEF Result
<1> QED
  BY <1>8, <1>9, <1>10 DEF IInv

LEMMA MatchUnknownKeeps ==
  ASSUME IInv, MatchUnknown
  PROVE  IInv'
<1>1. /\ phase' = "lost" /\ stack' = <<>>
      /\ reg' = reg /\ re' = re /\ prog' = prog /\ num_caps' = num_caps /\ frames' = frames
      /\ set' = set /\ txt' = txt /\ start' = start /\ ofs' = ofs /\ res' = res /\ ret' = ret /\ nsub' = nsub
  BY DEF MatchUnknown, compiler, result
<1>2. Compiler'
  BY <1>1 DEF IInv, Compiler
<1>3. Matcher'
  <2>1. stack' \in Seq(MatchCalls)'
    BY <1>1
  <2>2. phase' \notin {"compile", "scan", "match"}
    BY <1>1
  <2>3. txt' \in Seq(STRING) /\ start' \in Offsets' /\ ofs' \in Offsets'
    BY <1>1 DEF IInv, Matcher, Offsets
  <2> QED
    BY <1>1, <2>1, <2>2, <2>3 DEF Matcher
<1>4. Result'
  BY <1>1 DEF IInv, Result
<1> QED
  BY <1>2, <1>3, <1>4 DEF IInv

LEMMA StutterKeeps ==
  ASSUME IInv, UNCHANGED vars
  PROVE  IInv'
<1>1. /\ phase' = phase /\ reg' = reg /\ re' = re /\ prog' = prog /\ num_caps' = num_caps /\ frames' = frames
      /\ set' = set /\ txt' = txt /\ start' = start /\ ofs' = ofs /\ stack' = stack /\ res' = res /\ ret' = ret /\ nsub' = nsub
  BY DEF vars
<1>2. Compiler'
  <2>1. Compiler
    BY DEF IInv
  <2> QED
    BY <1>1, <2>1 DEF Compiler, Compiling, Broken
<1>3. Matcher'
  <2>1. Matcher
    BY DEF IInv
  <2>2. Matching => Matching'
    BY <1>1 DEF Matching, CallOK, Offsets
  <2> QED
    BY <1>1, <2>1, <2>2 DEF Matcher, Offsets, MatchCalls, anchored
<1>4. Result'
  BY <1>1 DEF IInv, Result
<1> QED
  BY <1>2, <1>3, <1>4 DEF IInv

LEMMA NextKeeps ==
  ASSUME IInv, [Next]_vars
  PROVE  IInv'
<1>1. CASE Next
  BY <1>1, CompileStepKeeps, UnclosedKeeps, EscapeEndKeeps, CompiledKeeps, TooLongKeeps, TryKeeps, NoMatchKeeps,
     TriedKeeps, MatchStepKeeps, MatchUnknownKeeps DEF Next
<1>2. CASE UNCHANGED vars
  BY <1>2, StutterKeeps
<1> QED
  BY <1>1, <1>2

LEMMA IInvTypes ==
  ASSUME IInv
  PROVE  TypeOK
<1>1. /\ phase \in {"compile", "scan", "match", "done", "lost"}
      /\ res \in {"none", "yes", "no"} /\ ret \in {0, -1, -11, -12} /\ nsub \in 0 .. MaxSub
  BY DEF IInv, Result
<1>2. re \in 1 .. Len(reg) + 1 /\ Len(prog.code) <= CodeSize /\ Len(prog.data) <= CodeSize
  BY DEF IInv, Compiler, Sized
<1>3. num_caps \in 0 .. MaxSub - 1
  <2>1. reg \in Pattern /\ num_caps \in Nat /\ num_caps <= Before(reg, re)
    BY DEF IInv, Compiler
  <2>2. Before(reg, re) \in Nat /\ Before(reg, re) < MaxSub
    BY <1>2, <2>1, BeforeBounded
  <2>3. MaxSub \in Nat
    BY RegexAssumption
  <2> QED
    BY ONLY <2>1, <2>2, <2>3
<1>4. ofs \in 0 .. Len(txt)
  BY DEF IInv, Matcher, Offsets
<1>5. ASSUME stack # <<>> PROVE IsInstruction(t.pc)
  <2>1. phase = "match"
    BY <1>5 DEF IInv, Matcher
  <2>2. PICK S : InRun(S)
    BY <2>1, Runnable
  <2>3. Runs(prog.code, S) /\ t.pc \in S
    BY <1>5, <2>2, OnTop DEF InRun
  <2> QED
    BY <2>3, PlacesAreInstructions
<1>6. ASSUME NEW n \in DOMAIN stack PROVE stack[n].saved \in 0 .. Len(txt) /\ stack[n].matched \in 0 .. Len(txt)
  <2>1. stack \in Seq(MatchCalls)
    BY DEF IInv, Matcher
  <2>2. stack[n] \in MatchCalls
    BY <1>6, <2>1
  <2> QED
    BY <2>2 DEF MatchCalls, Offsets
<1> QED
  BY <1>1, <1>2, <1>3, <1>4, <1>5, <1>6 DEF TypeOK

(* Whatever the pattern and the text: no more captures are claimed than    *)
(* there is room for, every instruction that match runs, or goes on with,  *)
(* is the beginning of one that compile wrote, inside the code (what the   *)
(* source asserts, regex.c:519-520), and no offset leaves the text.        *)
THEOREM TypeOKAlways == Spec => []TypeOK
<1>1. Init => IInv
  BY InitIInv
<1>2. IInv /\ [Next]_vars => IInv'
  BY NextKeeps
<1>3. IInv => TypeOK
  BY IInvTypes
<1> QED
  BY <1>1, <1>2, <1>3, PTL DEF Spec
=============================================================================
