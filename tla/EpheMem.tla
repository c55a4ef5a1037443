------------------------------- MODULE EpheMem -------------------------------
(***************************************************************************)
(* The ring of scratch buffers of lib/mem.c (wa_ephemem) and its client    *)
(* wa_readfile of lib/file.c.  Nobody frees a scratch buffer: a caller may *)
(* use it until EPHEMEM_SIZE later calls have come round to its slot.      *)
(*                                                                         *)
(* The heap is a set of blocks with the sizes they were malloc'ed with.    *)
(* malloc succeeds: the code writes through its result without a test.     *)
(***************************************************************************)
EXTENDS Integers

CONSTANTS
  EPHEMEM_SIZE,  \* slots of the ring: 32
  MaxSize,       \* the largest size a slot's unsigned short holds: 65535
  Block,         \* the blocks of the heap
  Request,       \* the sizes callers ask for
  FileSize,      \* the sizes of the files that are read
  MaxOpen,       \* how many files the process may hold open
  NULL

(* File sizes are such that fileSize + 1 survives the conversion to int.   *)
ASSUME EpheAssumption ==
  /\ EPHEMEM_SIZE \in Nat \ {0}
  /\ MaxSize \in Nat \ {0}
  /\ Request \subseteq Int
  /\ FileSize \subseteq Nat
  /\ MaxOpen \in Nat
  /\ NULL \notin Block

Slot == 0 .. EPHEMEM_SIZE - 1

VARIABLES
  idx,     \* the static counter of sf_epheidx
  sze,     \* sze[i]: the size slot i's buffer was allocated with
  ptr,     \* ptr[i]: slot i's buffer, or NULL
  heap,    \* heap[b]: the size block b is allocated with, 0 if it is free
  files,   \* how many FILE objects are open
  recent   \* recent[a]: the buffer handed out a calls ago and the number of
           \* bytes its user may write, or NULL (what the callers remember)

vars == <<idx, sze, ptr, heap, files, recent>>

Init ==
  /\ idx = 0
  /\ sze = [i \in Slot |-> 0]
  /\ ptr = [i \in Slot |-> NULL]
  /\ heap = [b \in Block |-> 0]
  /\ files = 0
  /\ recent = [a \in Slot |-> NULL]

(* sf_epheidx: the slot this call takes; idx moves past it. *)
NextSlot == IF idx >= EPHEMEM_SIZE THEN 0 ELSE idx

(* A buffer of at least n bytes goes out, and its user may write n bytes.  *)
HandOut(b, n) ==
  recent' = [a \in Slot |-> IF a = 0 THEN [buf |-> b, n |-> n] ELSE recent[a - 1]]

(* The slot's buffer is large enough, and is used again. *)
Reuse(i, n, w) ==
  /\ sze[i] >= n
  /\ HandOut(ptr[i], w)
  /\ UNCHANGED <<sze, ptr, heap>>

Freed(i) == IF ptr[i] = NULL THEN heap ELSE [heap EXCEPT ![ptr[i]] = 0]

(* Mutation of Replace: the old buffer is not freed. *)
ReplaceLeaking(i, n, w) ==
  /\ sze[i] < n
  /\ \E b \in Block :
       /\ heap[b] = 0
       /\ heap' = [heap EXCEPT ![b] = n]
       /\ ptr' = [ptr EXCEPT ![i] = b]
       /\ HandOut(b, w)
  /\ sze' = [sze EXCEPT ![i] = n]

(* It is too small: it is freed and another one allocated, maybe at the    *)
(* same address.                                                           *)
Replace(i, n, w) ==
  /\ sze[i] < n
  /\ \E b \in Block :
       /\ Freed(i)[b] = 0
       /\ heap' = [Freed(i) EXCEPT ![b] = n]
       /\ ptr' = [ptr EXCEPT ![i] = b]
       /\ HandOut(b, w)
  /\ sze' = [sze EXCEPT ![i] = n]

(* Mutation of Refused: one more than the size field holds is let through. *)
RefusedLate(n) == n > MaxSize + 1 \/ n <= 0

Refused(n) == n > MaxSize \/ n <= 0

(* wa_ephemem(n) that succeeds; the buffer's user may write w bytes. *)
Scratch(n, w) ==
  /\ ~Refused(n)
  /\ idx' = NextSlot + 1
  /\ Reuse(NextSlot, n, w) \/ Replace(NextSlot, n, w)

EphememRefused(n) ==
  /\ Refused(n)
  /\ UNCHANGED vars

Ephemem(n) ==
  /\ Scratch(n, n)
  /\ UNCHANGED files

(***************************************************************************)
(* wa_readfile of a file of size bytes                                     *)
(***************************************************************************)

(* fopen fails: the file cannot be opened, or too many are open. *)
ReadFileUnopened == UNCHANGED vars

(* The file does not fit a scratch buffer: NULL, and the file stays open.  *)
ReadFileTooBig(size) ==
  /\ files < MaxOpen
  /\ Refused(size + 1)
  /\ files' = files + 1
  /\ UNCHANGED <<idx, sze, ptr, heap, recent>>

(* Mutation of ReadFileWhole: no room for the terminating zero. *)
ReadFileUnterminated(size) ==
  /\ files < MaxOpen
  /\ Scratch(size, size + 1)
  /\ UNCHANGED files

(* The whole file, or what fread gets of it, is read into a buffer of      *)
(* size + 1 bytes and terminated; the file is closed.                      *)
ReadFileWhole(size) ==
  /\ files < MaxOpen
  /\ Scratch(size + 1, size + 1)
  /\ UNCHANGED files

Next ==
  \/ \E n \in Request : Ephemem(n) \/ EphememRefused(n)
  \/ \E size \in FileSize :
       ReadFileTooBig(size) \/ ReadFileWhole(size)
  \/ ReadFileUnopened

Spec == Init /\ [][Next]_vars

(***************************************************************************)
(* Properties                                                              *)
(***************************************************************************)

(* The ring's counter and sizes stay inside their arrays and types, and    *)
(* sizes fit the unsigned short they are kept in (mem.c:204,208-216).      *)
TypeOK ==
  /\ idx \in 0 .. EPHEMEM_SIZE
  /\ sze \in [Slot -> 0 .. MaxSize]
  /\ ptr \in [Slot -> Block \union {NULL}]
  /\ heap \in [Block -> 0 .. MaxSize]
  /\ files \in 0 .. MaxOpen
  /\ recent \in [Slot -> [buf : Block, n : 1 .. MaxSize] \union {NULL}]

(* The buffers of the last EPHEMEM_SIZE calls are all usable: allocated,   *)
(* large enough for what their users may write, and no two the same        *)
(* (mem.c:214-226; file.c:15-29).                                          *)
WindowSound ==
  /\ \A a \in Slot : recent[a] # NULL => recent[a].n <= heap[recent[a].buf]
  /\ \A a, c \in Slot :
       recent[a] # NULL /\ recent[c] # NULL /\ recent[a].buf = recent[c].buf => a = c

(* A block that is allocated belongs to a slot of the ring: however long   *)
(* the program runs, it holds at most EPHEMEM_SIZE buffers (mem.c:219-222). *)
RingOwnsHeap ==
  \A b \in Block : heap[b] > 0 => \E i \in Slot : ptr[i] = b

(* The slot that served the call a calls ago.                              *)
SlotOf(a) == IF a < idx THEN idx - 1 - a ELSE idx - 1 - a + EPHEMEM_SIZE

(* The inductive invariant: the slots own different blocks of the sizes    *)
(* they record, and each recent result is its slot's buffer.               *)
IInv ==
  /\ TypeOK
  /\ \A i, j \in Slot : ptr[i] = ptr[j] /\ ptr[i] # NULL => i = j
  /\ \A i \in Slot : ptr[i] # NULL => heap[ptr[i]] = sze[i]
  /\ \A i \in Slot : sze[i] > 0 <=> ptr[i] # NULL
  /\ \A a \in Slot : recent[a] # NULL =>
       /\ recent[a].buf = ptr[SlotOf(a)]
       /\ recent[a].n <= sze[SlotOf(a)]
  /\ RingOwnsHeap
=============================================================================
