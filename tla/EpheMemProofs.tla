--------------------------- MODULE EpheMemProofs ---------------------------
(***************************************************************************)
(* Proofs about the ring of scratch buffers, for every number of slots,    *)
(* every size limit and every heap: the window in which a caller may use a *)
(* buffer is as long as the ring.                                          *)
(***************************************************************************)
EXTENDS EpheMem, TLAPS

(* The slot of a recent call is one of the ring's, and no two of the last  *)
(* EPHEMEM_SIZE calls share it (mem.c:208-212).                            *)
LEMMA SlotOfFacts ==
  ASSUME idx \in Nat, idx <= EPHEMEM_SIZE
  PROVE  /\ \A a \in Slot : SlotOf(a) \in Slot
         /\ \A a, c \in Slot : SlotOf(a) = SlotOf(c) => a = c
BY EpheAssumption DEF Slot, SlotOf

(* The slot a call takes exists, and becomes the slot of the latest call;  *)
(* every older call moves one step into the past but keeps its slot.       *)
LEMMA NextSlotFacts ==
  ASSUME idx \in Nat, idx <= EPHEMEM_SIZE, idx' = NextSlot + 1
  PROVE  /\ NextSlot \in Slot
         /\ idx' \in Nat /\ idx' <= EPHEMEM_SIZE
         /\ SlotOf(0)' = NextSlot
         /\ \A a \in Slot : a # 0 => a - 1 \in Slot /\ SlotOf(a)' = SlotOf(a - 1)
         /\ \A a \in Slot : a # 0 => SlotOf(a - 1) # NextSlot
BY EpheAssumption DEF Slot, SlotOf, NextSlot

(* What the invariant says of sizes, blocks and results as numbers.        *)
LEMMA InvFacts ==
  ASSUME IInv
  PROVE  /\ idx \in Nat /\ idx <= EPHEMEM_SIZE
         /\ \A i \in Slot : sze[i] \in Nat /\ sze[i] <= MaxSize
         /\ \A i \in Slot : ptr[i] \in Block \union {NULL}
         /\ \A b \in Block : heap[b] \in Nat /\ heap[b] <= MaxSize
         /\ \A a \in Slot : recent[a] # NULL =>
              recent[a].buf \in Block /\ recent[a].n \in Nat
BY EpheAssumption DEF IInv, TypeOK

(* The ring starts without buffers (mem.c:203-209).                        *)
LEMMA InitIInv == Init => IInv
<1> SUFFICES ASSUME Init PROVE IInv
  OBVIOUS
<1>1. TypeOK
  BY EpheAssumption DEF Init, TypeOK
<1>2. RingOwnsHeap
  BY DEF Init, RingOwnsHeap
<1>3. QED
  BY <1>1, <1>2 DEF Init, IInv

(* The results handed out so far, one step further in the past, and the    *)
(* new one: all are their slots' buffers, if the slots that older results  *)
(* are in keep their buffers.                                              *)
LEMMA RecentShifts ==
  ASSUME IInv, idx' = NextSlot + 1, NEW b \in Block, NEW w \in 1 .. MaxSize, HandOut(b, w),
         ptr'[NextSlot] = b, w <= sze'[NextSlot],
         \A j \in Slot : j # NextSlot => ptr'[j] = ptr[j] /\ sze'[j] = sze[j]
  PROVE  /\ recent' \in [Slot -> [buf : Block, n : 1 .. MaxSize] \union {NULL}]
         /\ \A a \in Slot : recent'[a] # NULL =>
              /\ recent'[a].buf = ptr'[SlotOf(a)']
              /\ recent'[a].n <= sze'[SlotOf(a)']
<1>1. idx \in Nat /\ idx <= EPHEMEM_SIZE
  BY InvFacts
<1>2. \A a \in Slot : a # 0 => a - 1 \in Slot
  BY <1>1, NextSlotFacts
<1>3. [buf |-> b, n |-> w] \in [buf : Block, n : 1 .. MaxSize]
  OBVIOUS
<1>4. \A a \in Slot : recent'[a] = IF a = 0 THEN [buf |-> b, n |-> w] ELSE recent[a - 1]
  BY DEF HandOut
<1>5. recent' \in [Slot -> [buf : Block, n : 1 .. MaxSize] \union {NULL}]
  BY <1>2, <1>3 DEF HandOut, IInv, TypeOK
<1>6. ASSUME NEW a \in Slot, recent'[a] # NULL
      PROVE  /\ recent'[a].buf = ptr'[SlotOf(a)']
             /\ recent'[a].n <= sze'[SlotOf(a)']
  <2>1. CASE a = 0
    BY <1>1, <1>4, <2>1, NextSlotFacts
  <2>2. CASE a # 0
    <3>1. a - 1 \in Slot /\ recent'[a] = recent[a - 1]
      BY <1>2, <1>4, <2>2
    <3>2. SlotOf(a)' = SlotOf(a - 1) /\ SlotOf(a - 1) # NextSlot
      BY <1>1, <2>2, NextSlotFacts
    <3>3. SlotOf(a - 1) \in Slot
      BY <1>1, <3>1, SlotOfFacts
    <3>4. ptr'[SlotOf(a - 1)] = ptr[SlotOf(a - 1)] /\ sze'[SlotOf(a - 1)] = sze[SlotOf(a - 1)]
      BY <3>2, <3>3
    <3>5. QED
      BY <1>6, <3>1, <3>2, <3>4 DEF IInv
  <2>3. QED
    BY <2>1, <2>2
<1>7. QED
  BY <1>5, <1>6

(* A buffer that is large enough is handed out again (mem.c:219,224-225).  *)
LEMMA ReuseKeeps ==
  ASSUME IInv, files' = files, NEW n \in Int, n > 0, n <= MaxSize,
         idx' = NextSlot + 1, Reuse(NextSlot, n, n)
  PROVE  IInv'
<1>1. NextSlot \in Slot /\ idx' \in Nat /\ idx' <= EPHEMEM_SIZE
  BY InvFacts, NextSlotFacts
<1>2. sze[NextSlot] \in Nat /\ sze[NextSlot] > 0
  BY <1>1, InvFacts DEF Reuse
<1>3. ptr[NextSlot] \in Block
  BY <1>1, <1>2, InvFacts DEF IInv
<1>4. n \in 1 .. MaxSize
  BY EpheAssumption
<1>5. /\ recent' \in [Slot -> [buf : Block, n : 1 .. MaxSize] \union {NULL}]
      /\ \A a \in Slot : recent'[a] # NULL =>
           recent'[a].buf = ptr'[SlotOf(a)'] /\ recent'[a].n <= sze'[SlotOf(a)']
  BY <1>2, <1>3, <1>4, RecentShifts DEF Reuse
<1>6. idx' \in 0 .. EPHEMEM_SIZE
  BY <1>1, EpheAssumption
<1>7. TypeOK'
  BY <1>5, <1>6 DEF Reuse, IInv, TypeOK
<1>8. RingOwnsHeap'
  BY DEF Reuse, IInv, RingOwnsHeap
<1>9. QED
  BY <1>5, <1>7, <1>8 DEF Reuse, IInv

(* The block that replaces a buffer is no other slot's: the other slots'   *)
(* blocks are allocated, and only the slot's own one was freed             *)
(* (mem.c:219-223).                                                        *)
LEMMA ReplaceKeeps ==
  ASSUME IInv, files' = files, NEW n \in Int, n > 0, n <= MaxSize,
         idx' = NextSlot + 1, Replace(NextSlot, n, n)
  PROVE  IInv'
<1> DEFINE i == NextSlot
<1>1. i \in Slot /\ idx' \in Nat /\ idx' <= EPHEMEM_SIZE
  BY InvFacts, NextSlotFacts
<1>2. PICK b \in Block :
        /\ Freed(i)[b] = 0
        /\ heap' = [Freed(i) EXCEPT ![b] = n]
        /\ ptr' = [ptr EXCEPT ![i] = b]
        /\ HandOut(b, n)
  BY DEF Replace
<1>3. sze' = [sze EXCEPT ![i] = n]
  BY DEF Replace
<1>4. n \in 1 .. MaxSize /\ n \in 0 .. MaxSize /\ n \in Nat
  BY EpheAssumption
<1>5. \A j \in Slot : /\ ptr'[j] = IF j = i THEN b ELSE ptr[j]
                      /\ sze'[j] = IF j = i THEN n ELSE sze[j]
  BY <1>2, <1>3 DEF IInv, TypeOK
<1>6. /\ Freed(i) \in [Block -> 0 .. MaxSize]
      /\ \A c \in Block : Freed(i)[c] = IF c = ptr[i] THEN 0 ELSE heap[c]
  <2>1. heap \in [Block -> 0 .. MaxSize] /\ 0 \in 0 .. MaxSize /\ NULL \notin Block
    BY EpheAssumption DEF IInv, TypeOK
  <2>2. QED
    BY <2>1 DEF Freed
<1>7. \A c \in Block : heap'[c] = IF c = b THEN n ELSE IF c = ptr[i] THEN 0 ELSE heap[c]
  BY <1>2, <1>6
<1>8. \A j \in Slot : j # i /\ ptr[j] # NULL =>
        /\ ptr[j] \in Block /\ ptr[j] # ptr[i] /\ ptr[j] # b
        /\ heap[ptr[j]] = sze[j]
  <2>1. SUFFICES ASSUME NEW j \in Slot, j # i, ptr[j] # NULL
                 PROVE  /\ ptr[j] \in Block /\ ptr[j] # ptr[i] /\ ptr[j] # b
                        /\ heap[ptr[j]] = sze[j]
    OBVIOUS
  <2>2. ptr[j] \in Block /\ ptr[j] # ptr[i] /\ heap[ptr[j]] = sze[j] /\ sze[j] > 0
    BY <1>1, <2>1, InvFacts DEF IInv
  <2>3. Freed(i)[ptr[j]] = sze[j]
    BY <1>6, <2>2
  <2>4. ptr[j] # b
    BY <1>2, <2>1, <2>2, <2>3, InvFacts
  <2>5. QED
    BY <2>2, <2>4
<1>9. /\ recent' \in [Slot -> [buf : Block, n : 1 .. MaxSize] \union {NULL}]
      /\ \A a \in Slot : recent'[a] # NULL =>
           recent'[a].buf = ptr'[SlotOf(a)'] /\ recent'[a].n <= sze'[SlotOf(a)']
  <2>1. ptr'[i] = b /\ n <= sze'[i]
    BY <1>1, <1>4, <1>5
  <2>2. QED
    BY <1>2, <1>4, <1>5, <2>1, RecentShifts
<1>10. TypeOK'
  <2>1. idx' \in 0 .. EPHEMEM_SIZE
    BY <1>1, EpheAssumption
  <2>2. heap' \in [Block -> 0 .. MaxSize]
    BY <1>2, <1>4, <1>6
  <2>3. QED
    BY <1>2, <1>3, <1>4, <1>9, <2>1, <2>2 DEF IInv, TypeOK
<1>11. \A j, k \in Slot : ptr'[j] = ptr'[k] /\ ptr'[j] # NULL => j = k
  BY <1>5, <1>8 DEF IInv
<1>12. \A j \in Slot : ptr'[j] # NULL => heap'[ptr'[j]] = sze'[j]
  BY <1>5, <1>7, <1>8
<1>13. \A j \in Slot : sze'[j] > 0 <=> ptr'[j] # NULL
  BY <1>5, EpheAssumption DEF IInv
<1>14. RingOwnsHeap'
  <2>1. SUFFICES ASSUME NEW c \in Block, heap'[c] > 0
                 PROVE  \E j \in Slot : ptr'[j] = c
    BY DEF RingOwnsHeap
  <2>2. CASE c = b
    BY <1>1, <1>5, <2>2
  <2>3. CASE c # b
    <3>1. c # ptr[i] /\ heap[c] > 0
      BY <1>7, <2>1, <2>3
    <3>2. PICK j \in Slot : ptr[j] = c
      BY <3>1 DEF IInv, RingOwnsHeap
    <3>3. QED
      BY <1>5, <3>1, <3>2
  <2>4. QED
    BY <2>2, <2>3
<1>15. QED
  BY <1>9, <1>10, <1>11, <1>12, <1>13, <1>14 DEF IInv

(* A request keeps the invariant, whether or not the slot's buffer is      *)
(* large enough (mem.c:214-226).                                           *)
LEMMA ScratchKeeps ==
  ASSUME IInv, files' = files, NEW n \in Int, Scratch(n, n)
  PROVE  IInv'
<1>1. n > 0 /\ n <= MaxSize
  BY EpheAssumption DEF Scratch, Refused
<1>2. QED
  BY <1>1, ReuseKeeps, ReplaceKeeps DEF Scratch

(* Every call of wa_ephemem and wa_readfile keeps the invariant.           *)
LEMMA NextKeeps ==
  ASSUME IInv, [Next]_vars
  PROVE  IInv'
<1>1. CASE UNCHANGED vars
  BY <1>1 DEF vars, IInv, TypeOK, RingOwnsHeap, SlotOf
<1>2. ASSUME NEW n \in Request, Ephemem(n)
      PROVE  IInv'
  BY <1>2, ScratchKeeps, EpheAssumption DEF Ephemem
<1>3. ASSUME NEW size \in FileSize, ReadFileWhole(size)
      PROVE  IInv'
  <2>1. size + 1 \in Int
    BY EpheAssumption
  <2>2. QED
    BY <1>3, <2>1, ScratchKeeps DEF ReadFileWhole
<1>4. ASSUME NEW size \in FileSize, ReadFileTooBig(size)
      PROVE  IInv'
  <2>1. TypeOK'
    BY <1>4, EpheAssumption DEF ReadFileTooBig, IInv, TypeOK
  <2>2. QED
    BY <1>4, <2>1 DEF ReadFileTooBig, IInv, RingOwnsHeap, SlotOf
<1>5. QED
  BY <1>1, <1>2, <1>3, <1>4 DEF Next, EphememRefused, ReadFileUnopened

(* The inductive invariant holds of every sequence of calls                *)
(* (mem.c:208-226; file.c:4-33).                                           *)
THEOREM RingInvariant == Spec => []IInv
<1>1. Init => IInv
  BY InitIInv
<1>2. IInv /\ [Next]_vars => IInv'
  BY NextKeeps
<1>3. QED
  BY <1>1, <1>2, PTL DEF Spec

(* The buffers of the last EPHEMEM_SIZE calls are allocated, large enough  *)
(* and different, for a ring of any length (mem.c:214-226).                *)
THEOREM RingWindowSound == Spec => []WindowSound
<1>1. IInv => WindowSound
  <2> SUFFICES ASSUME IInv PROVE WindowSound
    OBVIOUS
  <2>1. ASSUME NEW a \in Slot, recent[a] # NULL
        PROVE  /\ SlotOf(a) \in Slot
               /\ recent[a].buf = ptr[SlotOf(a)] /\ ptr[SlotOf(a)] # NULL
               /\ recent[a].n <= heap[recent[a].buf]
    <3>1. SlotOf(a) \in Slot
      BY InvFacts, SlotOfFacts
    <3>2. recent[a].buf = ptr[SlotOf(a)] /\ recent[a].n <= sze[SlotOf(a)]
      BY <2>1 DEF IInv
    <3>3. ptr[SlotOf(a)] # NULL
      BY <2>1, <3>2, InvFacts, EpheAssumption
    <3>4. QED
      BY <3>1, <3>2, <3>3 DEF IInv
  <2>2. ASSUME NEW a \in Slot, NEW c \in Slot, recent[a] # NULL, recent[c] # NULL,
               recent[a].buf = recent[c].buf
        PROVE  a = c
    <3>1. SlotOf(a) = SlotOf(c)
      BY <2>1, <2>2 DEF IInv
    <3>2. QED
      BY <3>1, InvFacts, SlotOfFacts
  <2>3. QED
    BY <2>1, <2>2 DEF WindowSound
<1>2. QED
  BY <1>1, RingInvariant, PTL

(* The heap holds no scratch buffer that the ring has lost (mem.c:219-223). *)
THEOREM RingOwnsHeapAlways == Spec => []RingOwnsHeap
<1>1. IInv => RingOwnsHeap
  BY DEF IInv
<1>2. QED
  BY <1>1, RingInvariant, PTL

(* The ring's state stays within its types: every slot's size and buffer,  *)
(* and the index that is one past the latest slot (mem.c:203-226).         *)
THEOREM RingTypeCorrect == Spec => []TypeOK
<1>1. IInv => TypeOK
  BY DEF IInv
<1>2. QED
  BY <1>1, RingInvariant, PTL
=============================================================================
