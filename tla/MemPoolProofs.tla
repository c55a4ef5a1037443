--------------------------- MODULE MemPoolProofs ---------------------------
(***************************************************************************)
(* Proofs about the memory pool, for every set of bulk sizes, every page   *)
(* size and page number that the code's bytes can hold, and any number of  *)
(* program variables: what the pool's runs check on a small instance.  All *)
(* of it assumes that wa_finalize is not called while a page is full.      *)
(***************************************************************************)
EXTENDS MemPool, FiniteSetTheorems, TLAPS

(***************************************************************************)
(* Pages, slots and pointers                                               *)
(***************************************************************************)

(* A page belongs to a bulk and has between 1 and 255 slots (mem.c:64-69). *)
LEMMA PageFacts ==
  ASSUME NEW pg \in Page
  PROVE  /\ pg[1] \in Bulk
         /\ pg[2] \in Nat
         /\ pg = <<pg[1], pg[2]>>
         /\ SlotCount(pg) \in Nat /\ 1 <= SlotCount(pg) /\ SlotCount(pg) <= 255
         /\ \A i : i \in Slots(pg) <=> i \in Nat /\ i < SlotCount(pg)
         /\ Slots(pg) \subseteq 0 .. 255
BY SizeAssumption DEF Page, Slots, SlotCount

(* A pointer is a page and the index of one of its slots (mem.c:18-24).    *)
LEMMA PointerFacts ==
  ASSUME NEW p \in Pointer
  PROVE  /\ p[1] \in Page
         /\ p[2] \in Slots(p[1])
         /\ p = <<p[1], p[2]>>
BY DEF Pointer

(* Each slot of each page is a pointer.                                    *)
LEMMA SlotIsPointer ==
  ASSUME NEW pg \in Page, NEW i \in Slots(pg)
  PROVE  /\ <<pg, i>> \in Pointer
         /\ <<pg, i>>[1] = pg
         /\ <<pg, i>>[2] = i
BY PageFacts DEF Pointer

(* The counters' bytes hold every value the counters take (mem.c:30).      *)
LEMMA ByteFacts ==
  ASSUME NEW x \in Nat, x <= 255
  PROVE  Byte(x) = x
BY DEF Byte

(* The slots lent on a page are finitely many, so they can be counted.     *)
LEMMA LentFinite ==
  ASSUME NEW pg \in Page
  PROVE  IsFiniteSet(LentOn(pg))
<1>1. LentOn(pg) \in SUBSET Nat
  BY PageFacts DEF LentOn
<1>2. \A i \in LentOn(pg) : i <= 255
  BY PageFacts DEF LentOn
<1>3. QED
  BY <1>1, <1>2, FS_BoundedSetOfNaturals

(* Lending a slot that is not lent counts one more on its page, and leaves *)
(* the other pages as they were (mem.c:40-41,56-57).                       *)
LEMMA LendCount ==
  ASSUME NEW pg \in Page, NEW i \in Slots(pg), <<pg, i>> \notin lent,
         lent' = lent \union {<<pg, i>>}
  PROVE  /\ Cardinality(LentOn(pg)') = Cardinality(LentOn(pg)) + 1
         /\ \A q \in Page : q # pg => LentOn(q)' = LentOn(q)
<1>1. LentOn(pg)' = LentOn(pg) \union {i} /\ i \notin LentOn(pg)
  BY DEF LentOn
<1>2. Cardinality(LentOn(pg) \union {i}) = Cardinality(LentOn(pg)) + 1
  BY <1>1, LentFinite, FS_AddElement
<1>3. \A q \in Page : q # pg => LentOn(q)' = LentOn(q)
  BY DEF LentOn
<1>4. QED
  BY <1>1, <1>2, <1>3

(* Taking back a lent slot counts one less on its page, which had at least *)
(* one, and leaves the other pages as they were (mem.c:122-123).           *)
LEMMA ReturnCount ==
  ASSUME NEW pg \in Page, NEW i \in Slots(pg), <<pg, i>> \in lent,
         lent' = lent \ {<<pg, i>>}
  PROVE  /\ Cardinality(LentOn(pg)) \in Nat \ {0}
         /\ Cardinality(LentOn(pg)') = Cardinality(LentOn(pg)) - 1
         /\ \A q \in Page : q # pg => LentOn(q)' = LentOn(q)
<1>1. LentOn(pg)' = LentOn(pg) \ {i} /\ i \in LentOn(pg)
  BY DEF LentOn
<1>2. Cardinality(LentOn(pg) \ {i}) = Cardinality(LentOn(pg)) - 1
  BY <1>1, LentFinite, FS_RemoveElement
<1>3. Cardinality(LentOn(pg)) \in Nat \ {0}
  BY <1>1, LentFinite, FS_CardinalityType, FS_EmptySet
<1>4. \A q \in Page : q # pg => LentOn(q)' = LentOn(q)
  BY DEF LentOn
<1>5. QED
  BY <1>1, <1>2, <1>3, <1>4

(***************************************************************************)
(* wa_alloc: both ways to serve a small request lend one free slot         *)
(***************************************************************************)

(* A page that is not full has an array entry at used, and counting one    *)
(* more slot stays inside the byte (mem.c:29-30).                          *)
LEMMA RoomFacts ==
  ASSUME TypeOK, NEW pg \in Page, used[pg] < SlotCount(pg)
  PROVE  /\ used[pg] \in Slots(pg)
         /\ used[pg] + 1 \in Nat /\ used[pg] + 1 <= SlotCount(pg)
         /\ Byte(used[pg] + 1) = used[pg] + 1
<1>1. used[pg] \in Nat
  BY DEF TypeOK
<1>2. SlotCount(pg) \in Nat /\ SlotCount(pg) <= 255
  BY PageFacts
<1>3. used[pg] \in Slots(pg)
  BY <1>1, PageFacts
<1>4. used[pg] + 1 \in Nat /\ used[pg] + 1 <= 255 /\ used[pg] + 1 <= SlotCount(pg)
  BY <1>1, <1>2
<1>5. QED
  BY <1>3, <1>4, ByteFacts

(* Slot i of page pg, which is free, is lent to o and counted.             *)
Lends(o, pg, i) ==
  /\ i \in Slots(pg)
  /\ <<pg, i>> \notin lent
  /\ used[pg] < SlotCount(pg)
  /\ lent' = lent \union {<<pg, i>>}
  /\ Hold(o, <<pg, i>>)
  /\ used' = [used EXCEPT ![pg] = used[pg] + 1]
  /\ mem' = [mem EXCEPT ![pg] = TRUE]
  /\ UNCHANGED <<large, large_used>>

(* The top of a page's free stack is a free slot of the page (mem.c:38-42). *)
LEMMA BorrowSlotLends ==
  ASSUME IInv, NEW o \in Owner, NEW pg \in Page, BorrowSlot(o, pg)
  PROVE  /\ Lends(o, pg, canuse[<<pg, used[pg]>>])
         /\ UNCHANGED canuse
<1> DEFINE i == canuse[<<pg, used[pg]>>]
<1>1. used[pg] < SlotCount(pg) /\ mem[pg] /\ TypeOK
  BY DEF IInv, BorrowSlot, HasRoom
<1>r. used[pg] \in Slots(pg) /\ Byte(used[pg] + 1) = used[pg] + 1
  BY <1>1, RoomFacts
<1>2. <<pg, used[pg]>> \in Pointer /\ <<pg, used[pg]>>[1] = pg
  BY <1>r, SlotIsPointer
<1>3. i \in Slots(pg)
  BY <1>2 DEF IInv, TypeOK
<1>4. <<pg, i>> \notin lent
  <2>1. used[pg] <= used[pg]
    BY <1>1 DEF TypeOK
  <2>2. QED
    BY <1>1, <1>r, <2>1 DEF IInv, FreeSlotsSound
<1>5. mem' = [mem EXCEPT ![pg] = TRUE]
  BY <1>1 DEF TypeOK, BorrowSlot
<1>6. QED
  BY <1>1, <1>r, <1>3, <1>4, <1>5 DEF Lends, BorrowSlot

(* A page that is neither in condition 1 nor 2 has no memory: its slot     *)
(* number used is one of its own, and free (mem.c:47-58).                  *)
LEMMA BorrowNewPageLends ==
  ASSUME IInv, NEW o \in Owner, NEW pg \in Page, BorrowNewPage(o, pg)
  PROVE  /\ ~mem[pg]
         /\ Lends(o, pg, used[pg])
<1>1. ~mem[pg]
  <2>1. used[pg] \in Nat /\ used[pg] <= SlotCount(pg)
    BY DEF IInv, TypeOK
  <2>2. SlotCount(pg) \in Nat /\ SlotCount(pg) <= 255
    BY PageFacts
  <2>3. used[pg] < SlotCount(pg) \/ used[pg] = SlotCount(pg)
    BY <2>1, <2>2
  <2>4. QED
    BY <2>3 DEF BorrowNewPage, IsOther, HasRoom, IsFull
<1>2. TypeOK /\ used[pg] < SlotCount(pg)
  BY <1>1 DEF IInv
<1>r. used[pg] \in Slots(pg) /\ Byte(used[pg] + 1) = used[pg] + 1
  BY <1>2, RoomFacts
<1>3. <<pg, used[pg]>> \notin lent
  <2>1. <<pg, used[pg]>>[1] = pg
    BY <1>r, SlotIsPointer
  <2>2. QED
    BY <1>1, <2>1 DEF IInv, NoAlias
<1>4. QED
  BY <1>1, <1>2, <1>r, <1>3 DEF Lends, BorrowNewPage

(* Lending a free slot keeps the counts, keeps every variable's block its  *)
(* own and keeps room on the pages without memory.                         *)
LEMMA LendsKeeps ==
  ASSUME IInv, NEW o \in Owner, NEW pg \in Page, NEW i, Lends(o, pg, i)
  PROVE  /\ mem' \in [Page -> BOOLEAN]
         /\ used' \in [Page -> Nat]
         /\ \A q \in Page : used'[q] <= SlotCount(q)
         /\ lent' \subseteq Pointer
         /\ owner' \in [Owner -> Pointer \union LargeBlock \union {NULL}]
         /\ CountsCover'
         /\ NoAlias'
         /\ \A q \in Page : ~mem'[q] => used'[q] < SlotCount(q)
<1> USE DEF Lends
<1>1. <<pg, i>> \in Pointer /\ <<pg, i>>[1] = pg
  BY SlotIsPointer
<1>2. /\ mem' \in [Page -> BOOLEAN]
      /\ lent' \subseteq Pointer
      /\ owner' \in [Owner -> Pointer \union LargeBlock \union {NULL}]
  BY <1>1 DEF IInv, TypeOK, Hold
<1>3. used[pg] + 1 \in Nat /\ used[pg] + 1 <= SlotCount(pg)
  BY RoomFacts DEF IInv
<1>4. used' \in [Page -> Nat] /\ \A q \in Page : used'[q] <= SlotCount(q)
  BY <1>3 DEF IInv, TypeOK
<1>5. CountsCover'
  <2>1. large_used' = Cardinality(large')
    BY DEF IInv, CountsCover
  <2>2. ASSUME NEW q \in Page
        PROVE  Cardinality(LentOn(q)') <= used'[q]
    <3>1. CASE q = pg
      <4>1. Cardinality(LentOn(pg)') = Cardinality(LentOn(pg)) + 1
        BY LendCount
      <4>2. used'[pg] = used[pg] + 1 /\ used[pg] \in Nat
        BY DEF IInv, TypeOK
      <4>3. Cardinality(LentOn(pg)) \in Nat /\ Cardinality(LentOn(pg)) <= used[pg]
        BY LentFinite, FS_CardinalityType DEF IInv, CountsCover
      <4>4. QED
        BY <3>1, <4>1, <4>2, <4>3
    <3>2. CASE q # pg
      <4>1. LentOn(q)' = LentOn(q) /\ used'[q] = used[q]
        BY <3>2, LendCount DEF IInv, TypeOK
      <4>2. QED
        BY <4>1 DEF IInv, CountsCover
    <3>3. QED
      BY <3>1, <3>2
  <2>3. QED
    BY <2>1, <2>2 DEF CountsCover
<1>6. NoAlias'
  <2>1. <<pg, i>> \notin large /\ <<pg, i>> # NULL
    BY <1>1, PointerAssumption DEF IInv, TypeOK
  <2>2. \A q \in Owner : owner[q] # <<pg, i>>
    BY <2>1 DEF IInv, NoAlias
  <2>3. \A q \in Owner : owner'[q] = IF q = o THEN <<pg, i>> ELSE owner[q]
    BY DEF Hold, IInv, TypeOK
  <2>4. \A q, r \in Owner : owner'[q] = owner'[r] /\ owner'[q] # NULL => q = r
    BY <2>2, <2>3 DEF IInv, NoAlias
  <2>5. \A q \in Owner : owner'[q] \in lent' \union large' \union {NULL}
    BY <2>3 DEF IInv, NoAlias
  <2>6. \A p \in lent' : mem'[p[1]]
    BY <1>1, PointerFacts DEF IInv, TypeOK, NoAlias
  <2>7. QED
    BY <2>4, <2>5, <2>6 DEF NoAlias
<1>7. \A q \in Page : ~mem'[q] => used'[q] < SlotCount(q)
  BY DEF IInv, TypeOK
<1>8. QED
  BY <1>2, <1>4, <1>5, <1>6, <1>7

(* Lending the top of the free stack leaves the rest of it sound.          *)
LEMMA BorrowSlotKeeps ==
  ASSUME IInv, NEW o \in Owner, NEW pg \in Page, BorrowSlot(o, pg)
  PROVE  IInv'
<1> DEFINE i == canuse[<<pg, used[pg]>>]
<1>1. Lends(o, pg, i) /\ canuse' = canuse
  BY BorrowSlotLends
<1>2. mem' = mem
  BY DEF BorrowSlot
<1>3. TypeOK'
  BY <1>1, LendsKeeps DEF IInv, TypeOK, Lends
<1>4. FreeSlotsSound'
  <2>1. TypeOK /\ used[pg] \in Nat /\ used[pg] < SlotCount(pg) /\ used[pg] \in Slots(pg)
    BY <1>1, RoomFacts DEF Lends, IInv, TypeOK
  <2>2. \A q \in Page : used'[q] = IF q = pg THEN used[pg] + 1 ELSE used[q]
    BY <1>1, <2>1 DEF Lends, TypeOK
  <2>3. ASSUME NEW q \in Page, mem[q],
               NEW j \in Slots(q), NEW k \in Slots(q), used'[q] <= j, used'[q] <= k,
               canuse[<<q, j>>] = canuse[<<q, k>>]
        PROVE  j = k
    <3>1. used[q] <= j /\ used[q] <= k
      BY <2>1, <2>2, <2>3, PageFacts DEF TypeOK
    <3>2. QED
      BY <2>3, <3>1 DEF IInv, FreeSlotsSound
  <2>4. ASSUME NEW q \in Page, mem[q], NEW j \in Slots(q), used'[q] <= j
        PROVE  <<q, canuse[<<q, j>>]>> \notin lent'
    <3>1. used[q] <= j /\ (q = pg => j # used[pg])
      BY <2>1, <2>2, <2>4, PageFacts DEF TypeOK
    <3>2. <<q, canuse[<<q, j>>]>> \notin lent
      BY <2>4, <3>1 DEF IInv, FreeSlotsSound
    <3>3. <<q, canuse[<<q, j>>]>> # <<pg, i>>
      <4>1. used[pg] <= used[pg]
        BY <2>1
      <4>2. QED
        BY <2>1, <2>4, <3>1, <4>1 DEF IInv, FreeSlotsSound
    <3>4. QED
      BY <1>1, <3>2, <3>3 DEF Lends
  <2>5. QED
    BY <1>1, <1>2, <2>3, <2>4 DEF FreeSlotsSound
<1>5. PagesContiguous'
  BY <1>2 DEF IInv, PagesContiguous
<1>6. QED
  BY <1>1, <1>3, <1>4, <1>5, LendsKeeps DEF IInv

(* A new page is numbered from its own slots; only the slots below used,   *)
(* which are out of its free part, are not on offer.  It is opened behind  *)
(* pages that are full, hence have memory.                                 *)
LEMMA BorrowNewPageKeeps ==
  ASSUME IInv, NEW o \in Owner, NEW pg \in Page,
         StopsAt(pg[1], pg), BorrowNewPage(o, pg)
  PROVE  IInv'
<1>1. ~mem[pg] /\ Lends(o, pg, used[pg])
  BY BorrowNewPageLends
<1>2. \A p \in Pointer : canuse'[p] = IF p[1] = pg THEN p[2] ELSE canuse[p]
  BY DEF BorrowNewPage
<1>3. TypeOK'
  <2>1. \A p \in Pointer : p[2] \in Nat /\ p[2] \in Slots(p[1])
    BY PointerFacts, PageFacts
  <2>2. canuse' \in [Pointer -> Nat]
    BY <2>1 DEF BorrowNewPage, IInv, TypeOK
  <2>3. \A p \in Pointer : canuse'[p] \in Slots(p[1])
    BY <1>2, <2>1 DEF IInv, TypeOK
  <2>4. QED
    BY <1>1, <2>2, <2>3, LendsKeeps DEF IInv, TypeOK, Lends
<1>4. FreeSlotsSound'
  <2>1. TypeOK /\ used[pg] \in Nat
    BY DEF IInv, TypeOK
  <2>2. \A q \in Page : used'[q] = IF q = pg THEN used[pg] + 1 ELSE used[q]
    BY <1>1, <2>1 DEF Lends, TypeOK
  <2>3. \A j \in Slots(pg) : canuse'[<<pg, j>>] = j
    BY <1>2, SlotIsPointer
  <2>4. \A q \in Page : \A j \in Slots(q) : q # pg => canuse'[<<q, j>>] = canuse[<<q, j>>]
    BY <1>2, SlotIsPointer
  <2>5. ASSUME NEW q \in Page, mem'[q], q # pg
        PROVE  mem[q] /\ used'[q] = used[q]
    BY <1>1, <2>2, <2>5 DEF Lends, IInv, TypeOK
  <2>6. ASSUME NEW q \in Page, mem'[q],
               NEW j \in Slots(q), NEW k \in Slots(q), used'[q] <= j, used'[q] <= k,
               canuse'[<<q, j>>] = canuse'[<<q, k>>]
        PROVE  j = k
    <3>1. CASE q = pg
      BY <2>3, <2>6, <3>1
    <3>2. CASE q # pg
      BY <2>4, <2>5, <2>6, <3>2 DEF IInv, FreeSlotsSound
    <3>3. QED
      BY <3>1, <3>2
  <2>7. ASSUME NEW q \in Page, mem'[q], NEW j \in Slots(q), used'[q] <= j
        PROVE  <<q, canuse'[<<q, j>>]>> \notin lent'
    <3>1. CASE q = pg
      <4>1. j # used[pg] /\ canuse'[<<pg, j>>] = j
        BY <2>1, <2>2, <2>3, <2>7, <3>1, PageFacts
      <4>2. <<pg, j>> \notin lent
        <5>1. <<pg, j>>[1] = pg
          BY <3>1, SlotIsPointer
        <5>2. QED
          BY <1>1, <5>1 DEF IInv, NoAlias
      <4>3. QED
        BY <1>1, <3>1, <4>1, <4>2 DEF Lends
    <3>2. CASE q # pg
      <4>1. <<q, canuse[<<q, j>>]>> \notin lent
        BY <2>5, <2>7, <3>2 DEF IInv, FreeSlotsSound
      <4>2. QED
        BY <1>1, <2>4, <3>2, <4>1 DEF Lends
    <3>3. QED
      BY <3>1, <3>2
  <2>8. QED
    BY <2>6, <2>7 DEF FreeSlotsSound
<1>5. PagesContiguous'
  <2>1. \A q \in Page : q[1] = pg[1] /\ q[2] < pg[2] => mem[q]
    BY DEF StopsAt, IsFull
  <2>2. \A q \in Page : mem'[q] <=> mem[q] \/ q = pg
    BY <1>1 DEF Lends, IInv, TypeOK
  <2>3. QED
    BY <2>1, <2>2 DEF IInv, PagesContiguous
<1>6. QED
  BY <1>1, <1>3, <1>4, <1>5, LendsKeeps DEF IInv

(***************************************************************************)
(* wa_revert                                                               *)
(***************************************************************************)

(* The header leads a pool pointer back to its own page: no other bulk has *)
(* its mask, and no large block has a bulk's mask (mem.c:119-121,137).     *)
LEMMA MaskFacts ==
  ASSUME NEW p \in Pointer \union LargeBlock, NEW b \in Bulk
  PROVE  /\ HeaderMask(p) = Mask(b) => p \in Pointer /\ p[1][1] = b
         /\ HeaderMask(p) = LARGE_MAGIC => p \in LargeBlock
<1>1. CASE p \in LargeBlock
  BY <1>1, BulkAssumption DEF HeaderMask
<1>2. CASE p \notin LargeBlock
  <2>1. p \in Pointer /\ p[1][1] \in Bulk /\ HeaderMask(p) = Mask(p[1][1])
    BY <1>2, PointerFacts, PageFacts DEF HeaderMask
  <2>2. QED
    BY <1>2, <2>1, BulkAssumption
<1>3. QED
  BY <1>1, <1>2

(* Reverting takes a lent slot back, on the page it was lent from, and     *)
(* puts it on top of that page's free stack (mem.c:121-123).               *)
Returns(o, pg, i) ==
  /\ pg \in Page /\ i \in Slots(pg)
  /\ owner[o] = <<pg, i>>
  /\ <<pg, i>> \in lent
  /\ lent' = lent \ {<<pg, i>>}
  /\ used[pg] - 1 \in Nat
  /\ used' = [used EXCEPT ![pg] = used[pg] - 1]
  /\ canuse' = [canuse EXCEPT ![<<pg, used[pg] - 1>>] = i]
  /\ Hold(o, NULL)
  /\ UNCHANGED <<mem, large, large_used>>

(* The header of a lent slot leads wa_revert to the slot's own page and    *)
(* index, and the counter does not wrap (mem.c:119-128).                   *)
LEMMA RevertSmallReturns ==
  ASSUME IInv, NEW o \in Owner, NEW b \in Bulk, RevertSmall(o, b)
  PROVE  Returns(o, owner[o][1], owner[o][2])
<1> DEFINE p == owner[o]
<1> DEFINE pg == p[1]
<1> DEFINE i == p[2]
<1>1. p \in Pointer /\ pg[1] = b
  BY MaskFacts DEF RevertSmall
<1>2. pg \in Page /\ i \in Slots(pg) /\ p = <<pg, i>> /\ <<b, pg[2]>> = pg
  BY <1>1, PointerFacts, PageFacts
<1>3. p \in lent
  BY <1>1, PointerAssumption DEF IInv, NoAlias, TypeOK
<1>4. Cardinality(LentOn(pg)) \in Nat \ {0}
  <2>1. IsFiniteSet(LentOn(pg))
    BY <1>2, LentFinite
  <2>2. i \in LentOn(pg)
    BY <1>2, <1>3 DEF LentOn
  <2>3. QED
    BY <2>1, <2>2, FS_CardinalityType, FS_EmptySet
<1>5. used[pg] \in Nat /\ used[pg] <= 255 /\ used[pg] - 1 \in Nat
  <2>1. used[pg] \in Nat /\ used[pg] <= SlotCount(pg) /\ Cardinality(LentOn(pg)) <= used[pg]
    BY <1>2 DEF IInv, TypeOK, CountsCover
  <2>2. SlotCount(pg) \in Nat /\ SlotCount(pg) <= 255
    BY <1>2, PageFacts
  <2>3. QED
    BY <1>4, <2>1, <2>2
<1>6. Byte(used[pg] - 1) = used[pg] - 1
  BY <1>5, ByteFacts
<1>7. QED
  BY <1>2, <1>3, <1>5, <1>6 DEF RevertSmall, Returns

(* The returned slot was lent, so it was not on the free stack already.    *)
LEMMA ReturnsKeeps ==
  ASSUME IInv, NEW o \in Owner, NEW pg, NEW i, Returns(o, pg, i)
  PROVE  IInv'
<1> USE DEF Returns
<1>1. TypeOK /\ pg \in Page /\ used[pg] \in Nat /\ used[pg] - 1 \in Nat
  BY DEF IInv, TypeOK
<1>2. \A q \in Page : used'[q] = IF q = pg THEN used[pg] - 1 ELSE used[q]
  BY <1>1 DEF TypeOK
<1>3. used[pg] - 1 \in Slots(pg)
  <2>1. used[pg] <= SlotCount(pg) /\ SlotCount(pg) \in Nat
    BY PageFacts DEF IInv, TypeOK
  <2>2. used[pg] - 1 < SlotCount(pg)
    BY <1>1, <2>1
  <2>3. QED
    BY <1>1, <2>2, PageFacts
<1>4. <<pg, used[pg] - 1>> \in Pointer
  BY <1>3, SlotIsPointer
<1>5. \A p \in Pointer : canuse'[p] = IF p = <<pg, used[pg] - 1>> THEN i ELSE canuse[p]
  BY DEF IInv, TypeOK
<1>6. \A q \in Page : used'[q] \in Nat /\ used'[q] <= used[q] /\ used'[q] <= SlotCount(q)
  BY <1>1, <1>2, PageFacts DEF IInv, TypeOK
<1>7. TypeOK'
  <2>1. i \in Nat
    BY PageFacts
  <2>2. canuse' \in [Pointer -> Nat]
    BY <2>1 DEF IInv, TypeOK
  <2>3. \A p \in Pointer : canuse'[p] \in Slots(p[1])
    BY <1>4, <1>5, <1>3, SlotIsPointer DEF IInv, TypeOK
  <2>4. used' \in [Page -> Nat]
    BY <1>1 DEF TypeOK
  <2>5. owner' \in [Owner -> Pointer \union LargeBlock \union {NULL}]
    BY DEF Hold, IInv, TypeOK
  <2>6. QED
    BY <1>6, <2>2, <2>3, <2>4, <2>5 DEF IInv, TypeOK
<1>8. FreeSlotsSound'
  <2>1. \A q \in Page : \A j \in Slots(q) :
          /\ <<q, j>> \in Pointer
          /\ canuse'[<<q, j>>] = IF q = pg /\ j = used[pg] - 1 THEN i ELSE canuse[<<q, j>>]
    <3>1. SUFFICES ASSUME NEW q \in Page, NEW j \in Slots(q)
                   PROVE  /\ <<q, j>> \in Pointer
                          /\ canuse'[<<q, j>>] = IF q = pg /\ j = used[pg] - 1
                                                 THEN i ELSE canuse[<<q, j>>]
      OBVIOUS
    <3>2. <<q, j>> \in Pointer
      BY SlotIsPointer
    <3>3. <<q, j>> = <<pg, used[pg] - 1>> <=> q = pg /\ j = used[pg] - 1
      OBVIOUS
    <3>4. QED
      BY <1>5, <3>2, <3>3
  <2>2. \A q \in Page : \A j \in Slots(q) :
          used'[q] <= j => used[q] <= j \/ (q = pg /\ j = used[pg] - 1)
    BY <1>1, <1>2, PageFacts DEF TypeOK
  <2>3. \A q \in Page : \A j \in Slots(q) :
          mem[q] /\ used[q] <= j => <<q, canuse[<<q, j>>]>> \notin lent
    BY DEF IInv, FreeSlotsSound
  <2>4. ~(used[pg] <= used[pg] - 1)
    BY <1>1
  <2>5. \A q \in Page : \A j \in Slots(q) :
          mem[q] /\ used[q] <= j => canuse'[<<q, j>>] = canuse[<<q, j>>] /\ (q = pg => canuse[<<q, j>>] # i)
    BY <2>1, <2>3, <2>4
  <2>6. ASSUME NEW q \in Page, mem[q],
               NEW j \in Slots(q), NEW k \in Slots(q), used'[q] <= j, used'[q] <= k,
               canuse'[<<q, j>>] = canuse'[<<q, k>>]
        PROVE  j = k
    <3>1. CASE used[q] <= j /\ used[q] <= k
      BY <2>5, <2>6, <3>1 DEF IInv, FreeSlotsSound
    <3>2. CASE ~(used[q] <= j /\ used[q] <= k)
      BY <2>1, <2>2, <2>5, <2>6, <3>2
    <3>3. QED
      BY <3>1, <3>2
  <2>7. ASSUME NEW q \in Page, mem[q], NEW j \in Slots(q), used'[q] <= j
        PROVE  <<q, canuse'[<<q, j>>]>> \notin lent'
    BY <2>1, <2>2, <2>3, <2>5, <2>7
  <2>8. QED
    BY <2>6, <2>7 DEF FreeSlotsSound
<1>9. CountsCover'
  <2>1. ASSUME NEW q \in Page
        PROVE  Cardinality(LentOn(q)') <= used'[q]
    <3>1. CASE q = pg
      <4>1. /\ Cardinality(LentOn(pg)) \in Nat
            /\ Cardinality(LentOn(pg)') = Cardinality(LentOn(pg)) - 1
        BY ReturnCount
      <4>2. Cardinality(LentOn(pg)) <= used[pg]
        BY DEF IInv, CountsCover
      <4>3. QED
        BY <1>1, <1>2, <3>1, <4>1, <4>2
    <3>2. CASE q # pg
      BY <1>2, <3>2, ReturnCount DEF IInv, CountsCover
    <3>3. QED
      BY <3>1, <3>2
  <2>2. QED
    BY <2>1 DEF IInv, CountsCover
<1>10. NoAlias'
  <2>1. \A q \in Owner : owner'[q] = IF q = o THEN NULL ELSE owner[q]
    BY DEF Hold, IInv, TypeOK
  <2>2. \A q \in Owner : q # o => owner[q] # <<pg, i>>
    BY PointerAssumption, SlotIsPointer DEF IInv, NoAlias
  <2>3. \A q, r \in Owner : owner'[q] = owner'[r] /\ owner'[q] # NULL => q = r
    BY <2>1 DEF IInv, NoAlias
  <2>4. \A q \in Owner : owner'[q] \in lent' \union large' \union {NULL}
    BY <2>1, <2>2 DEF IInv, NoAlias
  <2>5. \A p \in lent' : mem'[p[1]]
    BY DEF IInv, NoAlias
  <2>6. QED
    BY <2>3, <2>4, <2>5 DEF NoAlias
<1>11. PagesContiguous'
  BY DEF IInv, PagesContiguous
<1>12. \A q \in Page : ~mem'[q] => used'[q] < SlotCount(q)
  BY <1>1, <1>2, <1>6, PageFacts DEF IInv, TypeOK
<1>13. QED
  BY <1>7, <1>8, <1>9, <1>10, <1>11, <1>12 DEF IInv

(***************************************************************************)
(* Refused requests, large blocks and wa_finalize                          *)
(***************************************************************************)

(* A refused request, and a revert of NULL, only clear one variable.       *)
LEMMA ClearKeeps ==
  ASSUME IInv, NEW o \in Owner, Hold(o, NULL),
         UNCHANGED <<mem, canuse, used, lent, large, large_used>>
  PROVE  IInv'
<1>1. \A q \in Owner : owner'[q] = IF q = o THEN NULL ELSE owner[q]
  BY DEF Hold, IInv, TypeOK
<1>2. TypeOK'
  BY DEF Hold, IInv, TypeOK
<1>3. FreeSlotsSound' /\ CountsCover' /\ PagesContiguous'
  BY DEF IInv, FreeSlotsSound, CountsCover, LentOn, PagesContiguous
<1>4. NoAlias'
  BY <1>1 DEF IInv, NoAlias
<1>5. QED
  BY <1>2, <1>3, <1>4 DEF IInv

(* A large block comes from malloc and is counted, or is refused           *)
(* (mem.c:72-81).                                                          *)
LEMMA AllocLargeKeeps ==
  ASSUME IInv, NEW o \in Owner, NEW n, AllocLarge(o, n)
  PROVE  IInv'
<1>1. UNCHANGED <<mem, canuse, used, lent>>
  BY DEF AllocLarge, pools
<1>2. CASE Hold(o, NULL) /\ UNCHANGED larges
  BY <1>1, <1>2, ClearKeeps DEF larges
<1>3. ASSUME NEW p \in LargeBlock \ large, large' = large \union {p},
             large_used' = large_used + 1, Hold(o, p)
      PROVE  IInv'
  <2>1. p \notin lent /\ p # NULL
    BY PointerAssumption DEF IInv, TypeOK
  <2>2. \A q \in Owner : owner'[q] = IF q = o THEN p ELSE owner[q]
    BY <1>3 DEF Hold, IInv, TypeOK
  <2>3. TypeOK'
    BY <1>1, <1>3 DEF Hold, IInv, TypeOK
  <2>4. FreeSlotsSound' /\ PagesContiguous'
    BY <1>1 DEF IInv, FreeSlotsSound, PagesContiguous
  <2>5. CountsCover'
    <3>1. IsFiniteSet(large)
      BY PointerAssumption, FS_Subset DEF IInv, TypeOK
    <3>2. Cardinality(large') = Cardinality(large) + 1
      BY <1>3, <3>1, FS_AddElement
    <3>3. QED
      BY <1>1, <1>3, <3>2 DEF IInv, CountsCover, LentOn
  <2>6. NoAlias'
    <3>1. \A q \in Owner : owner[q] # p
      BY <1>3, <2>1 DEF IInv, NoAlias
    <3>2. \A q, r \in Owner : owner'[q] = owner'[r] /\ owner'[q] # NULL => q = r
      BY <2>2, <3>1 DEF IInv, NoAlias
    <3>3. \A q \in Owner : owner'[q] \in lent' \union large' \union {NULL}
      BY <1>1, <1>3, <2>2 DEF IInv, NoAlias
    <3>4. QED
      BY <1>1, <3>2, <3>3 DEF IInv, NoAlias
  <2>7. QED
    BY <1>1, <2>3, <2>4, <2>5, <2>6 DEF IInv
<1>4. QED
  BY <1>2, <1>3 DEF AllocLarge

(* A reverted large block was one of the blocks that are out (mem.c:137).  *)
LEMMA RevertLargeReturns ==
  ASSUME IInv, NEW o \in Owner, RevertLarge(o)
  PROVE  owner[o] \in large
<1>1. owner[o] \in LargeBlock
  <2>1. CASE owner[o] \in LargeBlock
    BY <2>1
  <2>2. CASE owner[o] \notin LargeBlock
    <3>1. owner[o] \in Pointer /\ Mask(owner[o][1][1]) = LARGE_MAGIC
      BY <2>2 DEF RevertLarge, HeaderMask
    <3>2. owner[o][1][1] \in Bulk
      BY <3>1, PointerFacts, PageFacts
    <3>3. QED
      BY <3>1, <3>2, BulkAssumption
  <2>3. QED
    BY <2>1, <2>2
<1>2. QED
  BY <1>1, PointerAssumption DEF IInv, NoAlias, TypeOK

(* A large block is given back once, and counted (mem.c:137-142).          *)
LEMMA RevertLargeKeeps ==
  ASSUME IInv, NEW o \in Owner, RevertLarge(o)
  PROVE  IInv'
<1>1. UNCHANGED <<mem, canuse, used, lent>>
  BY DEF RevertLarge, pools
<1>2. owner[o] \in large
  BY RevertLargeReturns
<1>3. \A q \in Owner : owner'[q] = IF q = o THEN NULL ELSE owner[q]
  BY DEF RevertLarge, Hold, IInv, TypeOK
<1>4. TypeOK'
  BY <1>1 DEF RevertLarge, Hold, IInv, TypeOK
<1>5. FreeSlotsSound' /\ PagesContiguous'
  BY <1>1 DEF IInv, FreeSlotsSound, PagesContiguous
<1>6. CountsCover'
  <2>1. IsFiniteSet(large)
    BY PointerAssumption, FS_Subset DEF IInv, TypeOK
  <2>2. Cardinality(large') = Cardinality(large) - 1
    BY <1>2, <2>1, FS_RemoveElement DEF RevertLarge
  <2>3. QED
    BY <1>1, <2>2 DEF RevertLarge, IInv, CountsCover, LentOn
<1>7. NoAlias'
  <2>1. \A q \in Owner : q # o => owner[q] # owner[o]
    BY <1>2, PointerAssumption DEF IInv, NoAlias, TypeOK
  <2>2. \A q \in Owner : owner'[q] \in lent' \union large' \union {NULL}
    BY <1>1, <1>3, <2>1 DEF RevertLarge, IInv, NoAlias
  <2>3. QED
    BY <1>1, <1>3, <2>2 DEF IInv, NoAlias
<1>8. QED
  BY <1>1, <1>4, <1>5, <1>6, <1>7 DEF IInv

(* wa_finalize leaves the counters as they are.  No page being full, every *)
(* page then has room for the slot that a new page lends (mem.c:146-159).  *)
LEMMA FinalizeKeeps ==
  ASSUME IInv, FinalizeWhen = "notfull", Finalize
  PROVE  IInv'
<1>1. \A pg \in Page : ~mem'[pg]
  BY DEF Finalize
<1>2. \A q \in Owner : owner'[q] = IF owner[q] \in lent THEN NULL ELSE owner[q]
  BY DEF Finalize
<1>3. TypeOK'
  BY DEF Finalize, IInv, TypeOK
<1>4. FreeSlotsSound' /\ PagesContiguous'
  BY <1>1 DEF FreeSlotsSound, PagesContiguous
<1>5. CountsCover'
  <2>1. ASSUME NEW pg \in Page
        PROVE  Cardinality(LentOn(pg)') <= used'[pg]
    <3>1. LentOn(pg)' = {}
      BY DEF Finalize, LentOn
    <3>2. used'[pg] \in Nat
      BY DEF Finalize, IInv, TypeOK
    <3>3. QED
      BY <3>1, <3>2, FS_EmptySet
  <2>2. QED
    BY <2>1 DEF Finalize, IInv, CountsCover
<1>6. NoAlias'
  BY <1>2 DEF Finalize, IInv, NoAlias
<1>7. \A pg \in Page : ~mem'[pg] => used'[pg] < SlotCount(pg)
  <2>1. SUFFICES ASSUME NEW pg \in Page
                 PROVE  used[pg] < SlotCount(pg)
    BY DEF Finalize
  <2>2. CASE mem[pg]
    <3>1. used[pg] \in Nat /\ used[pg] <= SlotCount(pg) /\ SlotCount(pg) \in Nat
      BY PageFacts DEF IInv, TypeOK
    <3>2. used[pg] # SlotCount(pg)
      BY <2>2 DEF Finalize, IsFull
    <3>3. QED
      BY <3>1, <3>2
  <2>3. CASE ~mem[pg]
    BY <2>3 DEF IInv
  <2>4. QED
    BY <2>2, <2>3
<1>8. QED
  BY <1>3, <1>4, <1>5, <1>6, <1>7 DEF IInv

(***************************************************************************)
(* The specification                                                       *)
(***************************************************************************)

(* The four ways a step can serve or refuse a request.                     *)
LEMMA AllocKeeps ==
  ASSUME IInv, NEW o \in Owner, NEW n \in Request, Alloc(o, n)
  PROVE  IInv'
<1>1. CASE AllocNothing(o, n) \/ AllocExhausted(o, n)
  BY <1>1, ClearKeeps DEF AllocNothing, AllocExhausted
<1>2. CASE AllocSmall(o, n)
  <2>1. PICK pg \in Page : StopsAt(pg[1], pg) /\ (BorrowSlot(o, pg) \/ BorrowNewPage(o, pg))
    BY <1>2 DEF AllocSmall
  <2>2. QED
    BY <2>1, BorrowSlotKeeps, BorrowNewPageKeeps
<1>3. CASE AllocLarge(o, n)
  BY <1>3, AllocLargeKeeps
<1>4. QED
  BY <1>1, <1>2, <1>3 DEF Alloc

(* The pool starts empty, with every counter at zero (mem.c:26-30).        *)
LEMMA InitIInv == Init => IInv
<1> SUFFICES ASSUME Init PROVE IInv
  OBVIOUS
<1> USE DEF Init
<1>1. TypeOK
  <2>1. \A pg \in Page : SlotCount(pg) \in Nat /\ 1 <= SlotCount(pg)
    BY PageFacts
  <2>2. \A p \in Pointer : 0 \in Slots(p[1])
    BY <2>1, PointerFacts, PageFacts
  <2>3. \A pg \in Page : used[pg] <= SlotCount(pg)
    BY <2>1
  <2>4. QED
    BY <2>2, <2>3 DEF TypeOK
<1>2. FreeSlotsSound /\ PagesContiguous
  BY DEF FreeSlotsSound, PagesContiguous
<1>3. CountsCover
  <2>1. \A pg \in Page : LentOn(pg) = {}
    BY DEF LentOn
  <2>2. QED
    BY <2>1, FS_EmptySet DEF CountsCover
<1>4. NoAlias
  BY DEF NoAlias
<1>5. \A pg \in Page : ~mem[pg] => used[pg] < SlotCount(pg)
  BY PageFacts
<1>6. QED
  BY <1>1, <1>2, <1>3, <1>4, <1>5 DEF IInv

(* Every call keeps the invariant, if wa_finalize leaves full pages alone. *)
LEMMA NextKeeps ==
  ASSUME IInv, FinalizeWhen = "notfull", [Next]_vars
  PROVE  IInv'
<1>1. CASE UNCHANGED vars
  BY <1>1 DEF vars, IInv, TypeOK, FreeSlotsSound, CountsCover, LentOn, NoAlias, PagesContiguous
<1>2. ASSUME NEW o \in Owner, NEW n \in Request, Alloc(o, n)
      PROVE  IInv'
  BY <1>2, AllocKeeps
<1>3. ASSUME NEW o \in Owner, Revert(o)
      PROVE  IInv'
  <2>1. CASE RevertNull(o)
    BY <1>1, <2>1 DEF RevertNull
  <2>2. CASE RevertLarge(o)
    BY <2>2, RevertLargeKeeps
  <2>3. ASSUME NEW b \in Bulk, RevertSmall(o, b)
        PROVE  IInv'
    BY <2>3, RevertSmallReturns, ReturnsKeeps
  <2>4. QED
    BY <1>3, <2>1, <2>2, <2>3 DEF Revert
<1>4. CASE Finalize
  BY <1>4, FinalizeKeeps
<1>5. QED
  BY <1>1, <1>2, <1>3, <1>4 DEF Next

(* The inductive invariant holds of every behaviour in which wa_finalize   *)
(* is not called while a page is full.                                     *)
THEOREM PoolInvariant ==
  ASSUME FinalizeWhen = "notfull"
  PROVE  Spec => []IInv
<1>1. Init => IInv
  BY InitIInv
<1>2. IInv /\ [Next]_vars => IInv'
  BY NextKeeps
<1>3. QED
  BY <1>1, <1>2, PTL DEF Spec

(* Every lookup of the pool stays inside its arrays.                       *)
THEOREM PoolTypeCorrect ==
  ASSUME FinalizeWhen = "notfull"
  PROVE  Spec => []TypeOK
<1>1. IInv => TypeOK
  BY DEF IInv
<1>2. QED
  BY <1>1, PoolInvariant, PTL

(* Two program variables never hold the same block, and none holds a block *)
(* of a freed page: the promise of wa_alloc (mem.c:32-62,101-117).         *)
THEOREM PoolNoAlias ==
  ASSUME FinalizeWhen = "notfull"
  PROVE  Spec => []NoAlias
<1>1. IInv => NoAlias
  BY DEF IInv
<1>2. QED
  BY <1>1, PoolInvariant, PTL

(* No sequence of reverts takes a page's counter below zero, and the count *)
(* of large blocks is exact (mem.c:78,122,140).                            *)
THEOREM PoolCountsCover ==
  ASSUME FinalizeWhen = "notfull"
  PROVE  Spec => []CountsCover
<1>1. IInv => CountsCover
  BY DEF IInv
<1>2. QED
  BY <1>1, PoolInvariant, PTL

(* A free slot is listed once and is nobody's; wa_memreport's early stop   *)
(* hides no page (mem.c:40,164).                                           *)
THEOREM PoolFreeSlots ==
  ASSUME FinalizeWhen = "notfull"
  PROVE  Spec => [](FreeSlotsSound /\ PagesContiguous)
<1>1. IInv => FreeSlotsSound /\ PagesContiguous
  BY DEF IInv
<1>2. QED
  BY <1>1, PoolInvariant, PTL

(***************************************************************************)
(* Steps: the counters follow the slots, and the abstract allocator        *)
(***************************************************************************)

(* Every step of the pool is one of these five, seen from outside.         *)
PoolStep(o) ==
  \/ \E pg \in Page : \E i \in Slots(pg) : Lends(o, pg, i)
  \/ \E pg \in Page : \E i \in Slots(pg) : Returns(o, pg, i)
  \/ /\ \/ \E p \in LargeBlock \ large : large' = large \union {p} /\ Hold(o, p)
        \/ owner[o] \in large /\ large' = large \ {owner[o]} /\ Hold(o, NULL)
        \/ large' = large /\ Hold(o, NULL)
     /\ UNCHANGED <<mem, used, lent>>

(* Every call lends a slot or a block, returns one, grants nothing, or     *)
(* frees the pages.                                                        *)
LEMMA NextIsPoolStep ==
  ASSUME IInv, Next
  PROVE  (\E o \in Owner : PoolStep(o)) \/ UNCHANGED vars \/ Finalize
<1>1. ASSUME NEW o \in Owner, NEW n \in Request, Alloc(o, n)
      PROVE  PoolStep(o)
  <2>1. CASE AllocNothing(o, n) \/ AllocExhausted(o, n)
    BY <2>1 DEF AllocNothing, AllocExhausted, PoolStep
  <2>2. CASE AllocLarge(o, n)
    BY <2>2 DEF AllocLarge, PoolStep, pools, larges
  <2>3. CASE AllocSmall(o, n)
    <3>1. PICK pg \in Page : BorrowSlot(o, pg) \/ BorrowNewPage(o, pg)
      BY <2>3 DEF AllocSmall
    <3>2. PICK i : Lends(o, pg, i)
      BY <3>1, BorrowSlotLends, BorrowNewPageLends
    <3>3. i \in Slots(pg)
      BY <3>2 DEF Lends
    <3>4. QED
      BY <3>2, <3>3 DEF PoolStep
  <2>4. QED
    BY <1>1, <2>1, <2>2, <2>3 DEF Alloc
<1>2. ASSUME NEW o \in Owner, Revert(o)
      PROVE  PoolStep(o) \/ UNCHANGED vars
  <2>1. CASE RevertNull(o)
    BY <2>1 DEF RevertNull
  <2>2. CASE RevertLarge(o)
    BY <2>2, RevertLargeReturns DEF RevertLarge, PoolStep, pools
  <2>3. ASSUME NEW b \in Bulk, RevertSmall(o, b)
        PROVE  PoolStep(o)
    <3>1. Returns(o, owner[o][1], owner[o][2])
      BY <2>3, RevertSmallReturns
    <3>2. owner[o][1] \in Page /\ owner[o][2] \in Slots(owner[o][1])
      BY <3>1 DEF Returns
    <3>3. QED
      BY <3>1, <3>2 DEF PoolStep
  <2>4. QED
    BY <1>2, <2>1, <2>2, <2>3 DEF Revert
<1>3. QED
  BY <1>1, <1>2 DEF Next

(* A page's counter moves with the slots lent on it (mem.c:41,57,122).     *)
THEOREM PoolCountFollowsLent ==
  ASSUME FinalizeWhen = "notfull"
  PROVE  Spec => CountFollowsLent
<1> DEFINE Follows ==
      \A pg \in Page :
        mem'[pg] \/ ~mem[pg] =>
          used'[pg] - used[pg] = Cardinality(LentOn(pg)') - Cardinality(LentOn(pg))
<1>1. ASSUME IInv, [Next]_vars
      PROVE  Follows
  <2>1. SUFFICES ASSUME NEW pg \in Page, mem'[pg] \/ ~mem[pg]
                 PROVE  used'[pg] - used[pg] =
                          Cardinality(LentOn(pg)') - Cardinality(LentOn(pg))
    OBVIOUS
  <2>2. used[pg] \in Nat /\ Cardinality(LentOn(pg)) \in Nat
    BY <1>1, LentFinite, FS_CardinalityType DEF IInv, TypeOK
  <2>3. CASE used' = used /\ LentOn(pg)' = LentOn(pg)
    BY <2>2, <2>3
  <2>4. CASE UNCHANGED vars
    BY <2>3, <2>4 DEF vars, LentOn
  <2>5. CASE Finalize
    <3>1. ~mem[pg]
      BY <2>1, <2>5 DEF Finalize
    <3>2. \A i \in Slots(pg) : <<pg, i>> \notin lent
      BY <1>1, <3>1, SlotIsPointer DEF IInv, NoAlias
    <3>3. LentOn(pg) = {} /\ LentOn(pg)' = {}
      BY <2>5, <3>2 DEF Finalize, LentOn
    <3>4. QED
      BY <2>3, <2>5, <3>3 DEF Finalize
  <2>6. ASSUME NEW o \in Owner, PoolStep(o)
        PROVE  used'[pg] - used[pg] = Cardinality(LentOn(pg)') - Cardinality(LentOn(pg))
    <3>1. ASSUME NEW q \in Page, NEW i \in Slots(q), Lends(o, q, i)
          PROVE  used'[pg] - used[pg] = Cardinality(LentOn(pg)') - Cardinality(LentOn(pg))
      <4>1. /\ Cardinality(LentOn(q)') = Cardinality(LentOn(q)) + 1
            /\ pg # q => LentOn(pg)' = LentOn(pg)
        BY <3>1, LendCount DEF Lends
      <4>2. used'[pg] = IF pg = q THEN used[pg] + 1 ELSE used[pg]
        BY <1>1, <3>1 DEF Lends, IInv, TypeOK
      <4>3. QED
        BY <2>2, <4>1, <4>2
    <3>2. ASSUME NEW q \in Page, NEW i \in Slots(q), Returns(o, q, i)
          PROVE  used'[pg] - used[pg] = Cardinality(LentOn(pg)') - Cardinality(LentOn(pg))
      <4>1. /\ Cardinality(LentOn(q)') = Cardinality(LentOn(q)) - 1
            /\ pg # q => LentOn(pg)' = LentOn(pg)
        BY <3>2, ReturnCount DEF Returns
      <4>2. used'[pg] = IF pg = q THEN used[pg] - 1 ELSE used[pg]
        BY <1>1, <3>2 DEF Returns, IInv, TypeOK
      <4>3. QED
        BY <2>2, <4>1, <4>2
    <3>3. CASE UNCHANGED <<mem, used, lent>>
      BY <2>3, <3>3 DEF LentOn
    <3>4. QED
      BY <2>6, <3>1, <3>2, <3>3 DEF PoolStep
  <2>7. QED
    BY <1>1, <2>4, <2>5, <2>6, NextIsPoolStep
<1>2. IInv /\ [Next]_vars => [Follows]_vars
  BY <1>1
<1>3. QED
  BY <1>2, PoolInvariant, PTL DEF Spec, CountFollowsLent

(* The pool implements the abstract allocator: whatever page a request     *)
(* ends on, the caller gets a block that nobody holds, and a revert gives  *)
(* back that block and no other (mem.c:32-62,119-144).                     *)
THEOREM PoolImplementsAllocator ==
  ASSUME FinalizeWhen = "notfull"
  PROVE  Spec => ImplementsAllocator
<1>1. Init => Promise!Init
  BY DEF Init, Promise!Init
<1>2. ASSUME IInv, [Next]_vars
      PROVE  [Promise!Next]_(Promise!vars)
  <2> USE <1>2
  <2>1. lent \subseteq Pointer /\ large \subseteq LargeBlock /\ Pointer \intersect LargeBlock = {}
    BY PointerAssumption DEF IInv, TypeOK
  <2>2. CASE UNCHANGED vars
    BY <2>2 DEF vars, Promise!vars
  <2>3. CASE Finalize
    <3>1. (lent \union large)' = (lent \union large) \ lent
      BY <2>1, <2>3 DEF Finalize
    <3>2. owner' = [o \in Owner |-> IF owner[o] \in lent THEN NULL ELSE owner[o]]
      BY <2>3 DEF Finalize
    <3>3. lent \in SUBSET (lent \union large)
      OBVIOUS
    <3>4. Promise!Discard
      BY <3>1, <3>2, <3>3 DEF Promise!Discard
    <3>5. QED
      BY <3>4 DEF Promise!Next
  <2>4. ASSUME NEW o \in Owner, PoolStep(o)
        PROVE  Promise!Lend(o) \/ Promise!Refuse(o) \/ Promise!GiveBack(o)
    <3>1. ASSUME NEW p \in (Pointer \union LargeBlock) \ (lent \union large),
                 (lent \union large)' = (lent \union large) \union {p}, Hold(o, p)
          PROVE  Promise!Lend(o)
      BY <3>1 DEF Hold, Promise!Lend
    <3>2. ASSUME owner[o] \in lent \union large,
                 (lent \union large)' = (lent \union large) \ {owner[o]}, Hold(o, NULL)
          PROVE  Promise!GiveBack(o)
      BY <2>1, <3>2, PointerAssumption DEF Hold, Promise!GiveBack
    <3>3. ASSUME NEW pg \in Page, NEW i \in Slots(pg), Lends(o, pg, i)
          PROVE  Promise!Lend(o)
      <4>1. <<pg, i>> \in (Pointer \union LargeBlock) \ (lent \union large)
        BY <2>1, <3>3, SlotIsPointer DEF Lends
      <4>2. (lent \union large)' = (lent \union large) \union {<<pg, i>>}
        BY <3>3 DEF Lends
      <4>3. QED
        BY <3>1, <3>3, <4>1, <4>2 DEF Lends
    <3>4. ASSUME NEW pg \in Page, NEW i \in Slots(pg), Returns(o, pg, i)
          PROVE  Promise!GiveBack(o)
      BY <2>1, <3>2, <3>4 DEF Returns
    <3>5. ASSUME NEW p \in LargeBlock \ large, large' = large \union {p}, lent' = lent, Hold(o, p)
          PROVE  Promise!Lend(o)
      BY <2>1, <3>1, <3>5
    <3>6. CASE owner[o] \in large /\ large' = large \ {owner[o]} /\ lent' = lent /\ Hold(o, NULL)
      BY <2>1, <3>2, <3>6
    <3>7. CASE large' = large /\ lent' = lent /\ Hold(o, NULL)
      BY <3>7 DEF Hold, Promise!Refuse
    <3>8. QED
      BY <2>4, <3>3, <3>4, <3>5, <3>6, <3>7 DEF PoolStep
  <2>5. QED
    BY <2>2, <2>3, <2>4, NextIsPoolStep DEF Promise!Next
<1>3. QED
  BY <1>1, <1>2, PoolInvariant, PTL DEF Spec, ImplementsAllocator, Promise!Spec

(* In pools of any size the pages with memory are the first ones, where    *)
(* wa_memreport looks for lent slots (mem.c:162-185).                      *)
THEOREM PoolPagesContiguous ==
  ASSUME FinalizeWhen = "notfull"
  PROVE  Spec => []PagesContiguous
<1>1. IInv => PagesContiguous
  BY DEF IInv
<1>2. QED
  BY <1>1, PoolInvariant, PTL
=============================================================================
