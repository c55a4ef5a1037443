------------------------------- MODULE MemPool -------------------------------
(***************************************************************************)
(* The memory pool of lib/mem.c: for each bulk size b a row of pages of    *)
(* equal slots (DECLARE_FIX_MEM_FUNC), and malloc for what is larger.      *)
(*                                                                         *)
(* A page keeps its free slots in an array used as a stack: canuse[i] for  *)
(* i >= used are the free slots, canuse[used] is the next to be lent.  A   *)
(* slot's header names its size class (m), its page (s) and its index (i), *)
(* which is all that wa_revert has to find its way back.                   *)
(*                                                                         *)
(* The program is single-threaded: a call is one step.  Any order of calls *)
(* by any number of program variables is a behaviour.                      *)
(***************************************************************************)
EXTENDS Integers, FiniteSets

CONSTANTS
  Bulk,          \* the slot sizes that have a pool: {24, 184}
  PageSlots,     \* PageSlots[b]: slots of a page (the macro's P)
  MaxPage,       \* MaxPage[b]: pages of a pool (the macro's M)
  LargeBlock,    \* the blocks malloc may return for a large request
  Owner,         \* the program variables that hold pointers
  Request,       \* the sizes the program asks for
  FinalizeWhen,  \* when it calls wa_finalize: "notfull" or "any"
  NULL

(* The mask a slot carries in its header: the macro stores B/4 in a byte. *)
Mask(b) == (b \div 4) % 256

LARGE_MAGIC == 1

ASSUME BulkAssumption ==
  /\ Bulk \subseteq Nat
  /\ \A b, c \in Bulk : Mask(b) = Mask(c) => b = c
  /\ \A b \in Bulk : Mask(b) # LARGE_MAGIC

(* The slot and page numbers and the counter used[] are bytes. *)
ASSUME SizeAssumption ==
  /\ PageSlots \in [Bulk -> 1 .. 255]
  /\ MaxPage \in [Bulk -> 1 .. 256]

ASSUME RequestAssumption == Request \subseteq Int

ASSUME PolicyAssumption == FinalizeWhen \in {"notfull", "any"}

Page == {pg \in Bulk \X (0 .. 255) : pg[2] < MaxPage[pg[1]]}
SlotCount(pg) == PageSlots[pg[1]]
Slots(pg) == 0 .. SlotCount(pg) - 1

(* A pointer into the pool, by its page and its slot's index. *)
Pointer == {p \in Page \X (0 .. 255) : p[2] \in Slots(p[1])}

ASSUME PointerAssumption ==
  /\ NULL \notin Pointer \union LargeBlock
  /\ Pointer \intersect LargeBlock = {}
  /\ IsFiniteSet(LargeBlock)

VARIABLES
  mem,         \* mem[pg]: the page has memory (sv_m##B##mem[s] != NULL)
  canuse,      \* canuse[<<pg, i>>]: the page's array of slot numbers
  used,        \* used[pg]: how many slots of the page are counted as lent
  lent,        \* the pool pointers handed out and not reverted
  large,       \* the large blocks handed out and not reverted
  large_used,  \* the code's count of them
  owner        \* what each program variable holds

pools == <<mem, canuse, used, lent>>
larges == <<large, large_used>>
vars == <<mem, canuse, used, lent, large, large_used, owner>>

Byte(x) == x % 256

Init ==
  /\ mem = [pg \in Page |-> FALSE]
  /\ canuse = [p \in Pointer |-> 0]
  /\ used = [pg \in Page |-> 0]
  /\ lent = {}
  /\ large = {}
  /\ large_used = 0
  /\ owner = [o \in Owner |-> NULL]

(***************************************************************************)
(* wa_alloc                                                                *)
(***************************************************************************)

(* The three conditions of a page, as sf_borrow tests them. *)
HasRoom(pg) == mem[pg] /\ used[pg] < SlotCount(pg)
IsFull(pg) == mem[pg] /\ used[pg] = SlotCount(pg)
IsOther(pg) == ~HasRoom(pg) /\ ~IsFull(pg)

(* Mutation of StopsAt: the pages are searched from the last one.          *)
StopsAtLast(b, pg) ==
  /\ pg[1] = b
  /\ ~IsFull(pg)
  /\ \A q \in Page : q[1] = b /\ q[2] > pg[2] => IsFull(q)

(* The page the loop stops at: the first of b's pages that is not full. *)
StopsAt(b, pg) ==
  /\ pg[1] = b
  /\ ~IsFull(pg)
  /\ \A q \in Page : q[1] = b /\ q[2] < pg[2] => IsFull(q)

Exhausted(b) == \A pg \in Page : pg[1] = b => IsFull(pg)

(* The pool that serves a request of n bytes: the smallest bulk that fits. *)
Serves(b, n) == n <= b /\ \A c \in Bulk : n <= c => b <= c

Hold(o, p) == owner' = [owner EXCEPT ![o] = p]

(* n <= 0 is refused before any pool is looked at. *)
AllocNothing(o, n) ==
  /\ n <= 0
  /\ Hold(o, NULL)
  /\ UNCHANGED <<mem, canuse, used, lent, large, large_used>>

(* Every page of the pool is full: NULL, and no other pool is tried. *)
AllocExhausted(o, n) ==
  /\ n > 0
  /\ \E b \in Bulk : Serves(b, n) /\ Exhausted(b)
  /\ Hold(o, NULL)
  /\ UNCHANGED <<mem, canuse, used, lent, large, large_used>>

(* Mutation of BorrowSlot: the counter is not advanced.                    *)
BorrowSlotUncounted(o, pg) ==
  /\ HasRoom(pg)
  /\ LET p == <<pg, canuse[<<pg, used[pg]>>]>> IN
       /\ lent' = lent \union {p}
       /\ Hold(o, p)
  /\ UNCHANGED <<mem, canuse, used, large, large_used>>

(* Condition 1: the page has memory and a free slot. *)
BorrowSlot(o, pg) ==
  /\ HasRoom(pg)
  /\ LET p == <<pg, canuse[<<pg, used[pg]>>]>> IN
       /\ lent' = lent \union {p}
       /\ Hold(o, p)
  /\ used' = [used EXCEPT ![pg] = Byte(@ + 1)]
  /\ UNCHANGED <<mem, canuse, large, large_used>>

(* Mutation of BorrowNewPage: the slots of a new page are numbered from 1. *)
BorrowNewPageFromOne(o, pg) ==
  /\ IsOther(pg)
  /\ mem' = [mem EXCEPT ![pg] = TRUE]
  /\ canuse' = [p \in Pointer |-> IF p[1] = pg THEN p[2] + 1 ELSE canuse[p]]
  /\ LET p == <<pg, used[pg]>> IN
       /\ lent' = lent \union {p}
       /\ Hold(o, p)
  /\ used' = [used EXCEPT ![pg] = Byte(@ + 1)]
  /\ UNCHANGED <<large, large_used>>

(* Otherwise: a new page, whose slot number used[pg] is lent. *)
BorrowNewPage(o, pg) ==
  /\ IsOther(pg)
  /\ mem' = [mem EXCEPT ![pg] = TRUE]
  /\ canuse' = [p \in Pointer |-> IF p[1] = pg THEN p[2] ELSE canuse[p]]
  /\ LET p == <<pg, used[pg]>> IN
       /\ lent' = lent \union {p}
       /\ Hold(o, p)
  /\ used' = [used EXCEPT ![pg] = Byte(@ + 1)]
  /\ UNCHANGED <<large, large_used>>

AllocSmall(o, n) ==
  /\ n > 0
  /\ \E pg \in Page :
       /\ Serves(pg[1], n)
       /\ StopsAt(pg[1], pg)
       /\ BorrowSlot(o, pg) \/ BorrowNewPage(o, pg)

(* sf_borrow_large; malloc may fail. *)
AllocLarge(o, n) ==
  /\ n > 0 /\ \A b \in Bulk : n > b
  /\ \/ \E p \in LargeBlock \ large :
          /\ large' = large \union {p}
          /\ large_used' = large_used + 1
          /\ Hold(o, p)
     \/ Hold(o, NULL) /\ UNCHANGED larges
  /\ UNCHANGED pools

Alloc(o, n) ==
  AllocNothing(o, n) \/ AllocExhausted(o, n) \/ AllocSmall(o, n) \/ AllocLarge(o, n)

(***************************************************************************)
(* wa_revert, through its macro, which also clears the caller's variable.  *)
(* A caller reverts what it got from wa_alloc, or NULL.                    *)
(***************************************************************************)

(* The mask byte in front of the block that p points to. *)
HeaderMask(p) == IF p \in LargeBlock THEN LARGE_MAGIC ELSE Mask(p[1][1])

RevertNull(o) ==
  /\ owner[o] = NULL
  /\ UNCHANGED vars

(* Mutations of RevertSmall: the slot is stored before the counter moves;  *)
RevertThenCount(o, b) ==
  /\ owner[o] \in Pointer \union LargeBlock
  /\ HeaderMask(owner[o]) = Mask(b)
  /\ LET pg == <<b, owner[o][1][2]>>
         i == owner[o][2]
     IN /\ used' = [used EXCEPT ![pg] = Byte(@ - 1)]
        /\ canuse' = [canuse EXCEPT ![<<pg, used[pg]>>] = i]
  /\ lent' = lent \ {owner[o]}
  /\ Hold(o, NULL)
  /\ UNCHANGED <<mem, large, large_used>>

(* the counter is moved twice;                                             *)
RevertTwice(o, b) ==
  /\ owner[o] \in Pointer \union LargeBlock
  /\ HeaderMask(owner[o]) = Mask(b)
  /\ LET pg == <<b, owner[o][1][2]>>
         i == owner[o][2]
     IN /\ used' = [used EXCEPT ![pg] = Byte(@ - 2)]
        /\ canuse' = [canuse EXCEPT ![<<pg, Byte(used[pg] - 2)>>] = i]
  /\ lent' = lent \ {owner[o]}
  /\ Hold(o, NULL)
  /\ UNCHANGED <<mem, large, large_used>>

(* the slot's page is ignored;                                             *)
RevertToFirstPage(o, b) ==
  /\ owner[o] \in Pointer \union LargeBlock
  /\ HeaderMask(owner[o]) = Mask(b)
  /\ LET pg == <<b, 0>>
         i == owner[o][2]
     IN /\ used' = [used EXCEPT ![pg] = Byte(@ - 1)]
        /\ canuse' = [canuse EXCEPT ![<<pg, Byte(used[pg] - 1)>>] = i]
  /\ lent' = lent \ {owner[o]}
  /\ Hold(o, NULL)
  /\ UNCHANGED <<mem, large, large_used>>

(* the function is called without its macro.                               *)
RevertKeepsPointer(o, b) ==
  /\ owner[o] \in Pointer \union LargeBlock
  /\ HeaderMask(owner[o]) = Mask(b)
  /\ LET pg == <<b, owner[o][1][2]>>
         i == owner[o][2]
     IN /\ used' = [used EXCEPT ![pg] = Byte(@ - 1)]
        /\ canuse' = [canuse EXCEPT ![<<pg, Byte(used[pg] - 1)>>] = i]
  /\ lent' = lent \ {owner[o]}
  /\ UNCHANGED <<mem, large, large_used, owner>>

(* The branch of bulk b: the header's s and i are taken as b's. *)
RevertSmall(o, b) ==
  /\ owner[o] \in Pointer \union LargeBlock
  /\ HeaderMask(owner[o]) = Mask(b)
  /\ LET pg == <<b, owner[o][1][2]>>
         i == owner[o][2]
     IN /\ used' = [used EXCEPT ![pg] = Byte(@ - 1)]
        /\ canuse' = [canuse EXCEPT ![<<pg, Byte(used[pg] - 1)>>] = i]
  /\ lent' = lent \ {owner[o]}
  /\ Hold(o, NULL)
  /\ UNCHANGED <<mem, large, large_used>>

RevertLarge(o) ==
  /\ owner[o] \in Pointer \union LargeBlock
  /\ HeaderMask(owner[o]) = LARGE_MAGIC
  /\ large' = large \ {owner[o]}
  /\ large_used' = large_used - 1
  /\ Hold(o, NULL)
  /\ UNCHANGED pools

Revert(o) ==
  RevertNull(o) \/ RevertLarge(o) \/ \E b \in Bulk : RevertSmall(o, b)

(***************************************************************************)
(* wa_finalize frees the pages and forgets them; used and canuse, and the  *)
(* large blocks, are left as they are.  The program does not touch a       *)
(* pointer into a freed page again.                                        *)
(***************************************************************************)
Finalize ==
  /\ FinalizeWhen = "notfull" => \A pg \in Page : ~IsFull(pg)
  /\ mem' = [pg \in Page |-> FALSE]
  /\ lent' = {}
  /\ owner' = [o \in Owner |-> IF owner[o] \in lent THEN NULL ELSE owner[o]]
  /\ UNCHANGED <<canuse, used, large, large_used>>

Next ==
  \/ \E o \in Owner, n \in Request : Alloc(o, n)
  \/ \E o \in Owner : Revert(o)
  \/ Finalize

Spec == Init /\ [][Next]_vars

(***************************************************************************)
(* Properties                                                              *)
(***************************************************************************)

LentOn(pg) == {i \in Slots(pg) : <<pg, i>> \in lent}

(* Every index that lookups use stays inside its array: slot numbers name  *)
(* slots of their page, counters stay within the page, and what is handed  *)
(* out is a slot of a page that has memory (mem.c:40,56,123).              *)
TypeOK ==
  /\ mem \in [Page -> BOOLEAN]
  /\ canuse \in [Pointer -> Nat]
  /\ \A p \in Pointer : canuse[p] \in Slots(p[1])
  /\ used \in [Page -> Nat]
  /\ \A pg \in Page : used[pg] <= SlotCount(pg)
  /\ lent \subseteq Pointer
  /\ large \subseteq LargeBlock
  /\ large_used \in Int
  /\ owner \in [Owner -> Pointer \union LargeBlock \union {NULL}]

(* The free part of a page's array never lists a slot twice, and never one *)
(* that is lent; so the next borrower cannot be given somebody's slot, in  *)
(* whatever order the slots were given back (mem.c:40 against mem.c:123).  *)
FreeSlotsSound ==
  \A pg \in Page : mem[pg] =>
    /\ \A i, j \in Slots(pg) :
         /\ used[pg] <= i /\ used[pg] <= j
         /\ canuse[<<pg, i>>] = canuse[<<pg, j>>]
         => i = j
    /\ \A i \in Slots(pg) :
         used[pg] <= i => <<pg, canuse[<<pg, i>>]>> \notin lent

(* A page's counter is never below the slots that are out, so that giving  *)
(* them all back never takes it below zero, a byte that wraps (mem.c:122); *)
(* the count of large blocks is exact, whatever mallocs failed and however *)
(* often the pool was finalized (mem.c:78,140).                            *)
CountsCover ==
  /\ \A pg \in Page : Cardinality(LentOn(pg)) <= used[pg]
  /\ large_used = Cardinality(large)

(* Two program variables never hold the same block, and what a variable    *)
(* holds is really out and lies in a page that has not been freed.         *)
NoAlias ==
  /\ \A o, q \in Owner : owner[o] = owner[q] /\ owner[o] # NULL => o = q
  /\ \A o \in Owner : owner[o] \in lent \union large \union {NULL}
  /\ \A p \in lent : mem[p[1]]

(* The pages of a pool that have memory are its first ones: wa_memreport   *)
(* stops at the first page without memory (mem.c:164) and would otherwise  *)
(* leave lent slots out of its total.                                      *)
PagesContiguous ==
  \A pg, q \in Page :
    mem[pg] /\ q[1] = pg[1] /\ q[2] < pg[2] => mem[q]

(* The inductive invariant: beside the above, a page without memory has    *)
(* room left, so that the slot a new page lends is one of its own.         *)
IInv ==
  /\ TypeOK
  /\ FreeSlotsSound
  /\ CountsCover
  /\ NoAlias
  /\ PagesContiguous
  /\ \A pg \in Page : ~mem[pg] => used[pg] < SlotCount(pg)

(* A step moves a page's counter by as much as the slots lent on it, so    *)
(* that a page is full only because its slots are out; only freeing a page *)
(* strands slots (mem.c:146-152 leaves used as it was).                    *)
CountFollowsLent ==
  [][\A pg \in Page :
       mem'[pg] \/ ~mem[pg] =>
         used'[pg] - used[pg] = Cardinality(LentOn(pg)') - Cardinality(LentOn(pg))]_vars

(* The pool keeps the promise of wa_alloc and wa_revert to their callers.  *)
Promise ==
  INSTANCE Allocator WITH Pointer <- Pointer \union LargeBlock,
                          lent <- lent \union large
ImplementsAllocator == Promise!Spec

(* What the comments of sf_borrow say of a page: it has memory and a free  *)
(* slot, or it has memory and is full, or it is NULL (mem.c:35,37,43,46).  *)
ThreeConditions == \A pg \in Page : HasRoom(pg) \/ IsFull(pg) \/ ~mem[pg]
=============================================================================
