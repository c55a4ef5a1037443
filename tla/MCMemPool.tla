----------------------------- MODULE MCMemPool -----------------------------
(***************************************************************************)
(* Small pools with the source's slot sizes: two pages of two slots for    *)
(* size 24 and one page of two slots for size 184, so that pages fill up,  *)
(* a second page is opened, a pool is exhausted and pages are reused after *)
(* wa_finalize.                                                            *)
(***************************************************************************)
EXTENDS MemPool, TLC

CONSTANTS p1, p2, p3

MCBulk == {24, 184}
MCPageSlots == [b \in MCBulk |-> 2]
MCMaxPage == [b \in MCBulk |-> IF b = 24 THEN 2 ELSE 1]
MCOwner == {p1, p2, p3}

(* Each side of every boundary of wa_alloc_. *)
MCRequest == {0, 24, 25, 185}

Symmetry == Permutations(MCOwner)
=============================================================================
