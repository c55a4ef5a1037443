------------------------------ MODULE Allocator ------------------------------
(***************************************************************************)
(* What walib.h promises the callers of wa_alloc and wa_revert: a pointer  *)
(* that was handed out belongs to one program variable until it is given   *)
(* back (or forgotten), and nothing else is handed out in its place.  How  *)
(* the pointers are found is left to lib/mem.c (module MemPool).           *)
(***************************************************************************)
CONSTANTS
  Owner,      \* the program variables that hold pointers
  Pointer,    \* every pointer that may be handed out
  NULL

VARIABLES
  lent,       \* the pointers handed out and not given back
  owner       \* what each program variable holds

vars == <<lent, owner>>

Init ==
  /\ lent = {}
  /\ owner = [o \in Owner |-> NULL]

(* A request is granted with a pointer that nobody holds. *)
Lend(o) ==
  \E p \in Pointer \ lent :
    /\ lent' = lent \union {p}
    /\ owner' = [owner EXCEPT ![o] = p]

(* A request is refused: the caller gets NULL. *)
Refuse(o) ==
  /\ owner' = [owner EXCEPT ![o] = NULL]
  /\ UNCHANGED lent

(* Exactly the caller's pointer is given back. *)
GiveBack(o) ==
  /\ owner[o] # NULL
  /\ lent' = lent \ {owner[o]}
  /\ owner' = [owner EXCEPT ![o] = NULL]

(* A set of pointers is discarded, and no variable keeps one of them. *)
Discard ==
  \E gone \in SUBSET lent :
    /\ lent' = lent \ gone
    /\ owner' = [o \in Owner |-> IF owner[o] \in gone THEN NULL ELSE owner[o]]

Next ==
  \/ \E o \in Owner : Lend(o) \/ Refuse(o) \/ GiveBack(o)
  \/ Discard

Spec == Init /\ [][Next]_vars
==============================================================================
