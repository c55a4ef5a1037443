----------------------------- MODULE MCEpheMem -----------------------------
(***************************************************************************)
(* A ring of three slots with the source's size limit.  The sizes lie on   *)
(* each side of every test: refused, smaller and larger than what a slot   *)
(* already has, and at the limit.  Four blocks leave malloc a choice.      *)
(***************************************************************************)
EXTENDS EpheMem, TLC

CONSTANTS b1, b2, b3, b4

MCBlock == {b1, b2, b3, b4}
MCRequest == {0, 1, 100, 65535, 65536}
MCFileSize == {99, 65534, 65535}

Symmetry == Permutations(MCBlock)
=============================================================================
