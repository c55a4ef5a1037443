------------------------------ MODULE HttpCall ------------------------------
(***************************************************************************)
(* What a caller of wa_http may rely on, whatever the network does: a call *)
(* comes back once, with an error or with a number of bytes that leaves    *)
(* room for the terminating zero in the caller's buffer; and it does come  *)
(* back, unless the server never takes the request.                        *)
(***************************************************************************)
EXTENDS Integers

CONSTANT BufLen  \* the buffer lengths callers pass

VARIABLES
  phase,  \* "idle", or what a call does: "asking", "sending" or "waiting"
  len,    \* the buffer length it was given
  ret     \* what the last call returned

vars == <<phase, len, ret>>

Init ==
  /\ phase = "idle"
  /\ len \in BufLen
  /\ ret = -1

Call ==
  /\ phase = "idle"
  /\ phase' = "asking"
  /\ len' \in BufLen
  /\ UNCHANGED ret

Connected == phase = "asking" /\ phase' = "sending" /\ UNCHANGED <<len, ret>>

Sent == phase = "sending" /\ phase' = "waiting" /\ UNCHANGED <<len, ret>>

Return ==
  /\ phase \in {"asking", "waiting"}
  /\ phase' = "idle"
  /\ ret' \in -2 .. len - 1
  /\ UNCHANGED len

Next == Call \/ Connected \/ Sent \/ Return

(* Sent may never happen. *)
Spec == Init /\ [][Next]_vars /\ WF_vars(Connected \/ Return)
=============================================================================
