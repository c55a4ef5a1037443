---------------------------- MODULE MCHttpClient ----------------------------
(***************************************************************************)
(* Replies of up to seven bytes and buffers that are too short, exact and  *)
(* ample for them; pieces of one to three bytes, so that the head, a       *)
(* number, the body's end and the buffer's end fall inside and between     *)
(* pieces.  A length is read after one byte, or after two as one of two    *)
(* digits is.                                                              *)
(***************************************************************************)
EXTENDS HttpClient

MCBufLen == {1, 3, 4, 5, 8}

Nowhere == [ends |-> 0, number |-> <<>>]
At(ends, number) == [ends |-> ends, number |-> number]
Named1(n) == At(1, <<n>>)   \* in the head

MCReply ==
  { [head |-> 2, body |-> 0, upper |-> Named1(0), lower |-> Nowhere],  \* no body
    [head |-> 2, body |-> 2, upper |-> Named1(2), lower |-> Nowhere],  \* a right length
    [head |-> 2, body |-> 2, upper |-> Nowhere, lower |-> Named1(2)],  \* in small letters
    [head |-> 2, body |-> 2, upper |-> Nowhere, lower |-> Nowhere],    \* none
    [head |-> 2, body |-> 3, upper |-> At(4, <<1>>), lower |-> Nowhere],  \* in the body only
    [head |-> 2, body |-> 2, upper |-> Named1(2), lower |-> At(3, <<1>>)], \* both, the first counts
    [head |-> 2, body |-> 4, upper |-> At(3, <<1, 9>>), lower |-> Named1(4)], \* the body's counts
    [head |-> 3, body |-> 3, upper |-> At(1, <<0, 3>>), lower |-> Nowhere],   \* two digits
    [head |-> 2, body |-> 1, upper |-> Named1(3), lower |-> Nowhere],  \* longer than the body
    [head |-> 2, body |-> 3, upper |-> Named1(1), lower |-> Named1(2)],  \* shorter than it
    [head |-> 2, body |-> 1, upper |-> Named1(-1), lower |-> Nowhere] }  \* negative
=============================================================================
