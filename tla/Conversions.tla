---------------------------- MODULE Conversions ----------------------------
(***************************************************************************)
(* The functions of lib that turn texts and dates into others, as programs *)
(* use them: the contexts of MD5 and SHA1 run over one text; utf8 and the  *)
(* encodings are given any text of some bytes; dates are counted day by    *)
(* day.  A program calls one of these, as they share no state.             *)
(***************************************************************************)
EXTENDS Md5Context, Sha1Context, Utf8, Encodings, Calendar

CONSTANTS
  Bytes,     \* the bytes of utf8 texts
  Codes,     \* the bytes of encoded texts
  TextSize   \* bound: the length of these texts

ASSUME ConversionsAssumption ==
  Bytes \subseteq 0 .. 255 /\ Codes \subseteq 0 .. 255 /\ TextSize \in Nat

VARIABLES
  program,  \* what is called: a digest, utf8, an encoding, or wa_datediff
  text      \* a text of utf8 or an encoding

vars == <<md5vars, sha1vars, datevars, text, program>>

Init ==
  /\ Md5Start /\ Sha1Start /\ DateStart
  /\ program \in {"md5", "sha1", "utf8", "code", "date"}
  /\ program # "date" => first = CHOOSE d \in FirstDays : TRUE
  /\ text = <<>>

CallMd5 == program = "md5" /\ Md5Next /\ UNCHANGED <<sha1vars, datevars, text, program>>
CallSha1 == program = "sha1" /\ Sha1Next /\ UNCHANGED <<md5vars, datevars, text, program>>

(* Texts that begin a sequence of five or six bytes may go on that far. *)
LongerText ==
  /\ \/ /\ program = "utf8"
        /\ \E b \in Bytes :
             /\ Len(text) < TextSize
                \/ (iscont(b) /\ Len(text) < 6 /\ Byte(text, 0) > 247)
             /\ text' = Append(text, b)
     \/ /\ program = "code" /\ \E b \in Codes : text' = Append(text, b)
        /\ Len(text) < TextSize
  /\ UNCHANGED <<md5vars, sha1vars, datevars, program>>

CallDate == program = "date" /\ NextDay /\ UNCHANGED <<md5vars, sha1vars, text, program>>

Next == CallMd5 \/ CallSha1 \/ LongerText \/ CallDate

Spec == Init /\ [][Next]_vars

(* utf8 decodes exactly the well-formed sequences, whatever bytes come.    *)
DecodesExactly == program = "utf8" => DecodesWell(text)

(* The functions that walk through a text agree on its characters, strict  *)
(* and lax.                                                                *)
Utf8Walk == program = "utf8" => \A lax \in BOOLEAN : WalksAgree(text, lax)

(* base64, base16 and the C arrays keep a text, in the room they have.     *)
EncodingsInvert == program = "code" => Inverts(text)
=============================================================================
