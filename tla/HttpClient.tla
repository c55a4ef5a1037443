----------------------------- MODULE HttpClient -----------------------------
(***************************************************************************)
(* The HTTP client of lib/tcpclient.c (wa_opentcp, httpreq, wa_http), with *)
(* the report that px.http_get and px.http_post make of its result         *)
(* (lib/extlua.c, _http_do), against a server on a TCP connection.         *)
(*                                                                         *)
(* A reply is a head of some bytes, then a body.  Bytes are counted, not   *)
(* represented, but for two words that matter wherever they stand, the     *)
(* first "Content-Length:" and the first "content-length:" of the reply.   *)
(* The wire holds the first `sent' bytes of the reply, of which the client *)
(* has taken `got' and keeps `curLen' in its buffer.                       *)
(***************************************************************************)
EXTENDS Integers, Sequences

CONSTANTS
  BufLen,    \* the buffer lengths callers pass
  Reply,     \* the replies a server may make: bytes of head and body, and the
             \* places of the two words
  TmpSize    \* the most bytes one recv takes: sizeof(tmpBuf)-1

(* Where a word stands: `ends' bytes of the reply hold all of it (0 if the *)
(* reply has no such word), and atoi reads number[k] behind it when k more *)
(* have come.  A word in the head has its number there.                    *)
Place == [ends : Nat, number : Seq(Int)]
InHead(r, place) == place.ends <= r.head

ASSUME HttpAssumption ==
  /\ BufLen \subseteq Nat \ {0}
  /\ Reply \subseteq [head : Nat \ {0}, body : Nat, upper : Place, lower : Place]
  /\ \A r \in Reply : \A place \in {r.upper, r.lower} :
       place.ends + Len(place.number) <= IF InHead(r, place) THEN r.head ELSE r.head + r.body
  /\ TmpSize \in Nat \ {0}

VARIABLES
  pc,          \* where the client is: idle, connect, send, select, recv, close
  fd,          \* the socket is open
  sendbuf,     \* the request buffer is allocated
  len,         \* the length of the caller's buffer
  curLen,      \* bytes of the reply in it
  headerEnd,   \* where the head ends, or -1
  contentLen,  \* the length that was read, or -1
  truncated,   \* the reply did not fit
  res,         \* what httpreq returned in the present call
  ret,         \* what wa_http returned last
  report,      \* what the Lua caller is told: none, error, short, split or raw
  reply,       \* the reply the server is to make
  asked,       \* the server has the whole request
  sent,        \* bytes the server has sent
  ended,       \* the server's end: open, fin (closed) or rst (reset)
  got          \* bytes the client has taken from the socket

client == <<pc, fd, sendbuf, len, curLen, headerEnd, contentLen, truncated, res, ret, report, got>>
server == <<reply, asked, sent, ended>>
vars == <<pc, fd, sendbuf, len, curLen, headerEnd, contentLen, truncated, res, ret, report,
          reply, asked, sent, ended, got>>
parse == <<headerEnd, contentLen>>

Init ==
  /\ pc = "idle"
  /\ fd = FALSE /\ sendbuf = FALSE
  /\ len \in BufLen
  /\ curLen = 0 /\ headerEnd = -1 /\ contentLen = -1 /\ truncated = FALSE
  /\ res = -1 /\ ret = -1 /\ report = "none"
  /\ reply \in Reply /\ asked = FALSE /\ sent = 0 /\ ended = "open" /\ got = 0

(***************************************************************************)
(* The server: it may answer in pieces of any size, stop at any point,     *)
(* close or reset.  It answers nothing before it has the whole request.    *)
(***************************************************************************)
Total == reply.head + reply.body

ServerSend ==
  /\ fd /\ asked /\ ended = "open"
  /\ \E n \in 1 .. Total - sent : sent' = sent + n
  /\ UNCHANGED <<client, reply, asked, ended>>

ServerEnd ==
  /\ fd /\ pc # "connect" /\ ended = "open"
  /\ ended' \in {"fin", "rst"}
  /\ UNCHANGED <<client, reply, asked, sent>>

(***************************************************************************)
(* wa_http: checks, connection, request                                    *)
(***************************************************************************)

(* _http_do: what the caller is told of result r. *)
Report(r) ==
  IF r >= 0 THEN IF curLen >= reply.head THEN "split" ELSE "raw"
  ELSE IF r = -1 THEN "error" ELSE "short"

(* A new call, with a fresh connection to come. *)
Call ==
  /\ pc = "idle"
  /\ pc' = "connect"
  /\ len' \in BufLen
  /\ reply' \in Reply
  /\ curLen' = 0 /\ headerEnd' = -1 /\ contentLen' = -1 /\ truncated' = FALSE
  /\ asked' = FALSE /\ sent' = 0 /\ ended' = "open" /\ got' = 0
  /\ res' = -1 /\ report' = "none"
  /\ UNCHANGED <<fd, sendbuf, ret>>

Fail == ret' = -1 /\ report' = Report(-1)

(* The header argument does not end in CR LF, or socket() fails. *)
Refuse ==
  /\ pc = "connect" /\ ~fd
  /\ pc' = "idle"
  /\ Fail
  /\ UNCHANGED <<fd, sendbuf, len, curLen, parse, truncated, res, got, server>>

Socket ==
  /\ pc = "connect" /\ ~fd
  /\ fd' = TRUE
  /\ UNCHANGED <<pc, sendbuf, len, curLen, parse, truncated, res, ret, report, got, server>>

(* Mutation of ConnectFail: the socket is left open. *)
ConnectFailUnclosed ==
  /\ pc = "connect" /\ fd
  /\ pc' = "idle"
  /\ Fail
  /\ UNCHANGED <<fd, sendbuf, len, curLen, parse, truncated, res, got, server>>

ConnectFail ==
  /\ pc = "connect" /\ fd
  /\ fd' = FALSE
  /\ pc' = "idle"
  /\ Fail
  /\ UNCHANGED <<sendbuf, len, curLen, parse, truncated, res, got, server>>

Connect ==
  /\ pc = "connect" /\ fd
  /\ pc' = "send"
  /\ sendbuf' = TRUE
  /\ UNCHANGED <<fd, len, curLen, parse, truncated, res, ret, report, got, server>>

(* send takes the whole request or part of it; the code does not look. *)
Send ==
  /\ pc = "send"
  /\ asked' \in BOOLEAN
  /\ pc' = "select"
  /\ UNCHANGED <<fd, sendbuf, len, curLen, parse, truncated, res, ret, report, got, reply, sent, ended>>

(* httpreq returns r; wa_http still has to clean up. *)
Leave(r) ==
  /\ res' = r
  /\ pc' = "close"

SendFail ==
  /\ pc = "send"
  /\ Leave(-1)
  /\ UNCHANGED <<fd, sendbuf, len, curLen, parse, truncated, ret, report, got, server>>

(***************************************************************************)
(* httpreq: the receive loop                                               *)
(***************************************************************************)
Readable == sent > got \/ ended # "open"

SelectReady ==
  /\ pc = "select"
  /\ Readable
  /\ pc' = "recv"
  /\ UNCHANGED <<fd, sendbuf, len, curLen, parse, truncated, res, ret, report, got, server>>

(* Mutation of SelectTimeout: the wait is taken up again. *)
SelectTimeoutRetry ==
  /\ pc = "select"
  /\ ~Readable
  /\ UNCHANGED vars

(* Nothing came for rcvtimeo seconds (select returns 0), or it fails (-1). *)
SelectTimeout ==
  /\ pc = "select"
  /\ ~Readable
  /\ Leave(0 - 1)
  /\ UNCHANGED <<fd, sendbuf, len, curLen, parse, truncated, ret, report, got, server>>

SelectError ==
  /\ pc = "select"
  /\ Leave(-1 - 1)
  /\ UNCHANGED <<fd, sendbuf, len, curLen, parse, truncated, ret, report, got, server>>

(* recv returns 0 after the server's close, -1 after a reset. *)
RecvEnd ==
  /\ pc = "recv"
  /\ ended = "rst" \/ (ended = "fin" /\ sent = got)
  /\ Leave(curLen)
  /\ UNCHANGED <<fd, sendbuf, len, curLen, parse, truncated, ret, report, got, server>>

(* How many bytes recv may return. *)
Chunk == {n \in 1 .. TmpSize : n <= sent - got}

(* Mutation of Fits: the terminating zero is forgotten. *)
FitsWithoutZero(n) == curLen + n <= len

Fits(n) == curLen + n < len

(* The buffer holds the whole head for the first time. *)
HeadSeen(c) == headerEnd < 0 /\ c >= reply.head

(* find_content_length in the first c bytes of the reply, which may end    *)
(* within the number: the whole buffer is searched for the one word and    *)
(* only then for the other, so that a body's words count too.              *)
Come(place, c) == place.ends \in 1 .. c

atoi(place, c) ==
  LET k == c - place.ends
  IN  IF k = 0 \/ place.number = <<>> THEN 0
      ELSE place.number[IF k < Len(place.number) THEN k ELSE Len(place.number)]

Named(c) ==
  IF Come(reply.upper, c) THEN atoi(reply.upper, c)
  ELSE IF Come(reply.lower, c) THEN atoi(reply.lower, c) ELSE -1

(* Mutation of Complete: the head is counted as body. *)
CompleteWithHead(c, h, l) == l >= 0 /\ h > 0 /\ c >= l

(* The test that ends the loop, for c bytes with a head of h naming l. *)
Complete(c, h, l) == l >= 0 /\ h > 0 /\ c - h >= l

(* Mutation of RecvStore: the bytes are stored without looking again for   *)
(* the length the head names.                                              *)
RecvStoreNoLength(n) ==
  /\ pc = "recv" /\ ended # "rst"
  /\ n \in Chunk /\ Fits(n)
  /\ got' = got + n
  /\ curLen' = curLen + n
  /\ headerEnd' = IF HeadSeen(curLen + n) THEN reply.head ELSE headerEnd
  /\ pc' = "select"
  /\ UNCHANGED <<fd, sendbuf, len, contentLen, truncated, res, ret, report, server>>

(* The bytes fit: they are stored, the head is looked for if it has not    *)
(* been found, and the loop ends when the body is there.                   *)
RecvStore(n) ==
  /\ pc = "recv" /\ ended # "rst"
  /\ n \in Chunk /\ Fits(n)
  /\ got' = got + n
  /\ curLen' = curLen + n
  /\ headerEnd' = IF HeadSeen(curLen + n) THEN reply.head ELSE headerEnd
  /\ contentLen' = IF HeadSeen(curLen + n) THEN Named(curLen + n) ELSE contentLen
  /\ IF Complete(curLen', headerEnd', contentLen')
     THEN Leave(curLen')
     ELSE pc' = "select" /\ UNCHANGED res
  /\ UNCHANGED <<fd, sendbuf, len, truncated, ret, report, server>>

(* Mutation of RecvTruncate: all of the piece is copied. *)
RecvTruncateAll(n) ==
  /\ pc = "recv" /\ ended # "rst"
  /\ n \in Chunk /\ ~Fits(n)
  /\ got' = got + n
  /\ curLen' = curLen + n
  /\ truncated' = TRUE
  /\ Leave(-2)
  /\ UNCHANGED <<fd, sendbuf, len, parse, ret, report, server>>

(* They do not fit: the buffer is filled up and the rest dropped. *)
RecvTruncate(n) ==
  /\ pc = "recv" /\ ended # "rst"
  /\ n \in Chunk /\ ~Fits(n)
  /\ got' = got + n
  /\ curLen' = IF len - curLen - 1 > 0 THEN len - 1 ELSE curLen
  /\ truncated' = TRUE
  /\ Leave(-2)
  /\ UNCHANGED <<fd, sendbuf, len, parse, ret, report, server>>

(* wa_http's end: the request buffer is freed and the socket closed. *)
Close ==
  /\ pc = "close"
  /\ pc' = "idle"
  /\ fd' = FALSE /\ sendbuf' = FALSE
  /\ ret' = res /\ report' = Report(res)
  /\ UNCHANGED <<len, curLen, parse, truncated, res, got, server>>

(* The steps that the client and its kernel carry out in some time.        *)
Advance ==
  \/ Refuse \/ Socket \/ ConnectFail \/ Connect
  \/ SelectReady \/ SelectTimeout
  \/ RecvEnd \/ \E n \in 1 .. TmpSize : RecvStore(n) \/ RecvTruncate(n)
  \/ Close

Next == Call \/ Advance \/ Send \/ SendFail \/ SelectError \/ ServerSend \/ ServerEnd

(* connect succeeds or fails, and select ends after rcvtimeo seconds at    *)
(* most; but send has no timeout, and a server that does not read may hold *)
(* it for ever.  That select fails is never relied upon, nor anything of   *)
(* the server.                                                             *)
Fairness == WF_vars(Advance)

Spec == Init /\ [][Next]_vars /\ Fairness

(***************************************************************************)
(* Properties                                                              *)
(***************************************************************************)

(* The lengths that may be read when the head is there and no more than c  *)
(* bytes have come.                                                        *)
NamedUpTo(c) == {Named(k) : k \in reply.head .. c}

(* Results are the documented ones, with a length that leaves room for the *)
(* terminating zero, and what was parsed is the reply's (tcpclient.c:97,   *)
(* 123-124,142,146).                                                       *)
TypeOK ==
  /\ pc \in {"idle", "connect", "send", "select", "recv", "close"}
  /\ fd \in BOOLEAN /\ sendbuf \in BOOLEAN /\ truncated \in BOOLEAN /\ asked \in BOOLEAN
  /\ len \in BufLen /\ reply \in Reply
  /\ curLen \in Nat /\ sent \in Nat /\ got \in Nat
  /\ headerEnd \in {-1, reply.head} /\ contentLen \in {-1} \union NamedUpTo(Total)
  /\ res \in Int /\ -2 <= res /\ res < len /\ ret \in Int
  /\ report \in {"none", "error", "short", "split", "raw"}
  /\ ended \in {"open", "fin", "rst"}

(* The buffer holds a prefix of the reply with room for the terminating    *)
(* zero: all that was taken from the socket, or as much as fits when the   *)
(* reply is too long (tcpclient.c:116-138,145).                            *)
StoredPrefix ==
  /\ curLen < len
  /\ got <= sent /\ sent <= Total
  /\ ~truncated => curLen = got
  /\ truncated => curLen = len - 1 /\ got >= len

(* Whatever step a call fails at, when it is over nothing of it is left:   *)
(* the socket is closed and the request buffer freed (tcpclient.c:60-65,   *)
(* 173-175).                                                               *)
Released == pc = "idle" => ~fd /\ ~sendbuf

(* The length a reply names, by its head alone; and the lengths that may   *)
(* be read from what has come of it.  They are one if the word searched    *)
(* for first stands in the head, or stands nowhere while the other is in   *)
(* the head or nowhere too; else a body's text decides, and how the reply  *)
(* is cut.                                                                 *)
HeadLength == Named(reply.head)
Decided ==
  LET upper == reply.upper  lower == reply.lower
  IN InHead(reply, upper) /\ (upper.ends = 0 => InHead(reply, lower))
Lengths == IF Decided THEN {HeadLength} ELSE NamedUpTo(curLen)

(* There is more of the reply to come, as far as is known of its length.   *)
MoreToCome ==
  curLen >= reply.head => \E l \in Lengths : l < 0 \/ curLen < reply.head + l

(* A reply that fits the buffer is never waited for again once all that    *)
(* its length tells of is there, so no timeout turns it into an error; the *)
(* length is its head's, unless a body's text decides (tcpclient.c:82-89,  *)
(* 120-129,140-142).                                                       *)
NoWaitForMore ==
  pc = "select" \/ report = "error" => MoreToCome

(* As many bytes have come as the length tells of.                         *)
NamedCame == \E l \in Lengths : l >= 0 /\ curLen >= reply.head + l

(* The script is given a head and a body only when the whole head has      *)
(* come, and a body shorter than its length only if the server ended the   *)
(* connection: if that length is Decided, however the reply is cut into    *)
(* pieces (tcpclient.c:82-89,112-146; extlua.c:406-428).                   *)
SplitIsWhole ==
  report = "split" => curLen >= reply.head /\ (ended = "open" => NamedCame)

(* The detailed client implements the abstract call: in particular every   *)
(* call that is not held up by send returns.                               *)
phase ==
  CASE pc = "idle" -> "idle" [] pc = "connect" -> "asking" [] pc = "send" -> "sending"
    [] OTHER -> "waiting"
Promise == INSTANCE HttpCall
ImplementsCall == Promise!Spec

(* walib.h:47 of wa_http: "-2:buf too short"; extlua.c tells the script    *)
(* so.                                                                     *)
ShortIsTruncated == report = "short" => truncated

(* tcpclient.c:128, of the loop's normal end: "body complete".             *)
BodyComplete ==
  pc = "close" /\ res >= 0 /\ ended = "open" =>
    curLen = Total \/ (HeadLength >= 0 /\ curLen >= reply.head + HeadLength)

(* The inductive invariant: what each place in the code knows of the       *)
(* resources it holds, the bytes stored and the head found in them.        *)
IInv ==
  /\ TypeOK /\ StoredPrefix /\ Released
  /\ pc = "connect" => ~sendbuf
  /\ pc \in {"connect", "send"} => curLen = 0 /\ got = 0 /\ headerEnd = -1 /\ contentLen = -1
  /\ pc \in {"connect", "send", "select", "recv"} => ~truncated
  /\ pc # "idle" => report = "none"
  /\ pc \in {"select", "recv"} =>
       /\ headerEnd = IF curLen >= reply.head THEN reply.head ELSE -1
       /\ IF curLen < reply.head THEN contentLen = -1
          ELSE /\ contentLen \in NamedUpTo(curLen)
               /\ contentLen < 0 \/ curLen < reply.head + contentLen
  /\ pc = "close" /\ res = -1 => MoreToCome
  /\ pc = "close" /\ res >= 0 => ended # "open" \/ NamedCame
  /\ NoWaitForMore /\ SplitIsWhole
=============================================================================
