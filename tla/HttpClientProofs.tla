-------------------------- MODULE HttpClientProofs --------------------------
(***************************************************************************)
(* Proofs about the HTTP client's safety, for replies and buffers of any   *)
(* size and pieces of any size up to any TmpSize.  That calls return is a  *)
(* matter of fairness and is left to TLC.                                  *)
(***************************************************************************)
EXTENDS HttpClient, TLAPS

(* The numbers of a reply.                                                 *)
LEMMA ReplyFacts ==
  ASSUME NEW r \in Reply
  PROVE  /\ r.head \in Nat /\ r.head > 0
         /\ r.body \in Nat
         /\ r.upper \in Place /\ r.lower \in Place
BY HttpAssumption

(* What is read behind a word is a number (tcpclient.c:86-88).             *)
LEMMA AtoiType ==
  ASSUME NEW place \in Place, NEW c \in Nat, Come(place, c)
  PROVE  atoi(place, c) \in Int
<1>1. place.ends \in Nat /\ place.number \in Seq(Int) /\ place.ends <= c
  BY DEF Place, Come
<1>2. c - place.ends \in Nat /\ Len(place.number) \in Nat
  BY <1>1
<1>3. CASE c - place.ends = 0 \/ place.number = <<>>
  BY <1>3 DEF atoi
<1>4. CASE ~(c - place.ends = 0 \/ place.number = <<>>)
  <2> DEFINE k == c - place.ends
  <2>1. Len(place.number) > 0 /\ k \in Nat /\ k > 0
    BY <1>1, <1>2, <1>4
  <2>2. (IF k < Len(place.number) THEN k ELSE Len(place.number)) \in 1 .. Len(place.number)
    BY <1>2, <2>1
  <2>3. QED
    BY <1>1, <1>4, <2>2 DEF atoi
<1>5. QED
  BY <1>3, <1>4

(* The length that is read is a number (tcpclient.c:82-89).                *)
LEMMA NamedType ==
  ASSUME reply \in Reply, NEW c \in Nat
  PROVE  Named(c) \in Int
BY ReplyFacts, AtoiType DEF Named

(* A number in the head is read in full as soon as the head is there.      *)
LEMMA AtoiInHead ==
  ASSUME reply \in Reply, NEW place \in {reply.upper, reply.lower},
         InHead(reply, place), NEW c \in Nat, c >= reply.head
  PROVE  /\ Come(place, c) <=> Come(place, reply.head)
         /\ Come(place, c) => atoi(place, c) = atoi(place, reply.head)
<1>1. /\ place.ends \in Nat /\ place.number \in Seq(Int) /\ Len(place.number) \in Nat
      /\ reply.head \in Nat
  BY ReplyFacts DEF Place
<1>2. place.ends <= reply.head /\ place.ends + Len(place.number) <= reply.head
  BY HttpAssumption DEF InHead
<1>3. Come(place, c) <=> Come(place, reply.head)
  BY <1>1, <1>2 DEF Come
<1>4. ASSUME Come(place, c)
      PROVE  atoi(place, c) = atoi(place, reply.head)
  <2>1. CASE place.number = <<>>
    BY <2>1 DEF atoi
  <2>2. CASE place.number # <<>>
    <3>1. Len(place.number) > 0
      BY <1>1, <2>2
    <3>2. /\ c - place.ends >= Len(place.number) /\ c - place.ends # 0
          /\ reply.head - place.ends >= Len(place.number) /\ reply.head - place.ends # 0
      BY <1>1, <1>2, <3>1
    <3>3. /\ atoi(place, c) = place.number[Len(place.number)]
          /\ atoi(place, reply.head) = place.number[Len(place.number)]
      BY <1>1, <2>2, <3>2 DEF atoi
    <3>4. QED
      BY <3>3
  <2>3. QED
    BY <2>1, <2>2
<1>5. QED
  BY <1>3, <1>4

(* If the head decides, its length is what is read, whatever else has come *)
(* (tcpclient.c:82-89).                                                    *)
LEMMA HeadDecides ==
  ASSUME reply \in Reply, Decided, NEW c \in Nat, c >= reply.head
  PROVE  Named(c) = HeadLength
<1>1. InHead(reply, reply.upper) /\ (reply.upper.ends = 0 => InHead(reply, reply.lower))
  BY DEF Decided
<1>2. reply.head \in Nat /\ reply.upper.ends \in Nat /\ reply.upper.ends <= reply.head
  BY <1>1, ReplyFacts DEF Place, InHead
<1>3. /\ Come(reply.upper, c) <=> Come(reply.upper, reply.head)
      /\ Come(reply.upper, c) => atoi(reply.upper, c) = atoi(reply.upper, reply.head)
  BY <1>1, AtoiInHead
<1>4. CASE Come(reply.upper, c)
  BY <1>3, <1>4 DEF Named, HeadLength
<1>5. CASE ~Come(reply.upper, c)
  <2>1. reply.upper.ends = 0
    BY <1>2, <1>5 DEF Come
  <2>2. /\ Come(reply.lower, c) <=> Come(reply.lower, reply.head)
        /\ Come(reply.lower, c) => atoi(reply.lower, c) = atoi(reply.lower, reply.head)
    BY <1>1, <2>1, AtoiInHead
  <2>3. QED
    BY <1>3, <1>5, <2>2 DEF Named, HeadLength
<1>6. QED
  BY <1>4, <1>5

(* What was read is one of the lengths there may be.                       *)
LEMMA ReadIsLength ==
  reply \in Reply /\ curLen \in Nat => NamedUpTo(curLen) \subseteq Lengths
<1> SUFFICES ASSUME reply \in Reply, curLen \in Nat, NEW c \in reply.head .. curLen
             PROVE  Named(c) \in Lengths
  BY DEF NamedUpTo
<1>1. reply.head \in Nat /\ c \in Nat /\ c >= reply.head
  BY ReplyFacts
<1>2. CASE Decided
  BY <1>1, <1>2, HeadDecides DEF Lengths
<1>3. CASE ~Decided
  BY <1>3 DEF Lengths, NamedUpTo
<1>4. QED
  BY <1>2, <1>3

LEMMA ReadIsLengthNext ==
  (reply \in Reply /\ curLen \in Nat => NamedUpTo(curLen) \subseteq Lengths)'
BY ReadIsLength, PTL

(* The same reply has the same lengths in it.                              *)
LEMMA NamedStays ==
  ASSUME UNCHANGED reply
  PROVE  /\ \A c \in Int : Named(c)' = Named(c)
         /\ \A c \in Int : NamedUpTo(c)' = NamedUpTo(c)
         /\ Total' = Total
         /\ NamedUpTo(Total)' = NamedUpTo(Total)
BY DEF Named, NamedUpTo, Come, atoi, Total

LEMMA LengthsStay ==
  ASSUME UNCHANGED <<reply, curLen>>
  PROVE  /\ MoreToCome' <=> MoreToCome
         /\ NamedCame' <=> NamedCame
         /\ NamedUpTo(curLen)' = NamedUpTo(curLen)
<1>1. HeadLength' = HeadLength /\ NamedUpTo(curLen)' = NamedUpTo(curLen)
  BY DEF HeadLength, Named, NamedUpTo, Come, atoi
<1>2. Lengths' = Lengths
  BY <1>1 DEF Lengths, Decided, InHead
<1>3. QED
  BY <1>1, <1>2 DEF MoreToCome, NamedCame

(* Before the first call nothing is open (tcpclient.c:91-98).              *)
LEMMA InitIInv == Init => IInv
<1> SUFFICES ASSUME Init PROVE IInv
  OBVIOUS
<1>1. reply.head \in Nat /\ reply.head > 0 /\ reply.body \in Nat
  BY ReplyFacts DEF Init
<1>2. len \in Nat /\ len > 0
  BY HttpAssumption DEF Init
<1>3. TypeOK
  <2>1. -1 \in Int /\ -2 <= -1 /\ -1 < len
    BY <1>2
  <2>2. QED
    BY <2>1 DEF Init, TypeOK
<1>4. StoredPrefix /\ Released
  BY <1>1, <1>2 DEF Init, StoredPrefix, Released, Total
<1>5. QED
  BY <1>1, <1>3, <1>4 DEF Init, IInv, NoWaitForMore, MoreToCome, SplitIsWhole

(* The numbers that every step starts from.                                *)
LEMMA InvFacts ==
  ASSUME IInv
  PROVE  /\ reply \in Reply /\ reply.head \in Nat /\ reply.head > 0
         /\ reply.body \in Nat
         /\ len \in Nat /\ len > 0
         /\ pc \in {"connect", "send"} => MoreToCome
BY ReplyFacts, HttpAssumption DEF IInv, TypeOK, MoreToCome

(* A call starts from an empty buffer and a fresh connection               *)
(* (tcpclient.c:91-102,149-161).                                           *)
LEMMA CallKeeps ==
  ASSUME IInv, Call
  PROVE  IInv'
<1> USE DEF Call, IInv, TypeOK, StoredPrefix, Released, MoreToCome, NoWaitForMore, SplitIsWhole,
            Total
<1>1. /\ reply'.head \in Nat /\ reply'.head > 0 /\ reply'.body \in Nat
      /\ len' \in Nat /\ len' > 0
  BY ReplyFacts, HttpAssumption
<1>2. res' \in Int /\ -2 <= res' /\ res' < len'
  BY <1>1
<1>3. TypeOK'
  BY <1>1, <1>2
<1>4. StoredPrefix'
  BY <1>1, <1>2
<1>5. QED
  BY <1>1, <1>3, <1>4

(* The bytes fit: the head is found as soon as it is there, and the loop   *)
(* goes on exactly if there is more to come by the length that was read    *)
(* (tcpclient.c:116-129).                                                  *)
LEMMA RecvStoreKeeps ==
  ASSUME IInv, NEW n \in 1 .. TmpSize, RecvStore(n)
  PROVE  IInv'
<1> USE InvFacts DEF IInv, TypeOK, StoredPrefix, Released, NoWaitForMore,
                     SplitIsWhole, server, Leave, RecvStore
<1>1. /\ n \in Nat /\ n > 0 /\ n <= sent - got
      /\ curLen + n < len /\ curLen' = curLen + n /\ got' = got + n
  BY DEF Fits, Chunk
<1>2. headerEnd' = IF curLen' >= reply.head THEN reply.head ELSE -1
  BY <1>1 DEF HeadSeen
<1>3. /\ \A c \in Int : NamedUpTo(c)' = NamedUpTo(c)
      /\ Total' = Total /\ Total \in Nat
  BY NamedStays DEF Total
<1>4. StoredPrefix'
  BY <1>1, <1>3
<1>5. curLen < reply.head => contentLen = -1
  OBVIOUS
<1>6. curLen >= reply.head => contentLen \in NamedUpTo(curLen')
  BY <1>1 DEF NamedUpTo
<1>7. IF curLen' < reply.head THEN contentLen' = -1
      ELSE contentLen' \in NamedUpTo(curLen')
  <2>1. CASE HeadSeen(curLen + n)
    <3>1. curLen' \in reply.head .. curLen' /\ contentLen' = Named(curLen')
      BY <1>1, <2>1 DEF HeadSeen
    <3>2. QED
      BY <1>1, <3>1, <2>1 DEF NamedUpTo, HeadSeen
  <2>2. CASE ~HeadSeen(curLen + n)
    BY <1>1, <1>5, <1>6, <2>2 DEF HeadSeen
  <2>3. QED
    BY <2>1, <2>2
<1>8. contentLen' \in Int /\ contentLen' \in {-1} \union NamedUpTo(Total)'
  <2>1. CASE curLen' < reply.head
    BY <1>7, <2>1
  <2>2. CASE curLen' >= reply.head
    <3>1. PICK c \in reply.head .. curLen' : contentLen' = Named(c)
      BY <1>1, <1>7, <2>2 DEF NamedUpTo
    <3>2. c \in Nat /\ c \in reply.head .. Total
      BY <1>1, <1>3, <1>4, <3>1
    <3>3. contentLen' \in Int
      BY <3>1, <3>2, NamedType
    <3>4. contentLen' \in NamedUpTo(Total)
      BY <3>1, <3>2 DEF NamedUpTo
    <3>5. QED
      BY <3>3, <3>4, NamedStays
  <2>3. QED
    BY <1>1, <2>1, <2>2
<1>9. curLen' >= reply.head => contentLen' \in Lengths'
  BY <1>1, <1>3, <1>7, ReadIsLengthNext
<1>10. CASE Complete(curLen', headerEnd', contentLen')
  <2>1. res' = curLen' /\ pc' = "close"
    BY <1>10
  <2>2. res' \in Int /\ -2 <= res' /\ res' < len
    BY <1>1, <2>1
  <2>3. TypeOK'
    BY <1>1, <1>2, <1>8, <2>1, <2>2
  <2>4. NamedCame'
    BY <1>1, <1>2, <1>8, <1>9, <1>10 DEF Complete, NamedCame
  <2>5. QED
    BY <1>1, <1>2, <1>4, <1>10, <2>1, <2>3, <2>4 DEF Complete
<1>11. CASE ~Complete(curLen', headerEnd', contentLen')
  <2>1. res' = res /\ pc' = "select"
    BY <1>11
  <2>2. TypeOK'
    BY <1>1, <1>2, <1>8, <2>1
  <2>3. curLen' >= reply.head => contentLen' < 0 \/ curLen' < reply.head + contentLen'
    BY <1>1, <1>2, <1>8, <1>11 DEF Complete
  <2>4. MoreToCome'
    BY <1>9, <2>3 DEF MoreToCome
  <2>5. QED
    BY <1>1, <1>2, <1>3, <1>4, <1>7, <2>1, <2>2, <2>3, <2>4
<1>12. QED
  BY <1>10, <1>11

(* The bytes do not fit: the buffer is filled to its last byte but one     *)
(* (tcpclient.c:130-139).                                                  *)
LEMMA RecvTruncateKeeps ==
  ASSUME IInv, NEW n \in 1 .. TmpSize, RecvTruncate(n)
  PROVE  IInv'
<1>1. /\ n \in Nat /\ n > 0 /\ n <= sent - got /\ curLen + n >= len
      /\ curLen \in Nat /\ curLen < len /\ sent \in Nat /\ got \in Nat /\ sent <= Total
      /\ curLen = got /\ len \in Nat /\ len > 0
  BY InvFacts DEF IInv, TypeOK, StoredPrefix, Fits, Chunk, RecvTruncate
<1>2. /\ UNCHANGED <<fd, sendbuf, len, headerEnd, contentLen, ret, report>>
      /\ UNCHANGED <<reply, asked, sent, ended>>
      /\ pc' = "close" /\ truncated' = TRUE /\ res' = -2 /\ report = "none"
  BY DEF IInv, RecvTruncate, Leave, parse, server
<1>3. curLen' = len - 1 /\ got' = got + n
  BY <1>1 DEF RecvTruncate
<1>4. Total' = Total /\ NamedUpTo(Total)' = NamedUpTo(Total)
  BY <1>2, NamedStays
<1>5. TypeOK'
  <2>1. curLen' \in Nat /\ got' \in Nat /\ res' \in Int /\ -2 <= res' /\ res' < len
    BY <1>1, <1>2, <1>3
  <2>2. contentLen' \in {-1} \union NamedUpTo(Total)'
    BY <1>2, <1>4 DEF IInv, TypeOK
  <2>3. QED
    BY <1>2, <2>1, <2>2 DEF IInv, TypeOK
<1>6. StoredPrefix'
  BY <1>1, <1>2, <1>3, <1>4 DEF StoredPrefix
<1>7. QED
  BY <1>2, <1>5, <1>6 DEF IInv, Released, NoWaitForMore, SplitIsWhole

(* A step that leaves the buffer and what was found in it alone: of the    *)
(* types, only the others are at stake.                                    *)
LEMMA BufferStays ==
  ASSUME IInv, UNCHANGED <<reply, curLen, headerEnd, contentLen>>
  PROVE  /\ headerEnd' \in {-1, reply'.head}
         /\ contentLen' \in {-1} \union NamedUpTo(Total)'
         /\ NamedUpTo(curLen)' = NamedUpTo(curLen)
         /\ MoreToCome' <=> MoreToCome
         /\ NamedCame' <=> NamedCame
         /\ Total' = Total /\ Total \in Nat
<1>1. Total \in Nat
  BY InvFacts DEF Total
<1>2. Total' = Total /\ NamedUpTo(Total)' = NamedUpTo(Total)
  BY NamedStays
<1>3. QED
  BY <1>1, <1>2, LengthsStay DEF IInv, TypeOK

(* A failed connect leaves nothing open (tcpclient.c:60-65).               *)
LEMMA ConnectFailKeeps ==
  ASSUME IInv, ConnectFail
  PROVE  IInv'
<1>1. /\ pc' = "idle" /\ fd' = FALSE /\ ret' = -1 /\ report' = "error"
      /\ ~sendbuf /\ curLen = 0
  BY DEF IInv, ConnectFail, Fail, Report
<1>2. /\ UNCHANGED <<sendbuf, len, curLen, headerEnd, contentLen, truncated, res, got>>
      /\ UNCHANGED <<reply, asked, sent, ended>>
  BY DEF ConnectFail, parse, server
<1>3. TypeOK'
  <2>1. ret' \in Int
    BY <1>1
  <2>2. QED
    BY <1>1, <1>2, <2>1, BufferStays DEF IInv, TypeOK
<1>4. StoredPrefix' /\ Released'
  BY <1>1, <1>2, BufferStays DEF IInv, StoredPrefix, Released
<1>5. MoreToCome'
  BY <1>1, <1>2, InvFacts DEF MoreToCome
<1>6. QED
  BY <1>1, <1>2, <1>3, <1>4, <1>5 DEF IInv, NoWaitForMore, SplitIsWhole

(* The end of a call: what the caller is told follows from what the loop   *)
(* left (tcpclient.c:172-178; extlua.c:405-431).                           *)
LEMMA CloseKeeps ==
  ASSUME IInv, Close
  PROVE  IInv'
<1>1. /\ UNCHANGED <<len, curLen, headerEnd, contentLen, truncated, res, got>>
      /\ UNCHANGED <<reply, asked, sent, ended>>
      /\ pc' = "idle" /\ fd' = FALSE /\ sendbuf' = FALSE /\ ret' = res
  BY DEF Close, parse, server
<1>2. /\ report' \in {"error", "short", "split", "raw"}
      /\ report' = "error" <=> res = -1
      /\ report' = "split" => res >= 0 /\ curLen >= reply.head
  BY InvFacts DEF IInv, TypeOK, Close, Report
<1>3. TypeOK'
  BY <1>1, <1>2, BufferStays DEF IInv, TypeOK
<1>4. StoredPrefix' /\ Released'
  BY <1>1, BufferStays DEF IInv, StoredPrefix, Released
<1>5. /\ res = -1 => MoreToCome
      /\ res >= 0 => ended # "open" \/ NamedCame
  BY DEF IInv, Close
<1>6. NoWaitForMore'
  BY <1>1, <1>2, <1>5, BufferStays DEF NoWaitForMore
<1>7. SplitIsWhole'
  BY <1>1, <1>2, <1>5, BufferStays DEF SplitIsWhole
<1>8. QED
  BY <1>1, <1>3, <1>4, <1>6, <1>7 DEF IInv

(* Every step of client and server keeps the invariant                     *)
(* (tcpclient.c:91-178).                                                   *)
LEMMA NextKeeps ==
  ASSUME IInv, [Next]_vars
  PROVE  IInv'
<1> USE InvFacts, BufferStays DEF IInv, TypeOK, StoredPrefix, Released, NoWaitForMore, SplitIsWhole
<1>1. CASE UNCHANGED vars
  BY <1>1 DEF vars
<1>2. CASE Refuse
  BY <1>2 DEF server, parse, Fail, Report, Refuse
<1>3. CASE Socket
  BY <1>3 DEF server, parse, Socket
<1>4. CASE Connect
  BY <1>4 DEF server, parse, Connect
<1>5. CASE Send
  BY <1>5 DEF parse, Send
<1>6. CASE SendFail
  BY <1>6 DEF server, parse, Leave, SendFail
<1>7. CASE SelectReady
  BY <1>7 DEF server, parse, Readable, SelectReady
<1>8. CASE SelectTimeout
  BY <1>8 DEF server, parse, Leave, SelectTimeout
<1>9. CASE SelectError
  BY <1>9 DEF server, parse, Leave, SelectError
<1>10. CASE RecvEnd
  BY <1>10 DEF server, parse, Leave, RecvEnd
<1>11. CASE ServerSend
  BY <1>11 DEF client, ServerSend
<1>12. CASE ServerEnd
  BY <1>12 DEF client, ServerEnd
<1>13. CASE Advance
  <2>1. ASSUME NEW n \in 1 .. TmpSize, RecvStore(n) \/ RecvTruncate(n)
        PROVE  IInv'
    BY <2>1, RecvStoreKeeps, RecvTruncateKeeps
  <2>2. QED
    BY ONLY IInv, <1>13, <1>2, <1>3, <1>4, <1>7, <1>8, <1>10, <2>1, ConnectFailKeeps, CloseKeeps
       DEF Advance
<1>14. QED
  BY ONLY IInv, [Next]_vars, <1>1, <1>5, <1>6, <1>9, <1>11, <1>12, <1>13, CallKeeps DEF Next

(* The inductive invariant holds of every behaviour, fair or not.          *)
THEOREM HttpInvariant == Spec => []IInv
<1>1. Init => IInv
  BY InitIInv
<1>2. IInv /\ [Next]_vars => IInv'
  BY NextKeeps
<1>3. QED
  BY <1>1, <1>2, PTL DEF Spec

(* The caller's buffer is never overrun and holds a prefix of the reply,   *)
(* for every buffer length and every cutting of the stream into pieces.    *)
THEOREM HttpStoredPrefix == Spec => []StoredPrefix
<1>1. IInv => StoredPrefix
  BY DEF IInv
<1>2. QED
  BY <1>1, HttpInvariant, PTL

(* No way out of a call leaves the socket open or the request allocated.   *)
THEOREM HttpReleased == Spec => []Released
<1>1. IInv => Released
  BY DEF IInv
<1>2. QED
  BY <1>1, HttpInvariant, PTL

(* A reply that holds all its length tells of is returned, and never       *)
(* waited for again (tcpclient.c:82-89,120-129).                           *)
THEOREM HttpNoWaitForMore == Spec => []NoWaitForMore
<1>1. IInv => NoWaitForMore
  BY DEF IInv
<1>2. QED
  BY <1>1, HttpInvariant, PTL

(* A script is handed a body shorter than its length only if the server    *)
(* ended the connection (tcpclient.c:82-89,112-146).                       *)
THEOREM HttpSplitIsWhole == Spec => []SplitIsWhole
<1>1. IInv => SplitIsWhole
  BY DEF IInv
<1>2. QED
  BY <1>1, HttpInvariant, PTL

(* Where the head decides, neither the rest of the reply nor its cutting   *)
(* into pieces has a say: the one length there is, is the one that is read *)
(* (tcpclient.c:82-89,120-126).                                            *)
THEOREM HttpHeadDecides ==
  Spec => [](Decided => contentLen \in {-1, HeadLength})
<1>1. ASSUME IInv, Decided
      PROVE  contentLen \in {-1, HeadLength}
  <2>1. SUFFICES ASSUME contentLen # -1
                 PROVE  contentLen = HeadLength
    OBVIOUS
  <2>2. PICK c \in reply.head .. Total : contentLen = Named(c)
    BY <1>1, <2>1 DEF IInv, TypeOK, NamedUpTo
  <2>3. reply \in Reply /\ c \in Nat /\ c >= reply.head
    BY <1>1, <2>2, InvFacts
  <2>4. QED
    BY <1>1, <2>2, <2>3, HeadDecides
<1>2. QED
  BY <1>1, HttpInvariant, PTL

(* Every step of a call is one of the abstract call's or changes nothing   *)
(* that it tells of: no length is reported that the buffer cannot hold,    *)
(* and none but at the end of a call (tcpclient.c:91-178).                 *)
LEMMA StepOfCall ==
  ASSUME IInv, [Next]_vars
  PROVE  [Promise!Next]_(Promise!vars)
<1> USE DEF Promise!vars, phase
<1>1. /\ len \in Nat /\ len > 0
      /\ pc = "close" => res \in Int /\ -2 <= res /\ res < len
  BY InvFacts DEF IInv, TypeOK
<1>2. ASSUME pc \in {"connect", "close"}, pc' = "idle", len' = len,
             ret' = -1 \/ (pc = "close" /\ ret' = res)
      PROVE  Promise!Next
  <2>1. ret' \in -2 .. len - 1
    BY <1>1, <1>2
  <2>2. QED
    BY <1>2, <2>1 DEF Promise!Next, Promise!Return
<1>3. ASSUME UNCHANGED phase, len' = len, ret' = ret
      PROVE  UNCHANGED Promise!vars
  BY <1>3
<1>4. CASE Call
  BY <1>4 DEF Call, Promise!Next, Promise!Call
<1>5. CASE Refuse \/ ConnectFail
  BY <1>2, <1>5 DEF Refuse, ConnectFail, Fail
<1>6. CASE Connect
  BY <1>6 DEF Connect, Promise!Next, Promise!Connected
<1>7. CASE Send \/ SendFail
  BY <1>7 DEF Send, SendFail, Leave, Promise!Next, Promise!Sent
<1>8. CASE Close
  BY <1>2, <1>8 DEF Close
<1>9. CASE UNCHANGED vars
  BY <1>9 DEF vars
<1>10. CASE Socket
  BY <1>3, <1>10 DEF Socket
<1>11. CASE SelectReady \/ SelectTimeout \/ SelectError \/ RecvEnd
  BY <1>3, <1>11 DEF SelectReady, SelectTimeout, SelectError, RecvEnd, Leave
<1>12. ASSUME NEW n \in 1 .. TmpSize, RecvStore(n) \/ RecvTruncate(n)
       PROVE  UNCHANGED Promise!vars
  BY <1>3, <1>12 DEF RecvStore, RecvTruncate, Leave
<1>13. CASE ServerSend \/ ServerEnd
  BY <1>13 DEF ServerSend, ServerEnd, client
<1>14. QED
  BY <1>4, <1>5, <1>6, <1>7, <1>8, <1>9, <1>10, <1>11, <1>12, <1>13 DEF Next, Advance

(* The safety of ImplementsCall; that a call returns is left to TLC.       *)
THEOREM HttpImplementsCall == Spec => Promise!Init /\ [][Promise!Next]_(Promise!vars)
<1>1. Init => Promise!Init
  BY DEF Init, phase, Promise!Init
<1>2. IInv /\ [Next]_vars => [Promise!Next]_(Promise!vars)
  BY StepOfCall
<1>3. QED
  BY <1>1, <1>2, HttpInvariant, PTL DEF Spec

(* A call's variables stay within their types whatever the server does, so *)
(* that no received length runs past the buffer (tcpclient.c:91-178).      *)
THEOREM HttpTypeCorrect == Spec => []TypeOK
<1>1. IInv => TypeOK
  BY DEF IInv
<1>2. QED
  BY <1>1, HttpInvariant, PTL
=============================================================================
