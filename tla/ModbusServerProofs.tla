-------------------------- MODULE ModbusServerProofs --------------------------
(***************************************************************************)
(* Theorems about ModbusServer for any number of requests.                 *)
(*                                                                         *)
(* The invariant counts: requests are numbered in the order of the inbox,  *)
(* the request being served is the last one taken, all replies are to      *)
(* requests before it, and while the peer is there those before it have    *)
(* their reply or are broadcasts.  Once the peer has gone no frame is      *)
(* added, so the order of those sent stays.                                *)
(***************************************************************************)
EXTENDS ModbusServer, TLAPS

Serving == {"handle", "asleep", "reply", "bytes"}
InService == IF server \in Serving THEN 1 ELSE 0

AnyRequest == [function : Nat, nb : Nat, address : Nat, broadcast : BOOLEAN]
Query == [request : AnyRequest, number : Nat, tid : Int]
Reply == [kind : Kinds, tid : Int, nb : Nat, of : Nat]

TypeInv ==
    /\ server \in Serving \cup {"start", "accept", "receive", "quit", "done"}
    /\ port \in {"free", "server", "other"}
    /\ link \in {"none", "up", "closed"}
    /\ inbox \in Seq(Query) /\ query \in Query /\ replies \in Seq(Reply)
    /\ sentBytes \in 0..req_length-1
    /\ sent \in 0..MaxRequests /\ taken \in 0..sent
    /\ broadcasts \subseteq 1..sent

\* Requests are numbered as they were sent, and one is served at a time.
NumbersInv ==
    /\ taken + Len(inbox) = sent
    /\ \A i \in 1..Len(inbox) : inbox[i].number = taken + i
    /\ query.number <= taken
    /\ server \in Serving => query.number = taken /\ 1 <= taken
    /\ \A i \in 1..Len(inbox) : inbox[i].request.broadcast => taken + i \in broadcasts
    /\ server \in Serving /\ query.request.broadcast => taken \in broadcasts

\* Nothing happens before the peer connects, and it can connect once.
LinkInv ==
    /\ link = "none" => sent = 0 /\ replies = <<>> /\ sentBytes = 0
                        /\ server \notin Serving
    /\ link = "none" /\ server \notin {"start", "accept"} => port # "server"
    /\ server = "start" => port # "server"
    /\ link = "up" => server \notin {"start", "quit", "done"}

RepliesInv ==
    /\ \A i \in 1..Len(replies) : 1 <= replies[i].of /\ replies[i].of + InService <= taken
    /\ \A i, j \in 1..Len(replies) : i < j => replies[i].of < replies[j].of
    /\ link = "up" => /\ \A n \in 1..taken - InService : Answered(n) \/ n \in broadcasts
                      /\ server # "bytes" => sentBytes = 0

Inv == TypeInv /\ NumbersInv /\ LinkInv /\ RepliesInv

LEMMA ConstantsAreNumbers == FirstTid \in Nat /\ MaxRequests \in Nat
  BY ModbusServerAssumption

LEMMA NumberedIsAQuery ==
    ASSUME NEW r \in Requests, NEW n \in Nat
    PROVE  Numbered(r, n) \in Query /\ Numbered(r, n).number = n
<1>1. r \in AnyRequest
  <2>1. \A function \in Nat : \A addresses, numbers \in SUBSET Nat : \A broadcast \in BOOLEAN :
            Request(function, addresses, numbers, broadcast) \subseteq AnyRequest
    BY Zenon DEF Request, AnyRequest
  <2>2. /\ Registers \in SUBSET Nat /\ {UT_BITS_ADDRESS} \in SUBSET Nat
        /\ {1, UT_REGISTERS_NB_SPECIAL, UT_REGISTERS_NB_MAX} \in SUBSET Nat
        /\ {1, UT_REGISTERS_NB_SPECIAL} \in SUBSET Nat /\ {1} \in SUBSET Nat
        /\ 3 \in Nat /\ 5 \in Nat
    BY DEF Registers, UT_REGISTERS_ADDRESS, UT_REGISTERS_NB_MAX, UT_BITS_ADDRESS,
       UT_REGISTERS_ADDRESS_SPECIAL, UT_REGISTERS_ADDRESS_BYTE_SLEEP_5_MS,
       UT_REGISTERS_NB_SPECIAL
  <2> QED
    BY <2>1, <2>2, Zenon DEF Requests
<1> QED
  BY <1>1, ConstantsAreNumbers DEF Numbered, Query

LEMMA FrameIsAReply ==
    ASSUME query \in Query, NEW kind \in Kinds, NEW tid \in Int, NEW nb \in Nat
    PROVE  Frame(kind, tid, nb) \in Reply /\ Frame(kind, tid, nb).of = query.number
  BY DEF Frame, Reply, Query

LEMMA CopiedTidIsANumber == query \in Query => CopiedTid \in Int
  BY DEF Query, CopiedTid

LEMMA RepliesAreNumbered ==
    TypeInv => taken \in Nat /\ \A i \in 1..Len(replies) : replies[i].of \in Nat
<1> SUFFICES ASSUME TypeInv
             PROVE  taken \in Nat /\ \A i \in 1..Len(replies) : replies[i].of \in Nat
  OBVIOUS
<1>1. \A x \in Reply : x.of \in Nat
  BY DEF Reply
<1>2. \A i \in 1..Len(replies) : replies[i] \in Reply
  BY DEF TypeInv
<1> QED
  BY <1>1, <1>2, ConstantsAreNumbers DEF TypeInv

LEMMA AnsweredStays == UNCHANGED replies => \A n : Answered(n)' <=> Answered(n)
  BY DEF Answered

\* A reply to the request in service keeps the order, and the server goes back
\* to receive; without a connection it may also stop.
LEMMA SendKeepsInv ==
    ASSUME Inv, server \in Serving,
           NEW kind \in Kinds, NEW tid \in Int, NEW nb \in Nat,
           NEW next \in {"receive", "quit"},
           Send(Frame(kind, tid, nb), "receive", next),
           link = "up" /\ server = "bytes" => sentBytes' = 0,
           sentBytes' \in {0, sentBytes},
           UNCHANGED <<port, link, inbox, query, sent, broadcasts, taken>>
    PROVE  Inv'
<1>1. Frame(kind, tid, nb) \in Reply /\ Frame(kind, tid, nb).of = taken
  BY FrameIsAReply DEF Inv, TypeInv, NumbersInv
<1>2. NumbersInv'
  <2>1. InService = 1 /\ InService' = 0 /\ server' \notin Serving
    BY DEF Send, InService, Serving
  <2> QED
    BY <2>1, ConstantsAreNumbers DEF Inv, TypeInv, NumbersInv
<1>3. CASE link = "up" /\ replies' = Append(replies, Frame(kind, tid, nb))
           /\ server' = "receive"
  <2> DEFINE frame == Frame(kind, tid, nb)
  <2>1. TypeInv'
    BY <1>1, <1>3 DEF Inv, TypeInv, req_length
  <2>2. LinkInv'
    BY <1>3 DEF Inv, LinkInv, Serving
  <2>3. InService = 1 /\ InService' = 0 /\ taken \in Nat /\ replies \in Seq(Reply)
        /\ \A i \in 1..Len(replies) : replies[i].of \in Nat
    BY <1>3, RepliesAreNumbered DEF InService, Serving, Inv, TypeInv
  <2>4. frame \in Reply /\ frame.of = taken /\ replies' = Append(replies, frame)
    BY <1>1, <1>3
  <2> HIDE DEF frame
  <2>5. /\ Len(replies') = Len(replies) + 1 /\ Len(replies) \in Nat
        /\ \A i \in 1..Len(replies) : replies'[i] = replies[i]
        /\ replies'[Len(replies')] = frame
    BY <2>3, <2>4
  <2>6. \A i \in 1..Len(replies) : replies[i].of < taken
    BY <2>3 DEF Inv, RepliesInv
  <2>7. \A i \in 1..Len(replies') : i \in 1..Len(replies) \/ i = Len(replies')
    BY <2>5
  <2>8. \A i \in 1..Len(replies') : 1 <= replies'[i].of /\ replies'[i].of + InService' <= taken'
    <3>1. 1 <= taken
      BY DEF Inv, NumbersInv
    <3> QED
      BY <2>3, <2>4, <2>5, <2>6, <2>7, <3>1 DEF Inv, RepliesInv
  <2>9. \A i, j \in 1..Len(replies') : i < j => replies'[i].of < replies'[j].of
    <3> SUFFICES ASSUME NEW i \in 1..Len(replies'), NEW j \in 1..Len(replies'), i < j
                 PROVE  replies'[i].of < replies'[j].of
      OBVIOUS
    <3>1. i \in 1..Len(replies)
      BY <2>5
    <3>2. CASE j \in 1..Len(replies)
      BY <2>5, <3>1, <3>2 DEF Inv, RepliesInv
    <3>3. CASE j = Len(replies')
      BY <2>4, <2>5, <2>6, <3>1, <3>3
    <3> QED
      BY <2>7, <3>2, <3>3
  <2>10. \A n \in 1..taken' - InService' : Answered(n)' \/ n \in broadcasts'
    <3> SUFFICES ASSUME NEW n \in 1..taken PROVE Answered(n)' \/ n \in broadcasts'
      BY <2>3
    <3>1. CASE n = taken
      <4>1. Len(replies') \in DOMAIN replies'
        BY <2>3, <2>4, <2>5
      <4> QED
        BY <2>4, <2>5, <3>1, <4>1 DEF Answered
    <3>2. CASE n \in 1..taken - 1 /\ Answered(n)
      <4>1. PICK i \in 1..Len(replies) : replies[i].of = n
        BY <2>3, <3>2 DEF Answered
      <4>2. i \in DOMAIN replies' /\ replies'[i].of = n
        BY <2>3, <2>4, <2>5, <4>1
      <4> QED
        BY <4>2 DEF Answered
    <3>3. n \in 1..taken - 1 => Answered(n) \/ n \in broadcasts
      BY <1>3, <2>3 DEF Inv, RepliesInv
    <3> QED
      BY <2>3, <3>1, <3>2, <3>3
  <2>11. sentBytes' = 0
    BY <1>3 DEF Inv, RepliesInv
  <2>12. RepliesInv'
    BY <2>8, <2>9, <2>10, <2>11 DEF RepliesInv
  <2> QED
    BY <1>2, <2>1, <2>2, <2>12 DEF Inv
<1>4. CASE link # "up" /\ server' \in {"receive", next} /\ UNCHANGED replies
  <2>1. link = "closed"
    BY <1>4 DEF Inv, TypeInv, LinkInv
  <2>2. TypeInv'
    BY <1>4 DEF Inv, TypeInv, req_length
  <2>3. LinkInv'
    BY <1>4, <2>1 DEF Inv, LinkInv
  <2>4. RepliesInv'
    <3>1. InService' = 0 /\ InService = 1
      BY <1>4 DEF InService, Serving
    <3>2. \A i \in 1..Len(replies) : replies[i].of \in Nat
      BY RepliesAreNumbered DEF Inv
    <3> QED
      BY <1>4, <2>1, <3>1, <3>2, ConstantsAreNumbers DEF Inv, TypeInv, RepliesInv
  <2> QED
    BY <1>2, <2>2, <2>3, <2>4 DEF Inv
<1> QED
  BY <1>3, <1>4 DEF Send

\* A broadcast that modbus_reply leaves without a reply.
LEMMA SilenceKeepsInv ==
    ASSUME Inv, server \in Serving \ {"bytes"}, query.request.broadcast, server' = "receive",
           UNCHANGED <<port, link, inbox, query, sentBytes, replies, sent, broadcasts, taken>>
    PROVE  Inv'
<1>1. InService = 1 /\ InService' = 0 /\ server' \notin Serving /\ taken \in broadcasts
  BY DEF InService, Serving, Inv, NumbersInv
<1>2. TypeInv' /\ NumbersInv'
  BY <1>1, ConstantsAreNumbers DEF Inv, TypeInv, NumbersInv
<1>3. LinkInv'
  BY DEF Inv, LinkInv, Serving
<1>4. RepliesInv'
  <2>1. taken \in Nat /\ \A i \in 1..Len(replies) : replies[i].of \in Nat
    BY RepliesAreNumbered DEF Inv
  <2>2. \A n \in 1..taken : n \in 1..taken - 1 \/ n = taken
    BY <2>1
  <2>3. \A n : Answered(n)' <=> Answered(n)
    BY AnsweredStays
  <2> QED
    BY <1>1, <2>1, <2>2, <2>3 DEF Inv, RepliesInv
<1> QED
  BY <1>2, <1>3, <1>4 DEF Inv

\* A step of main that neither takes a request nor sends a frame.
LEMMA MoveKeepsInv ==
    ASSUME Inv,
           \/ server \in Serving /\ server' \in Serving
           \/ server = "start" /\ server' = "accept"
           \/ server = "accept" /\ server' = "receive"
              /\ (link # "none" \/ port # "server"),
           sentBytes' \in {0, sentBytes}, server # "bytes",
           query' \in Query, query'.number = query.number,
           query'.request.broadcast = query.request.broadcast,
           server # "start" => port' = port,
           server = "start" => port' \in {"server", port},
           UNCHANGED <<link, inbox, replies, sent, broadcasts, taken>>
    PROVE  Inv'
<1>1. TypeInv'
  BY DEF Inv, TypeInv, req_length, Serving
<1>2. NumbersInv'
  BY DEF Inv, TypeInv, NumbersInv, InService, Serving
<1>3. LinkInv'
  BY DEF Inv, TypeInv, LinkInv, Serving
<1>4. RepliesInv'
  BY AnsweredStays DEF Inv, TypeInv, RepliesInv, InService, Serving
<1> QED
  BY <1>1, <1>2, <1>3, <1>4 DEF Inv

LEMMA InvInit == Init => Inv
  BY ConstantsAreNumbers DEF Init, Inv, TypeInv, NumbersInv, LinkInv, RepliesInv,
     InService, Serving, NoQuery, Query, AnyRequest, req_length

LEMMA PeerKeepsInv == Inv /\ (Connect \/ SendRequest \/ Close) => Inv'
<1> SUFFICES ASSUME Inv, Connect \/ SendRequest \/ Close PROVE Inv'
  OBVIOUS
<1> USE DEF PeerFrame
<1>1. CASE Connect
  <2>1. server = "accept" /\ link = "none"
    BY <1>1 DEF Connect, Inv, TypeInv, LinkInv
  <2> QED
    BY <1>1, <2>1, AnsweredStays
    DEF Connect, Inv, TypeInv, NumbersInv, LinkInv, RepliesInv, InService, Serving
<1>2. CASE SendRequest
  <2>1. PICK r \in Requests :
           /\ inbox' = Append(inbox, Numbered(r, sent'))
           /\ broadcasts' = IF r.broadcast THEN broadcasts \cup {sent'} ELSE broadcasts
    BY <1>2 DEF SendRequest
  <2>2. sent' = sent + 1 /\ sent' \in Nat /\ sent' <= MaxRequests
    BY <1>2, ConstantsAreNumbers DEF SendRequest, Inv, TypeInv
  <2>3. /\ Numbered(r, sent') \in Query /\ Numbered(r, sent').number = sent'
        /\ Numbered(r, sent').request = r
    BY <2>2, NumberedIsAQuery DEF Numbered
  <2>4. /\ inbox' \in Seq(Query) /\ Len(inbox') = Len(inbox) + 1
        /\ \A i \in 1..Len(inbox) : inbox'[i] = inbox[i]
        /\ inbox'[Len(inbox) + 1] = Numbered(r, sent')
    BY <2>1, <2>3 DEF Inv, TypeInv
  <2>5. TypeInv'
    <3>1. broadcasts' \subseteq 1..sent'
      BY <2>1, <2>2, ConstantsAreNumbers DEF Inv, TypeInv
    <3> QED
      BY <1>2, <2>2, <2>4, <3>1, ConstantsAreNumbers DEF SendRequest, Inv, TypeInv
  <2>6. NumbersInv'
    <3>1. /\ taken' = taken /\ taken \in Nat /\ sent \in Nat /\ Len(inbox) \in Nat
          /\ taken + Len(inbox) = sent
          /\ \A i \in 1..Len(inbox) : inbox[i].number = taken + i
      BY <1>2, ConstantsAreNumbers DEF SendRequest, Inv, TypeInv, NumbersInv
    <3>2. taken' + Len(inbox') = sent' /\ taken' + (Len(inbox) + 1) = sent'
      BY <2>2, <2>4, <3>1
    <3>3. /\ inbox'[Len(inbox) + 1].number = taken' + (Len(inbox) + 1)
          /\ inbox'[Len(inbox) + 1].request.broadcast
                => taken' + (Len(inbox) + 1) \in broadcasts'
      BY <2>1, <2>3, <2>4, <3>2
    <3>4. ASSUME NEW i \in 1..Len(inbox')
          PROVE  /\ inbox'[i].number = taken' + i
                 /\ inbox'[i].request.broadcast => taken' + i \in broadcasts'
      <4>1. i \in 1..Len(inbox) \/ i = Len(inbox) + 1
        BY <2>4, <3>1
      <4>2. CASE i \in 1..Len(inbox)
        BY <2>1, <2>4, <3>1, <4>2 DEF Inv, NumbersInv
      <4>3. CASE i = Len(inbox) + 1
        BY <3>3, <4>3
      <4> QED
        BY <4>1, <4>2, <4>3
    <3>5. /\ query'.number <= taken'
          /\ server' \in Serving => query'.number = taken' /\ 1 <= taken'
          /\ server' \in Serving /\ query'.request.broadcast => taken' \in broadcasts'
      BY <1>2, <2>1 DEF SendRequest, Inv, NumbersInv
    <3>6. /\ \A i \in 1..Len(inbox') : inbox'[i].number = taken' + i
          /\ \A i \in 1..Len(inbox') : inbox'[i].request.broadcast => taken' + i \in broadcasts'
      BY <3>4
    <3> QED
      BY <3>2, <3>5, <3>6 DEF NumbersInv
  <2>7. LinkInv' /\ RepliesInv'
    <3>1. broadcasts \subseteq broadcasts'
      BY <2>1
    <3> QED
      BY <1>2, <3>1, AnsweredStays DEF SendRequest, Inv, LinkInv, RepliesInv, InService
  <2> QED
    BY <2>5, <2>6, <2>7 DEF Inv
<1>3. CASE Close
  BY <1>3, AnsweredStays
  DEF Close, Inv, TypeInv, NumbersInv, LinkInv, RepliesInv, InService
<1> QED
  BY <1>1, <1>2, <1>3

\* The request at the head of the inbox is the one after those taken.
LEMMA ReceiveKeepsInv == Inv /\ (Receive \/ ReceiveWithoutSocket) => Inv'
<1> SUFFICES ASSUME Inv, Receive \/ ReceiveWithoutSocket PROVE Inv'
  OBVIOUS
<1>1. CASE server = "receive" /\ server' = "handle" /\ inbox # <<>>
           /\ query' = Head(inbox) /\ inbox' = Tail(inbox) /\ taken' = taken + 1
           /\ UNCHANGED <<port, link, sentBytes, replies, sent, broadcasts>>
  <2>1. /\ Len(inbox) \in Nat /\ Len(inbox) > 0
        /\ inbox' \in Seq(Query) /\ Len(inbox') = Len(inbox) - 1
        /\ \A i \in 1..Len(inbox') : inbox'[i] = inbox[i + 1]
        /\ query' = inbox[1] /\ query' \in Query
    BY <1>1 DEF Inv, TypeInv
  <2>2. taken' \in 0..sent
    BY <1>1, <2>1 DEF Inv, TypeInv, NumbersInv
  <2>3. TypeInv'
    BY <1>1, <2>1, <2>2 DEF Inv, TypeInv, Serving
  <2>4. NumbersInv'
    <3>1. taken' + Len(inbox') = sent' /\ query'.number = taken' /\ 1 <= taken'
      <4>1. /\ taken \in Nat /\ taken' = taken + 1 /\ sent' = sent
            /\ taken + Len(inbox) = sent /\ inbox[1].number = taken + 1
        BY <1>1, <2>1, ConstantsAreNumbers DEF Inv, TypeInv, NumbersInv
      <4> QED
        BY <2>1, <4>1
    <3>2. \A i \in 1..Len(inbox') : inbox'[i].number = taken' + i
      <4>1. /\ taken \in Nat /\ taken' = taken + 1 /\ Len(inbox) \in Nat
            /\ \A i \in 1..Len(inbox) : inbox[i].number = taken + i
        BY <1>1, <2>1, ConstantsAreNumbers DEF Inv, TypeInv, NumbersInv
      <4>2. ASSUME NEW i \in 1..Len(inbox')
            PROVE  /\ i + 1 \in 1..Len(inbox) /\ inbox'[i] = inbox[i + 1]
                   /\ taken + (i + 1) = taken' + i
        <5>1. i \in Nat /\ Len(inbox') \in Nat /\ 1 <= i /\ i <= Len(inbox')
          BY <2>1
        <5> QED
          BY <2>1, <4>1, <5>1
      <4> QED
        BY <4>1, <4>2
    <3>3. /\ \A i \in 1..Len(inbox') : inbox'[i].request.broadcast => taken' + i \in broadcasts'
          /\ query'.request.broadcast => taken' \in broadcasts'
      <4>1. /\ taken \in Nat /\ taken' = taken + 1 /\ Len(inbox) \in Nat
            /\ \A i \in 1..Len(inbox) : inbox[i].request.broadcast => taken + i \in broadcasts
        BY <1>1, <2>1, ConstantsAreNumbers DEF Inv, TypeInv, NumbersInv
      <4>2. ASSUME NEW i \in 1..Len(inbox')
            PROVE  /\ i + 1 \in 1..Len(inbox) /\ inbox'[i] = inbox[i + 1]
                   /\ taken + (i + 1) = taken' + i
        BY <2>1, <4>1
      <4>3. 1 \in 1..Len(inbox)
        BY <2>1
      <4> QED
        BY <1>1, <2>1, <4>1, <4>2, <4>3
    <3> QED
      BY <1>1, <3>1, <3>2, <3>3 DEF Inv, TypeInv, NumbersInv
  <2>5. LinkInv' /\ RepliesInv'
    <3>1. taken \in Nat /\ taken' - InService' = taken - InService
      BY <1>1, ConstantsAreNumbers DEF Inv, TypeInv, InService, Serving
    <3>2. InService = 0 /\ InService' = 1
      BY <1>1 DEF InService, Serving
    <3>3. \A i \in 1..Len(replies) : replies[i].of \in Nat
      BY RepliesAreNumbered DEF Inv
    <3> QED
      BY <1>1, <2>2, <3>1, <3>2, <3>3, AnsweredStays
      DEF Inv, TypeInv, LinkInv, RepliesInv, Serving
  <2> QED
    BY <2>3, <2>4, <2>5 DEF Inv
<1>2. CASE server = "receive" /\ server' = "quit" /\ link # "up"
           /\ UNCHANGED <<port, link, inbox, query, sentBytes, replies, sent, broadcasts,
                          taken>>
  BY <1>2 DEF Inv, TypeInv, NumbersInv, LinkInv, RepliesInv, InService, Serving
<1> QED
  BY <1>1, <1>2 DEF Receive, ReceiveWithoutSocket, At

LEMMA SendByteKeepsInv == Inv /\ SendByte => Inv'
<1> SUFFICES ASSUME Inv, SendByte PROVE Inv'
  OBVIOUS
<1>1. CASE link = "up" /\ sentBytes + 1 < req_length
           /\ sentBytes' = sentBytes + 1 /\ UNCHANGED <<server, replies>>
  <2>1. TypeInv'
    BY <1>1 DEF SendByte, Inv, TypeInv, req_length
  <2>2. NumbersInv' /\ LinkInv'
    BY <1>1 DEF SendByte, Inv, NumbersInv, LinkInv
  <2>3. RepliesInv'
    BY <1>1, AnsweredStays DEF SendByte, Inv, RepliesInv, InService
  <2> QED
    BY <2>1, <2>2, <2>3 DEF Inv
<1>2. CASE link = "up" /\ sentBytes + 1 = req_length /\ sentBytes' = 0
           /\ replies' = Append(replies, Frame("value", CopiedTid, 1))
           /\ server' = "receive"
  <2>1. CopiedTid \in Int /\ "value" \in Kinds /\ 1 \in Nat /\ server \in Serving
    BY <1>2, CopiedTidIsANumber DEF SendByte, Inv, TypeInv, Kinds, Serving
  <2>2. Send(Frame("value", CopiedTid, 1), "receive", "receive")
    BY <1>2 DEF Send
  <2> QED
    BY <1>2, <2>1, <2>2, SendKeepsInv DEF SendByte
<1>3. CASE link # "up" /\ server' = "receive" /\ UNCHANGED <<sentBytes, replies>>
  <2>1. link = "closed" /\ server \in Serving
    BY <1>3 DEF SendByte, Inv, TypeInv, LinkInv, Serving
  <2>2. TypeInv' /\ NumbersInv' /\ LinkInv'
    BY <1>3, <2>1 DEF SendByte, Inv, TypeInv, NumbersInv, LinkInv, Serving
  <2>3. RepliesInv'
    <3>1. InService = 1 /\ InService' = 0
      BY <1>3, <2>1 DEF InService, Serving
    <3> QED
      BY <1>3, <2>1, <3>1, RepliesAreNumbered DEF SendByte, Inv, RepliesInv
  <2> QED
    BY <2>2, <2>3 DEF Inv
<1> QED
  BY <1>1, <1>2, <1>3 DEF SendByte

LEMMA ServerKeepsInv == Inv /\ ServerStep => Inv'
<1> SUFFICES ASSUME Inv, ServerStep PROVE Inv'
  OBVIOUS
<1>1. query \in Query /\ query.tid \in Int /\ query.request.nb \in Nat
      /\ 0 \in Nat /\ 0 \in Int
  BY DEF Inv, TypeInv, Query, AnyRequest
<1>2. CASE Listen
  <2>1. server = "start" /\ server' = "accept" /\ port' \in {"server", port}
    BY <1>2 DEF Listen, At
  <2> QED
    BY <1>1, <1>2, <2>1, MoveKeepsInv DEF Listen
<1>3. CASE Accept
  BY <1>1, <1>3, MoveKeepsInv DEF Accept, At
<1>4. CASE Receive
  BY <1>4, ReceiveKeepsInv
<1>5. CASE SetIncorrectNb
  <2>1. /\ query' \in Query /\ query'.number = query.number
        /\ query'.request.broadcast = query.request.broadcast
    BY <1>1, <1>5 DEF SetIncorrectNb, Query, AnyRequest, UT_REGISTERS_NB_SPECIAL
  <2> QED
    BY <1>5, <2>1, MoveKeepsInv DEF SetIncorrectNb, At, Serving
<1>6. CASE ReplyException
  <2>1. Send(Frame("busy", query.tid, 0), "receive", "receive") /\ server \in Serving
        /\ "busy" \in Kinds
    BY <1>6 DEF ReplyException, Serving, Kinds
  <2> QED
    BY <1>1, <1>6, <2>1, SendKeepsInv DEF ReplyException
<1>7. CASE ReplyInvalidTid
  <2>1. Send(Frame("invalidTid", 0, 0), "receive", "receive") /\ server \in Serving
        /\ "invalidTid" \in Kinds
    BY <1>7 DEF ReplyInvalidTid, Serving, Kinds
  <2> QED
    BY <1>1, <1>7, <2>1, SendKeepsInv DEF ReplyInvalidTid
<1>8. CASE Sleep500ms \/ Wake \/ StartBytes \/ NotSpecial
  BY <1>1, <1>8, MoveKeepsInv DEF Sleep500ms, Wake, StartBytes, NotSpecial, At, Serving
<1>9. CASE SendByte
  BY <1>9, SendByteKeepsInv
<1>10. CASE modbus_reply
  <2>1. server \in Serving \ {"bytes"}
        /\ UNCHANGED <<port, link, inbox, query, sentBytes, sent, broadcasts, taken>>
    BY <1>10 DEF modbus_reply, Serving
  <2>2. CASE query.request.broadcast /\ server' = "receive" /\ UNCHANGED replies
    BY <2>1, <2>2, SilenceKeepsInv
  <2>3. CASE \E kind \in Kinds :
                Send(Frame(kind, query.tid, query.request.nb), "receive", "quit")
    BY <1>1, <2>1, <2>3, SendKeepsInv
  <2>4. \/ query.request.broadcast /\ server' = "receive" /\ UNCHANGED replies
        \/ \E kind \in Kinds :
              Send(Frame(kind, query.tid, query.request.nb), "receive", "quit")
    BY <1>10, Zenon DEF modbus_reply, Kinds
  <2> QED
    BY <2>2, <2>3, <2>4
<1>11. CASE Quit \/ MappingFails
  BY <1>11, AnsweredStays
  DEF Quit, MappingFails, At, Inv, TypeInv, NumbersInv, LinkInv, RepliesInv, InService,
      Serving
<1> QED
  BY <1>2, <1>3, <1>4, <1>5, <1>6, <1>7, <1>8, <1>9, <1>10, <1>11 DEF ServerStep

THEOREM Counting == Spec => []Inv
<1>1. Inv /\ [Next]_vars => Inv'
  <2> SUFFICES ASSUME Inv, [Next]_vars PROVE Inv'
    OBVIOUS
  <2>1. CASE UNCHANGED vars
    BY <2>1, AnsweredStays DEF vars, Inv, TypeInv, NumbersInv, LinkInv, RepliesInv, InService
  <2> QED
    BY <2>1, PeerKeepsInv, ServerKeepsInv, ReceiveKeepsInv DEF Next
<1> QED
  BY <1>1, InvInit, PTL DEF Spec

\* Every variable keeps its type, whatever the peer sends and for however long.
THEOREM TypeCorrect == Spec => []TypeOK
<1>1. Inv => TypeOK
  <2> SUFFICES ASSUME Inv PROVE TypeOK
    OBVIOUS
  <2>1. /\ Len(inbox) \in Nat /\ query.number \in Nat /\ taken \in Nat /\ sent \in Nat
        /\ taken + Len(inbox) = sent /\ query.number <= taken
        /\ taken <= sent /\ sent <= MaxRequests
    BY ConstantsAreNumbers DEF Inv, TypeInv, NumbersInv, Query
  <2>2. Len(inbox) <= MaxRequests /\ query.number \in 0..MaxRequests
    BY <2>1, ConstantsAreNumbers
  <2>3. \A i \in DOMAIN replies : replies[i].kind \in Kinds
    <3>1. \A i \in DOMAIN replies : replies[i] \in Reply
      BY DEF Inv, TypeInv
    <3>2. \A r \in Reply : r.kind \in Kinds
      BY DEF Reply
    <3> QED
      BY <3>1, <3>2
  <2> QED
    BY <2>2, <2>3 DEF Inv, TypeInv, TypeOK, Serving
<1> QED
  BY <1>1, Counting, PTL

\* main of server.c: requests sent without waiting are answered in their order
\* and none of them twice, through every special reply and every lost connection.
THEOREM RepliesAreInOrder == Spec => []OneReplyInOrder
<1>1. Inv => OneReplyInOrder
  BY DEF Inv, TypeInv, RepliesInv, OneReplyInOrder
<1> QED
  BY <1>1, Counting, PTL

\* main of server.c: while the peer is there, the next request is read only
\* when the replies before it are out to the last byte, and only a broadcast is
\* ever left without one.
THEOREM FramesAreWhole == Spec => []WholeFrames
<1>1. Inv => WholeFrames
  BY DEF Inv, TypeInv, RepliesInv, WholeFrames, InService, Serving
<1> QED
  BY <1>1, Counting, PTL

(***************************************************************************)
(* The ids: a request carries the one of its number from the peer's socket *)
(* to the reply, where the reply that goes out byte by byte keeps only the *)
(* low byte of it.                                                         *)
(***************************************************************************)
TidOf(number) == FirstTid + number - 1

NamesIts(reply, number) ==
    \/ reply.kind = "invalidTid" \/ reply.tid = TidOf(number)
    \/ reply.kind = "value" /\ reply.nb = 1 /\ reply.tid = TidOf(number) % 256

NamesInv ==
    /\ \A i \in 1..Len(inbox) : inbox[i].tid = TidOf(taken + i)
    /\ server \in Serving => query.tid = TidOf(taken)
    /\ \A i \in 1..Len(replies) : NamesIts(replies[i], replies[i].of)

\* A frame that names the request in service may be sent.
LEMMA SendKeepsNames ==
    ASSUME Inv, NamesInv, server \in Serving,
           NEW kind \in Kinds, NEW tid \in Int, NEW nb \in Nat, NEW next, NEW afterFailure,
           \/ kind = "invalidTid" \/ tid = TidOf(taken)
           \/ kind = "value" /\ nb = 1 /\ tid = TidOf(taken) % 256,
           Send(Frame(kind, tid, nb), next, afterFailure),
           next \notin Serving, afterFailure \notin Serving,
           UNCHANGED <<inbox, query, taken>>
    PROVE  NamesInv'
<1>1. /\ Frame(kind, tid, nb) \in Reply
      /\ NamesIts(Frame(kind, tid, nb), Frame(kind, tid, nb).of)
  <2>1. /\ Frame(kind, tid, nb).kind = kind /\ Frame(kind, tid, nb).tid = tid
        /\ Frame(kind, tid, nb).nb = nb
    BY DEF Frame
  <2> QED
    BY <2>1, FrameIsAReply DEF Inv, TypeInv, NumbersInv, NamesIts
<1>2. \A i \in 1..Len(inbox') : inbox'[i].tid = TidOf(taken' + i)
  BY DEF NamesInv
<1>3. server' \notin Serving
  BY DEF Send
<1>4. \A i \in 1..Len(replies') : NamesIts(replies'[i], replies'[i].of)
  <2> DEFINE frame == Frame(kind, tid, nb)
  <2>1. CASE link = "up" /\ replies' = Append(replies, frame)
    <3>1. frame \in Reply /\ NamesIts(frame, frame.of)
      BY <1>1
    <3> HIDE DEF frame
    <3>2. /\ replies \in Seq(Reply)
          /\ \A i \in 1..Len(replies) : NamesIts(replies[i], replies[i].of)
      BY DEF Inv, TypeInv, NamesInv
    <3>3. ASSUME NEW i \in 1..Len(replies')
          PROVE  (i \in 1..Len(replies) /\ replies'[i] = replies[i]) \/ replies'[i] = frame
      BY <2>1, <3>1, <3>2
    <3> QED
      BY <3>1, <3>2, <3>3
  <2>2. CASE UNCHANGED replies
    BY <2>2 DEF NamesInv
  <2> QED
    BY <2>1, <2>2 DEF Send
<1> QED
  BY <1>2, <1>3, <1>4 DEF NamesInv

\* A step that leaves the inbox and the replies alone.
LEMMA MoveKeepsNames ==
    ASSUME NamesInv, UNCHANGED <<inbox, replies, taken>>,
           server' \in Serving => server \in Serving /\ query'.tid = query.tid
    PROVE  NamesInv'
  BY DEF NamesInv

LEMMA PeerKeepsNames == Inv /\ NamesInv /\ (Connect \/ SendRequest \/ Close) => NamesInv'
<1> SUFFICES ASSUME Inv, NamesInv, Connect \/ SendRequest \/ Close PROVE NamesInv'
  OBVIOUS
<1>1. CASE Connect \/ Close
  BY <1>1, MoveKeepsNames DEF Connect, Close, PeerFrame
<1>2. CASE SendRequest
  <2>1. PICK r \in Requests : inbox' = Append(inbox, Numbered(r, sent'))
    BY <1>2 DEF SendRequest
  <2>2. /\ sent' = sent + 1 /\ sent' \in Nat /\ taken' = taken /\ taken \in Nat
        /\ inbox \in Seq(Query) /\ taken + Len(inbox) = sent
    BY <1>2, ConstantsAreNumbers DEF SendRequest, PeerFrame, Inv, TypeInv, NumbersInv
  <2>3. Numbered(r, sent') \in Query /\ Numbered(r, sent').tid = TidOf(sent')
    BY <2>2, NumberedIsAQuery DEF Numbered, TidOf
  <2>4. /\ Len(inbox') = Len(inbox) + 1
        /\ \A i \in 1..Len(inbox) : inbox'[i] = inbox[i]
        /\ inbox'[Len(inbox) + 1] = Numbered(r, sent')
    BY <2>1, <2>2, <2>3
  <2>5. \A i \in 1..Len(inbox') : inbox'[i].tid = TidOf(taken' + i)
    <3>1. ASSUME NEW i \in 1..Len(inbox') PROVE i \in 1..Len(inbox) \/ i = Len(inbox) + 1
      BY <2>2, <2>4
    <3>2. taken' + (Len(inbox) + 1) = sent'
      BY <2>2
    <3> QED
      BY <2>2, <2>3, <2>4, <3>1, <3>2 DEF NamesInv
  <2>6. UNCHANGED <<server, query, replies, taken>>
    BY <1>2 DEF SendRequest, PeerFrame
  <2> QED
    BY <2>5, <2>6 DEF NamesInv
<1> QED
  BY <1>1, <1>2

LEMMA ReceiveKeepsNames ==
    Inv /\ NamesInv /\ (Receive \/ ReceiveWithoutSocket) => NamesInv'
<1> SUFFICES ASSUME Inv, NamesInv, Receive \/ ReceiveWithoutSocket PROVE NamesInv'
  OBVIOUS
<1>1. CASE inbox # <<>> /\ query' = Head(inbox) /\ inbox' = Tail(inbox)
           /\ taken' = taken + 1 /\ UNCHANGED replies
  <2>1. /\ Len(inbox) \in Nat /\ Len(inbox) > 0 /\ taken \in Nat
        /\ Len(inbox') = Len(inbox) - 1 /\ query' = inbox[1]
        /\ \A i \in 1..Len(inbox') : inbox'[i] = inbox[i + 1]
    BY <1>1, ConstantsAreNumbers DEF Inv, TypeInv
  <2>2. query'.tid = TidOf(taken')
    BY <1>1, <2>1 DEF NamesInv
  <2>3. \A i \in 1..Len(inbox') : inbox'[i].tid = TidOf(taken' + i)
    <3>1. ASSUME NEW i \in 1..Len(inbox')
          PROVE  i + 1 \in 1..Len(inbox) /\ taken + (i + 1) = taken' + i
      BY <1>1, <2>1
    <3> QED
      BY <2>1, <3>1 DEF NamesInv
  <2> QED
    BY <1>1, <2>2, <2>3 DEF NamesInv
<1>2. CASE server' = "quit" /\ UNCHANGED <<inbox, query, replies, taken>>
  BY <1>2, MoveKeepsNames DEF Serving
<1> QED
  BY <1>1, <1>2 DEF Receive, ReceiveWithoutSocket, At

LEMMA ServerKeepsNames == Inv /\ NamesInv /\ ServerStep => NamesInv'
<1> SUFFICES ASSUME Inv, NamesInv, ServerStep PROVE NamesInv'
  OBVIOUS
<1>1. /\ query.tid \in Int /\ query.request.nb \in Nat
      /\ 0 \in Nat /\ 0 \in Int /\ 1 \in Nat
      /\ "receive" \notin Serving /\ "quit" \notin Serving
  BY DEF Inv, TypeInv, Query, AnyRequest, Serving
<1>2. CASE MappingFails \/ Listen \/ Accept \/ Sleep500ms \/ Wake \/ StartBytes
           \/ NotSpecial \/ Quit
  BY <1>2, MoveKeepsNames
  DEF MappingFails, Listen, Accept, Sleep500ms, Wake, StartBytes, NotSpecial, Quit, At,
      Serving
<1>3. CASE Receive
  BY <1>3, ReceiveKeepsNames
<1>4. CASE SetIncorrectNb
  <2>1. query'.tid = query.tid
    BY <1>4 DEF SetIncorrectNb, Inv, TypeInv, Query
  <2> QED
    BY <1>4, <2>1, MoveKeepsNames DEF SetIncorrectNb, At, Serving
<1>5. CASE ReplyException
  <2>1. /\ Send(Frame("busy", query.tid, 0), "receive", "receive") /\ server \in Serving
        /\ "busy" \in Kinds /\ query.tid = TidOf(taken)
    BY <1>5 DEF ReplyException, Serving, Kinds, NamesInv
  <2> QED
    BY <1>1, <1>5, <2>1, SendKeepsNames DEF ReplyException
<1>6. CASE ReplyInvalidTid
  <2>1. /\ Send(Frame("invalidTid", 0, 0), "receive", "receive")
        /\ server \in Serving /\ "invalidTid" \in Kinds
    BY <1>6 DEF ReplyInvalidTid, Serving, Kinds
  <2> QED
    BY <1>1, <1>6, <2>1, SendKeepsNames DEF ReplyInvalidTid
<1>7. CASE SendByte
  <2>1. CASE server' = "receive" /\ link = "up"
             /\ replies' = Append(replies, Frame("value", CopiedTid, 1))
    <3>1. Send(Frame("value", CopiedTid, 1), "receive", "receive") /\ "value" \in Kinds
      BY <2>1 DEF Send, Kinds
    <3>2. server \in Serving /\ CopiedTid = TidOf(taken) % 256 /\ CopiedTid \in Int
      BY <1>7, CopiedTidIsANumber DEF SendByte, Serving, NamesInv, CopiedTid, Inv, TypeInv
    <3> QED
      BY <1>1, <1>7, <3>1, <3>2, SendKeepsNames DEF SendByte
  <2>2. CASE UNCHANGED replies
    BY <1>7, <2>2, MoveKeepsNames DEF SendByte, Serving
  <2> QED
    BY <1>7, <2>1, <2>2 DEF SendByte
<1>8. CASE modbus_reply
  <2>1. /\ server \in Serving /\ query.tid = TidOf(taken)
        /\ UNCHANGED <<inbox, query, taken>>
    BY <1>8 DEF modbus_reply, Serving, NamesInv
  <2>2. CASE server' = "receive" /\ UNCHANGED replies
    BY <1>1, <2>1, <2>2, MoveKeepsNames
  <2>3. CASE \E kind \in Kinds :
                Send(Frame(kind, query.tid, query.request.nb), "receive", "quit")
    BY <1>1, <2>1, <2>3, SendKeepsNames
  <2>4. \/ server' = "receive" /\ UNCHANGED replies
        \/ \E kind \in Kinds :
              Send(Frame(kind, query.tid, query.request.nb), "receive", "quit")
    BY <1>8, Zenon DEF modbus_reply, Kinds
  <2> QED
    BY <2>2, <2>3, <2>4
<1> QED
  BY <1>2, <1>3, <1>4, <1>5, <1>6, <1>7, <1>8 DEF ServerStep

\* main of server.c, for every first transaction id and any number of requests:
\* but for the reply that means to name another, a reply names its request; the
\* one-register value that goes out byte by byte, at least the low byte of its id.
THEOREM Naming == Spec => [](Inv /\ NamesInv)
<1>1. Init => NamesInv
  BY DEF Init, NamesInv, Serving
<1>2. Inv /\ NamesInv /\ [Next]_vars => NamesInv'
  <2>1. NamesInv /\ UNCHANGED vars => NamesInv'
    BY DEF vars, NamesInv
  <2> QED
    BY <2>1, PeerKeepsNames, ServerKeepsNames, ReceiveKeepsNames DEF Next
<1> QED
  BY <1>1, <1>2, Counting, PTL DEF Spec

\* "Copy TID" (server.c, line 176): while the peer's ids fit in a byte, every
\* reply carries its request's id, but for the one that is meant not to.  From
\* 256 on the copied id loses its high byte, so the theorem ends there.
THEOREM RepliesNameTheirs ==
    FirstTid + MaxRequests <= 256 => (Spec => []RepliesNameTheirRequest)
<1> SUFFICES ASSUME FirstTid + MaxRequests <= 256
             PROVE  Spec => []RepliesNameTheirRequest
  OBVIOUS
<1>1. Inv /\ NamesInv => RepliesNameTheirRequest
  <2> SUFFICES ASSUME Inv, NamesInv, NEW i \in DOMAIN replies
               PROVE  replies[i].tid = FirstTid + replies[i].of - 1
                      \/ replies[i].kind = "invalidTid"
    BY DEF RepliesNameTheirRequest
  <2> DEFINE n == replies[i].of
  <2>1. NamesIts(replies[i], n) /\ n \in Nat
    BY RepliesAreNumbered DEF Inv, TypeInv, NamesInv
  <2>2. n <= taken
    BY <2>1, RepliesAreNumbered DEF Inv, TypeInv, RepliesInv, InService
  <2>3. 1 <= n
    BY DEF Inv, TypeInv, RepliesInv
  <2>4. TidOf(n) \in 0..255
    <3>1. n <= MaxRequests
      <4>1. taken <= sent /\ sent <= MaxRequests /\ taken \in Nat /\ sent \in Nat
        BY ConstantsAreNumbers DEF Inv, TypeInv
      <4> QED
        BY <2>1, <2>2, <4>1, ConstantsAreNumbers
    <3> HIDE DEF n
    <3> QED
      BY <2>1, <2>3, <3>1, ConstantsAreNumbers DEF TidOf
  <2>5. TidOf(n) % 256 = TidOf(n)
    BY <2>4
  <2> QED
    BY <2>1, <2>5 DEF NamesIts, TidOf
<1> QED
  BY <1>1, Naming, PTL

=============================================================================
