---------------------------- MODULE ModbusServer ----------------------------
(***************************************************************************)
(* main of server.c with a peer that sends any requests, several at once   *)
(* if it likes, and goes away at any time.  The special replies to reads   *)
(* of holding registers, with which the program tests its clients, are all *)
(* here; what modbus_reply does for coils is ModbusExchange.               *)
(*                                                                         *)
(* A request may be a broadcast.  libmodbus, which is not in the           *)
(* repository, gives it no reply (client.c, lines 526-532); the replies    *)
(* that server.c sends without modbus_reply do not look at the unit id.    *)
(*                                                                         *)
(* Left out: the RTU and TCP_PI backends (use_backend is TCP), and with    *)
(* them filtered requests and bad checksums, and a socket that             *)
(* modbus_get_socket does not know.                                        *)
(***************************************************************************)
EXTENDS Integers, Sequences

CONSTANTS FirstTid,     \* the transaction id of the peer's first request
          MaxRequests   \* requests it sends

ASSUME ModbusServerAssumption ==
    FirstTid \in 0..65535 /\ MaxRequests \in Nat /\ FirstTid + MaxRequests <= 65536

UT_REGISTERS_ADDRESS == 352                      \* 0x160
UT_REGISTERS_NB_MAX == 32
UT_REGISTERS_ADDRESS_SPECIAL == 368              \* 0x170
UT_REGISTERS_ADDRESS_INVALID_TID_OR_SLAVE == 369
UT_REGISTERS_ADDRESS_SLEEP_500_MS == 370
UT_REGISTERS_ADDRESS_BYTE_SLEEP_5_MS == 371
UT_REGISTERS_NB_SPECIAL == 2
req_length == 11

VARIABLES
    server,   \* where main is
    port,     \* who listens at the port
    link,     \* the connection
    inbox,    \* requests on their way
    query,    \* the request being handled
    sentBytes,\* bytes sent of a reply that goes out byte by byte
    replies,  \* the whole frames sent
    sent,     \* history: requests the peer has sent
    broadcasts, \* history: the numbers of those that are broadcasts
    taken     \* history: requests received

vars == <<server, port, link, inbox, query, sentBytes, replies, sent, broadcasts, taken>>

UT_BITS_ADDRESS == 19
Registers == {UT_REGISTERS_ADDRESS} \cup
             UT_REGISTERS_ADDRESS_SPECIAL..UT_REGISTERS_ADDRESS_BYTE_SLEEP_5_MS
Request(function, addresses, numbers, broadcast) ==
    [function : {function}, address : addresses, nb : numbers, broadcast : {broadcast}]
Requests ==
    Request(3, Registers, {1, UT_REGISTERS_NB_SPECIAL, UT_REGISTERS_NB_MAX}, FALSE)
    \cup Request(3, Registers, {1, UT_REGISTERS_NB_SPECIAL}, TRUE)
    \cup Request(5, {UT_BITS_ADDRESS}, {1}, FALSE)
    \cup Request(5, {UT_BITS_ADDRESS}, {1}, TRUE)
Numbered(r, n) == [request |-> r, number |-> n, tid |-> FirstTid + n - 1]
NoQuery ==
    [request |-> [function |-> 0, nb |-> 0, address |-> 0, broadcast |-> FALSE],
     number |-> 0, tid |-> 0]
Kinds == {"value", "exception", "busy", "invalidTid"}

TypeOK ==
    /\ server \in {"start", "accept", "receive", "handle", "asleep", "reply",
                   "bytes", "quit", "done"}
    /\ port \in {"free", "server", "other"}
    /\ link \in {"none", "up", "closed"}
    /\ Len(inbox) <= MaxRequests /\ sent \in 0..MaxRequests /\ taken \in 0..sent
    /\ query.number \in 0..MaxRequests
    /\ sentBytes \in 0..req_length-1
    /\ \A i \in DOMAIN replies : replies[i].kind \in Kinds
    /\ broadcasts \subseteq 1..sent

Init ==
    /\ server = "start" /\ port \in {"free", "other"} /\ link = "none"
    /\ inbox = <<>> /\ query = NoQuery /\ sentBytes = 0 /\ replies = <<>>
    /\ sent = 0 /\ broadcasts = {} /\ taken = 0

At(here, next) == server = here /\ server' = next

(***************************************************************************)
(* The peer                                                                *)
(***************************************************************************)
PeerFrame == UNCHANGED <<server, port, query, sentBytes, replies, taken>>

Connect ==
    /\ port = "server" /\ link = "none"
    /\ link' = "up"
    /\ UNCHANGED <<inbox, sent, broadcasts>> /\ PeerFrame

SendRequest ==
    /\ link = "up" /\ sent < MaxRequests
    /\ sent' = sent + 1
    /\ \E r \in Requests :
          /\ inbox' = Append(inbox, Numbered(r, sent'))
          /\ broadcasts' = IF r.broadcast THEN broadcasts \cup {sent'} ELSE broadcasts
    /\ UNCHANGED link /\ PeerFrame

Close ==
    /\ link = "up"
    /\ link' = "closed"
    /\ UNCHANGED <<inbox, sent, broadcasts>> /\ PeerFrame

(***************************************************************************)
(* main of server.c                                                        *)
(***************************************************************************)
\* Without memory for the mapping main returns.
MappingFails ==
    /\ At("start", "done")
    /\ UNCHANGED <<port, link, inbox, query, sentBytes, replies, sent, broadcasts, taken>>

\* The result of modbus_tcp_listen is not looked at: if the port is taken, s
\* is -1 and main goes on with it.
Listen ==
    /\ At("start", "accept")
    /\ port' = IF port = "free" THEN "server" ELSE port
    /\ UNCHANGED <<link, inbox, query, sentBytes, replies, sent, broadcasts, taken>>

\* Waits for a connection; on a socket of -1 accept fails at once, and its
\* result is not looked at either.
Accept ==
    /\ At("accept", "receive")
    /\ link # "none" \/ port # "server"
    /\ UNCHANGED <<port, link, inbox, query, sentBytes, replies, sent, broadcasts, taken>>

\* Mutant of Receive: the loop goes on when modbus_receive has failed.
ReceiveOnly ==
    /\ At("receive", "handle")
    /\ inbox # <<>>
    /\ query' = Head(inbox) /\ inbox' = Tail(inbox) /\ taken' = taken + 1
    /\ UNCHANGED <<port, link, sentBytes, replies, sent, broadcasts>>

\* A request, or -1 once the connection is closed; a reset may overtake what
\* is still in the inbox.
Receive ==
    \/ /\ At("receive", "handle")
       /\ inbox # <<>>
       /\ query' = Head(inbox) /\ inbox' = Tail(inbox) /\ taken' = taken + 1
       /\ UNCHANGED <<port, link, sentBytes, replies, sent, broadcasts>>
    \/ /\ At("receive", "quit")
       /\ link = "closed"
       /\ UNCHANGED <<port, link, inbox, query, sentBytes, replies, sent, broadcasts,
                      taken>>

\* Without a connection modbus_receive runs on a socket of -1.  libmodbus may
\* find out, or wait for input that never comes: nothing makes this step happen.
ReceiveWithoutSocket ==
    /\ At("receive", "quit")
    /\ link = "none"
    /\ UNCHANGED <<port, link, inbox, query, sentBytes, replies, sent, broadcasts, taken>>

Frame(kind, tid, nb) ==
    [kind |-> kind, tid |-> tid, nb |-> nb, of |-> query.number]

\* A frame goes out whole; on a closed connection it is lost, or send fails.
Send(frame, next, afterFailure) ==
    \/ /\ link = "up"
       /\ replies' = Append(replies, frame)
       /\ server' = next
    \/ /\ link # "up"
       /\ server' \in {next, afterFailure}
       /\ UNCHANGED replies

Asks(address) == query.request.address = address
Special == query.request.function = 3
NbSpecial == Special /\ query.request.nb = UT_REGISTERS_NB_SPECIAL

\* "Set an incorrect number of values": one less than was asked for.
SetIncorrectNb ==
    /\ At("handle", "reply")
    /\ NbSpecial
    /\ query' = [query EXCEPT !.request.nb = UT_REGISTERS_NB_SPECIAL - 1]
    /\ UNCHANGED <<port, link, inbox, sentBytes, replies, sent, broadcasts, taken>>

\* Mutant of ReplyException: the continue after it is missing.
ReplyTwice ==
    /\ server = "handle"
    /\ Special /\ ~NbSpecial /\ Asks(UT_REGISTERS_ADDRESS_SPECIAL)
    /\ Send(Frame("busy", query.tid, 0), "reply", "reply")
    /\ UNCHANGED <<port, link, inbox, query, sentBytes, sent, broadcasts, taken>>

\* The result of the send is not looked at.
ReplyException ==
    /\ server = "handle"
    /\ Special /\ ~NbSpecial /\ Asks(UT_REGISTERS_ADDRESS_SPECIAL)
    /\ Send(Frame("busy", query.tid, 0), "receive", "receive")
    /\ UNCHANGED <<port, link, inbox, query, sentBytes, sent, broadcasts, taken>>

\* modbus_send_raw_request puts a header of its own before the bytes, in which
\* libmodbus leaves the transaction id 0.
ReplyInvalidTid ==
    /\ server = "handle"
    /\ Special /\ ~NbSpecial /\ Asks(UT_REGISTERS_ADDRESS_INVALID_TID_OR_SLAVE)
    /\ Send(Frame("invalidTid", 0, 0), "receive", "receive")
    /\ UNCHANGED <<port, link, inbox, query, sentBytes, sent, broadcasts, taken>>

Sleep500ms ==
    /\ At("handle", "asleep")
    /\ Special /\ ~NbSpecial /\ Asks(UT_REGISTERS_ADDRESS_SLEEP_500_MS)
    /\ UNCHANGED <<port, link, inbox, query, sentBytes, replies, sent, broadcasts, taken>>

\* Mutant of Wake: the sleep ends in a continue, as its neighbours do.
WakeWithoutReply ==
    /\ At("asleep", "receive")
    /\ UNCHANGED <<port, link, inbox, query, sentBytes, replies, sent, broadcasts, taken>>

Wake ==
    /\ At("asleep", "reply")
    /\ UNCHANGED <<port, link, inbox, query, sentBytes, replies, sent, broadcasts, taken>>

StartBytes ==
    /\ At("handle", "bytes")
    /\ Special /\ ~NbSpecial /\ Asks(UT_REGISTERS_ADDRESS_BYTE_SLEEP_5_MS)
    /\ sentBytes' = 0
    /\ UNCHANGED <<port, link, inbox, query, replies, sent, broadcasts, taken>>

NotSpecial ==
    /\ At("handle", "reply")
    /\ ~Special \/ (~NbSpecial /\ Asks(UT_REGISTERS_ADDRESS))
    /\ UNCHANGED <<port, link, inbox, query, sentBytes, replies, sent, broadcasts, taken>>

\* Mutant of CopiedTid: the template's id is sent.
TemplateTid == 28

\* req[1] = query[1]: the template's high byte is 0.
CopiedTid == query.tid % 256

\* Mutant of SendByte: the loop ends before the last byte.
SendByteButLast ==
    /\ server = "bytes" /\ link = "up"
    /\ sentBytes' = sentBytes + 1
    /\ server' = IF sentBytes' = req_length - 1 THEN "receive" ELSE "bytes"
    /\ UNCHANGED <<port, link, inbox, query, replies, sent, broadcasts, taken>>

\* Mutant of SendByte: the loop sends one byte more.
SendByteMore ==
    /\ server = "bytes" /\ link = "up"
    /\ sentBytes' = sentBytes + 1
    /\ server' = IF sentBytes' > req_length THEN "receive" ELSE "bytes"
    /\ UNCHANGED <<port, link, inbox, query, replies, sent, broadcasts, taken>>

\* One byte of the reply each 5 ms; a byte that cannot be sent ends the loop.
SendByte ==
    /\ server = "bytes"
    /\ \/ /\ link = "up" /\ sentBytes + 1 < req_length
          /\ sentBytes' = sentBytes + 1
          /\ UNCHANGED <<server, replies>>
       \/ /\ link = "up" /\ sentBytes + 1 = req_length
          /\ sentBytes' = 0
          /\ replies' = Append(replies, Frame("value", CopiedTid, 1))
          /\ server' = "receive"
       \/ /\ link # "up"
          /\ server' = "receive"
          /\ UNCHANGED <<sentBytes, replies>>
    /\ UNCHANGED <<port, link, inbox, query, sent, broadcasts, taken>>

\* modbus_reply: the registers of the mapping, or an exception; a coil request
\* is the trusted application's to answer.  -1 ends the loop, and the 0 for a
\* broadcast does not.
modbus_reply ==
    /\ server = "reply"
    /\ LET r == query.request
           mapped == r.address + r.nb <= UT_REGISTERS_ADDRESS + UT_REGISTERS_NB_MAX
       IN  \/ /\ r.broadcast
              /\ server' = "receive"
              /\ UNCHANGED replies
           \/ /\ ~r.broadcast
              /\ \E kind \in IF r.function = 5 THEN {"value", "exception"}
                             ELSE IF mapped THEN {"value"} ELSE {"exception"} :
                    Send(Frame(kind, query.tid, r.nb), "receive", "quit")
    /\ UNCHANGED <<port, link, inbox, query, sentBytes, sent, broadcasts, taken>>

\* close(s) unless listening failed; modbus_close.
Quit ==
    /\ At("quit", "done")
    /\ port' = IF port = "server" THEN "free" ELSE port
    /\ link' = IF link = "none" THEN "none" ELSE "closed"
    /\ UNCHANGED <<inbox, query, sentBytes, replies, sent, broadcasts, taken>>

ServerStep ==
    \/ MappingFails \/ Listen \/ Accept \/ Receive \/ SetIncorrectNb
    \/ ReplyException \/ ReplyInvalidTid \/ Sleep500ms \/ Wake \/ StartBytes
    \/ NotSpecial \/ SendByte \/ modbus_reply \/ Quit

Next == Connect \/ SendRequest \/ Close \/ ServerStep \/ ReceiveWithoutSocket

Spec == Init /\ [][Next]_vars

\* The server runs; the peer need not do anything, nor need a socket of -1.
FairSpec == Spec /\ WF_vars(ServerStep)

(***************************************************************************)
(* Properties                                                              *)
(***************************************************************************)
Answered(n) == \E i \in DOMAIN replies : replies[i].of = n

\* Requests sent without waiting are answered in their order and none of them
\* twice, whichever special way each of them is answered.
OneReplyInOrder ==
    \A i, j \in DOMAIN replies : i < j => replies[i].of < replies[j].of

\* While the peer is there, the next request is only read when the replies
\* before it are out to the last byte; only a broadcast may have none.
WholeFrames ==
    server = "receive" /\ link = "up" =>
        /\ sentBytes = 0
        /\ \A n \in 1..taken : Answered(n) \/ n \in broadcasts

\* "Copy TID" (server.c, line 176): every reply carries its request's id, but
\* for the one that is meant not to.
RepliesNameTheirRequest ==
    \A i \in DOMAIN replies :
        replies[i].tid = FirstTid + replies[i].of - 1 \/ replies[i].kind = "invalidTid"

\* A request received is answered, unless it is a broadcast or the peer goes
\* away meanwhile.
RequestsAnswered ==
    \A n \in 1..MaxRequests :
        taken = n ~> Answered(n) \/ n \in broadcasts \/ link = "closed"

\* The server ends when its peer is gone: it neither serves a closed connection
\* nor loops on one, whatever it was doing for the peer when that went.
ServerEnds == link = "closed" ~> server = "done"

=============================================================================
