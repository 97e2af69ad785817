--------------------------- MODULE ModbusExchange ---------------------------
(***************************************************************************)
(* One run of the Modbus client program against the Modbus server program, *)
(* both started with the same tamper mode: the client writes ON to the     *)
(* inverter status coil under a signature of the trusted application and   *)
(* reads it back, the server has the application check the one and sign    *)
(* the other.                                                              *)
(*                                                                         *)
(* The trusted application is SignedCoil, which CoilTA implements as long  *)
(* as one program uses the stored coils; here that is the server.  The     *)
(* libmodbus fork between the programs and the agent is not in the         *)
(* repository: it is modelled from the agent functions written for it and  *)
(* from what client.c expects of it.                                       *)
(*                                                                         *)
(* Three kinds of failure are kept apart: a session that is refused before *)
(* the command (the host library returns its TEEC error code), a trusted   *)
(* application that dies in it (the parameters come back as the host set   *)
(* them), and storage that fails under it without anyone being told.       *)
(***************************************************************************)
EXTENDS Integers, Sequences

CONSTANTS
    Modes,            \* the tamper modes of the run, argv[1] or 0
    Statuses,         \* what may be stored when the programs start
    AcceptedVerdicts, \* the verdicts libmodbus takes for "verified"
    TeeFaults,        \* whether sessions may be refused or die by themselves
    StorageFaults,    \* whether reads and creates may fail by themselves
    Timeouts          \* whether an answer may take more than 5 seconds

\* Any TEEC_Result but TEEC_SUCCESS, as the int the host library returns.
TEEC_ERROR == -65524

ASSUME ModbusExchangeAssumption ==
    /\ Modes \subseteq 0..3
    /\ Statuses \subseteq {"absent", "off", "on"}
    /\ 1 \in AcceptedVerdicts /\ AcceptedVerdicts \subseteq {0, 1, TEEC_ERROR}
    /\ TeeFaults \in BOOLEAN /\ StorageFaults \in BOOLEAN /\ Timeouts \in BOOLEAN

VARIABLES
    mode,                        \* the parameter both programs got
    status, op, phase, outcome,  \* the trusted application
    client,                      \* where main of client.c is
    writeRc, readRc, readOn,     \* its two results and tab_rp_bits[0]
    failed,                      \* the assertion that failed, if any
    answer,                      \* the read reply it is verifying
    server,                      \* where main of server.c is
    query,                       \* the request it is handling
    link,                        \* the TCP connection
    toServer, toClient,          \* what is on its way over it
    seen,                        \* history: statuses since the read was sent
    faulted,                     \* history: the storage calls that failed
    refused                      \* history: the server found a bad signature

taVars   == <<status, op, phase, outcome, seen, faulted>>
testVars == <<writeRc, readRc, readOn, failed, answer>>
vars == <<mode, taVars, client, testVars, server, query, link, toServer,
          toClient, refused>>

Programs == {"client", "server"}
TA == INSTANCE SignedCoil WITH Sessions <- Programs

clientTamper == mode \in {1, 3}
serverTamper == mode \in {2, 3}

(***************************************************************************)
(* Frames.  A signature is the coil value and transaction it signs; the    *)
(* bytes of one that does not verify are NoSignature.                      *)
(***************************************************************************)
NoSignature == <<>>
Tamper(tampered, signature) == IF tampered THEN NoSignature ELSE signature

WriteTid == 1
ReadTid  == 2
Frame(kind, tid, on, signature) ==
    [kind |-> kind, tid |-> tid, on |-> on, signature |-> signature]
NoFrame == Frame("none", 0, FALSE, NoSignature)
Signed(frame) == frame.signature = <<frame.on, frame.tid>>

Frames == [kind : {"none", "write", "read", "exception"}, tid : {0, WriteTid, ReadTid},
           on : BOOLEAN,
           signature : {NoSignature} \cup (BOOLEAN \X {WriteTid, ReadTid})]

TypeOK ==
    /\ mode \in 0..3
    /\ status \in {"absent", "off", "on"}
    /\ op \in [Programs -> TA!Ops \cup {TA!NoOp}]
    /\ phase \in [Programs -> {"idle", "called", "effected", "answered"}]
    /\ client \in {"connect", "write", "signing", "awaitWrite", "read",
                   "awaitRead", "verifying", "close", "exit"}
    /\ writeRc \in -1..1 /\ readRc \in -1..1 /\ readOn \in BOOLEAN
    /\ failed \in {"none", "writeRc", "readRc", "readValue"}
    /\ server \in {"start", "accept", "deaf", "receive", "invoke", "done"}
    /\ {answer, query} \subseteq Frames
    /\ link \in {"down", "listening", "up", "closed"}
    /\ toServer \in Seq(Frames) /\ toClient \in Seq(Frames)
    /\ Len(toServer) <= 2 /\ Len(toClient) <= 2
    /\ seen \subseteq {"absent", "off", "on"} /\ refused \in BOOLEAN
    /\ faulted \subseteq {"read", "create"}

Init ==
    /\ mode \in Modes
    /\ status \in Statuses
    /\ op = [p \in Programs |-> TA!NoOp]
    /\ phase = [p \in Programs |-> "idle"]
    /\ outcome = [p \in Programs |-> TA!NoOutcome]
    /\ client = "connect"
    /\ writeRc = 0 /\ readRc = 0 /\ readOn = FALSE
    /\ failed = "none"
    /\ server = "start"
    /\ answer = NoFrame /\ query = NoFrame
    /\ link = "down"
    /\ toServer = <<>> /\ toClient = <<>>
    /\ seen = {} /\ faulted = {} /\ refused = FALSE

(***************************************************************************)
(* The trusted application at work                                         *)
(***************************************************************************)
Invoke(p, kind, on, authentic) ==
    /\ TA!Call(p)
    /\ op'[p] = [kind |-> kind, mapped |-> kind \in {"read", "write"},
                 on |-> on, authentic |-> authentic]
    /\ UNCHANGED <<seen, faulted>>

Results(p) == TA!Collect(p) /\ UNCHANGED <<seen, faulted>>

\* Without a stored object the read of a get or a set panics.
Dies(p) ==
    /\ \/ TeeFaults
       \/ /\ status = "absent"
          /\ op[p].kind = "read" \/ (op[p].kind = "write" /\ op[p].authentic)
    /\ TA!Die(p)

\* What the program gets when the host library could not open a context or a
\* session: the library's return value, and none of the results.
NoSession == [TA!Dead EXCEPT !.verified = TEEC_ERROR]

SessionRefused(p) ==
    /\ TeeFaults
    /\ phase[p] = "called"
    /\ TA!Settle(p, "answered", NoSession)
    /\ UNCHANGED status

\* A storage call that failed, and which.
Faults(p) ==
    \/ /\ TA!ReadFails(p) \/ TA!WriteAfterFailedRead(p)
       /\ faulted' = faulted \cup {"read"}
    \/ /\ TA!CreateFails(p)
       /\ faulted' = faulted \cup {"create"}

Serve(p) ==
    /\ \/ /\ \/ TA!Write(p) \/ TA!Read(p) \/ TA!Judge(p) \/ TA!Answer(p)
             \/ Dies(p) \/ SessionRefused(p)
          /\ UNCHANGED faulted
       \/ Faults(p)
    /\ seen' = seen \cup {status'}
    /\ UNCHANGED <<mode, client, testVars, server, query, link, toServer,
                   toClient, refused>>

(***************************************************************************)
(* main of client.c                                                        *)
(***************************************************************************)
ClientFrame == UNCHANGED <<mode, server, query, refused>>

\* A connection refused ends the program; listen, not accept, lets it in.
Connect ==
    /\ client = "connect"
    /\ \/ link = "listening" /\ link' = "up" /\ client' = "write"
       \/ link = "down" /\ client' = "exit" /\ UNCHANGED link
    /\ UNCHANGED <<taVars, testVars, toServer, toClient>> /\ ClientFrame

\* modbus_write_bit has the agent sign the request it is about to send.
SignWrite ==
    /\ client = "write"
    /\ client' = "signing"
    /\ Invoke("client", "sign", TRUE, FALSE)
    /\ UNCHANGED <<testVars, link, toServer, toClient>> /\ ClientFrame

\* Mutant of invCtrl_signCoilValue: ON is not recognised and signed as 0.
invCtrl_signsZero ==
    /\ client = "signing"
    /\ phase["client"] = "answered"
    /\ Results("client")
    /\ client' = "awaitWrite"
    /\ toServer' = Append(toServer,
           Frame("write", WriteTid, TRUE, <<FALSE, WriteTid>>))
    /\ UNCHANGED <<testVars, link, toClient>> /\ ClientFrame

invCtrl_signCoilValue ==
    /\ client = "signing"
    /\ phase["client"] = "answered"
    /\ Results("client")
    /\ client' = "awaitWrite"
    /\ LET signature == IF outcome["client"].attested
                        THEN <<TRUE, WriteTid>> ELSE NoSignature
       IN  toServer' = Append(toServer,
               Frame("write", WriteTid, TRUE, Tamper(clientTamper, signature)))
    /\ UNCHANGED <<testVars, link, toClient>> /\ ClientFrame

\* The write's return code, and the assertion on it.
WriteReturns(rc) ==
    /\ writeRc' = rc
    /\ LET expected == rc = (IF clientTamper THEN -1 ELSE 1)
       IN  /\ client' = IF expected THEN "read" ELSE "close"
           /\ failed' = IF expected THEN failed ELSE "writeRc"
    /\ UNCHANGED <<taVars, readRc, readOn, answer>>

\* The read's return code and value, and the assertions on them.
ReadReturns(rc, on) ==
    /\ readRc' = rc
    /\ readOn' = on
    /\ failed' = IF rc # (IF serverTamper THEN -1 ELSE 1) THEN "readRc"
                 ELSE IF ~serverTamper /\ ~on THEN "readValue" ELSE failed
    /\ client' = "close"
    /\ UNCHANGED <<writeRc, answer>>

WriteReply ==
    /\ client = "awaitWrite"
    /\ toClient # <<>>
    /\ toClient' = Tail(toClient)
    /\ WriteReturns(IF Head(toClient).kind = "write" THEN 1 ELSE -1)
    /\ UNCHANGED <<link, toServer>> /\ ClientFrame

\* Mutant of SendRead: the request is sent again without waiting.
SendReadAgain ==
    /\ client = "read"
    /\ toServer' = Append(toServer, Frame("read", ReadTid, FALSE, NoSignature))
    /\ seen' = {status}
    /\ UNCHANGED <<status, op, phase, outcome, faulted, client, testVars, link,
                   toClient>>
    /\ ClientFrame

SendRead ==
    /\ client = "read"
    /\ client' = "awaitRead"
    /\ toServer' = Append(toServer, Frame("read", ReadTid, FALSE, NoSignature))
    /\ seen' = {status}
    /\ UNCHANGED <<status, op, phase, outcome, faulted, testVars, link, toClient>>
    /\ ClientFrame

\* An exception, or the late answer to the write, ends the read; a value is
\* given to the agent with its signature.
ReadReply ==
    /\ client = "awaitRead"
    /\ toClient # <<>>
    /\ toClient' = Tail(toClient)
    /\ LET reply == Head(toClient)
       IN  \/ /\ reply.kind = "read" /\ reply.tid = ReadTid
              /\ Invoke("client", "verify", reply.on, Signed(reply))
              /\ client' = "verifying"
              /\ answer' = reply
              /\ UNCHANGED <<writeRc, readRc, readOn, failed>>
           \/ /\ reply.kind # "read" \/ reply.tid # ReadTid
              /\ ReadReturns(-1, FALSE)
              /\ UNCHANGED taVars
    /\ UNCHANGED <<link, toServer>> /\ ClientFrame

\* signatureVerified, which stays 0 when the host library gave up before the
\* trusted application set it, or when that died.
signatureVerified ==
    IF outcome["client"] = NoSession THEN 0 ELSE outcome["client"].verified

\* Mutants of invCtrl_verifyCoilData: any verdict but -1 counts, and any
\* verdict but 0, as a C truth value.
AcceptsVerdicts(verdicts) ==
    /\ client = "verifying"
    /\ phase["client"] = "answered"
    /\ Results("client")
    /\ IF signatureVerified \in verdicts
       THEN ReadReturns(1, answer.on)
       ELSE ReadReturns(-1, FALSE)
    /\ UNCHANGED <<link, toServer, toClient>> /\ ClientFrame
AcceptsUnlessRefused == AcceptsVerdicts({0, 1})
AcceptsAsTruthValue  == AcceptsVerdicts({-1, 1})

\* The host library's return value is not looked at, only signatureVerified.
invCtrl_verifyCoilData ==
    /\ client = "verifying"
    /\ phase["client"] = "answered"
    /\ Results("client")
    /\ IF signatureVerified \in AcceptedVerdicts
       THEN ReadReturns(1, answer.on)
       ELSE ReadReturns(-1, FALSE)
    /\ UNCHANGED <<link, toServer, toClient>> /\ ClientFrame

\* The response timeout, with MODBUS_ERROR_RECOVERY_LINK: what has arrived by
\* now is flushed, what arrives later is not.
ResponseTimeout ==
    /\ Timeouts
    /\ toClient' = <<>>
    /\ \/ client = "awaitWrite" /\ WriteReturns(-1)
       \/ client = "awaitRead" /\ ReadReturns(-1, FALSE) /\ UNCHANGED taVars
    /\ UNCHANGED <<link, toServer>> /\ ClientFrame

CloseClient ==
    /\ client = "close"
    /\ client' = "exit"
    /\ link' = "closed"
    /\ UNCHANGED <<taVars, testVars, toServer, toClient>> /\ ClientFrame

(***************************************************************************)
(* main of server.c                                                        *)
(***************************************************************************)
ServerFrame == UNCHANGED <<mode, client, testVars>>

Listen ==
    /\ server = "start"
    /\ server' = "accept"
    /\ link' = "listening"
    /\ UNCHANGED <<taVars, query, toServer, toClient, refused>> /\ ServerFrame

\* Without memory for the mapping main returns.  Without the port it goes on:
\* accept fails, and modbus_receive fails too or waits for ever.
StartFails ==
    /\ server = "start"
    /\ server' \in {"done", "deaf"}
    /\ UNCHANGED <<taVars, query, link, toServer, toClient, refused>>
    /\ ServerFrame

\* modbus_tcp_accept, once: it waits for as long as nobody connects.
Accept ==
    /\ server = "accept"
    /\ link \in {"up", "closed"}
    /\ server' = "receive"
    /\ UNCHANGED <<taVars, query, link, toServer, toClient, refused>>
    /\ ServerFrame

\* Mutant of Receive: a write is set without its signature being judged.
ReceiveTrusting ==
    /\ server = "receive"
    /\ toServer # <<>>
    /\ toServer' = Tail(toServer)
    /\ LET request == Head(toServer)
       IN  /\ query' = request
           /\ Invoke("server", request.kind, request.on, request.kind = "write")
    /\ server' = "invoke"
    /\ UNCHANGED <<link, toClient, refused>> /\ ServerFrame

\* modbus_receive, and the agent function modbus_reply calls for it.
Receive ==
    /\ server = "receive"
    /\ toServer # <<>>
    /\ toServer' = Tail(toServer)
    /\ LET request == Head(toServer)
       IN  /\ query' = request
           /\ Invoke("server", request.kind, request.on,
                     request.kind = "write" /\ Signed(request))
    /\ server' = "invoke"
    /\ UNCHANGED <<link, toClient, refused>> /\ ServerFrame

\* A reply on a connection the client has closed is lost, or ends the loop.
Reply(frame) ==
    \/ /\ link = "up"
       /\ toClient' = Append(toClient, frame)
       /\ server' = "receive"
    \/ /\ link = "closed"
       /\ server' \in {"receive", "done"}
       /\ UNCHANGED toClient

\* Mutants of invCtrl_setCoilData: every write is acknowledged, and one that
\* is not verified is not answered.
AcknowledgesAnyWrite ==
    /\ server = "invoke" /\ query.kind = "write"
    /\ phase["server"] = "answered"
    /\ Results("server")
    /\ Reply(Frame("write", query.tid, query.on, NoSignature))
    /\ query' = NoFrame
    /\ UNCHANGED <<link, toServer, refused>> /\ ServerFrame
DropsRefusedWrite ==
    /\ server = "invoke" /\ query.kind = "write"
    /\ phase["server"] = "answered"
    /\ Results("server")
    /\ IF outcome["server"].verified \in AcceptedVerdicts
       THEN Reply(Frame("write", query.tid, query.on, NoSignature))
       ELSE server' = "receive" /\ UNCHANGED toClient
    /\ query' = NoFrame
    /\ UNCHANGED <<link, toServer, refused>> /\ ServerFrame

\* The verdict of the trusted application, 0 if it died, or the error code of
\* a session that was refused: host_setCoilData1 returns any of them.
invCtrl_setCoilData ==
    /\ server = "invoke" /\ query.kind = "write"
    /\ phase["server"] = "answered"
    /\ Results("server")
    /\ LET verdict == outcome["server"].verified
       IN  /\ Reply(Frame(IF verdict \in AcceptedVerdicts
                          THEN "write" ELSE "exception",
                          query.tid, query.on, NoSignature))
           /\ refused' = (refused \/ verdict = -1)
    /\ query' = NoFrame
    /\ UNCHANGED <<link, toServer>> /\ ServerFrame

\* The frame is built whatever became of the call.  coilValue is 0 when the
\* trusted application died; when the session was refused it is read
\* uninitialised.
invCtrl_getDataByCoilAddress ==
    /\ server = "invoke" /\ query.kind = "read"
    /\ phase["server"] = "answered"
    /\ Results("server")
    /\ \E on \in IF outcome["server"] = NoSession THEN BOOLEAN
                 ELSE {outcome["server"].on} :
          LET signature == IF outcome["server"].attested
                           THEN <<on, query.tid>> ELSE NoSignature
          IN  Reply(Frame("read", query.tid, on,
                          Tamper(serverTamper, signature)))
    /\ query' = NoFrame
    /\ UNCHANGED <<link, toServer, refused>> /\ ServerFrame

\* Mutant of Quit: the loop goes on after modbus_receive returned -1.
KeepReceiving ==
    /\ server = "receive"
    /\ link = "closed"
    /\ UNCHANGED <<server, taVars, query, link, toServer, toClient, refused>>
    /\ ServerFrame

\* modbus_receive returns -1 on the closed connection; a reset may overtake
\* requests still on their way.
Quit ==
    /\ server = "receive"
    /\ link = "closed"
    /\ server' = "done"
    /\ UNCHANGED <<taVars, query, link, toServer, toClient, refused>>
    /\ ServerFrame

ClientStep ==
    \/ Connect \/ SignWrite \/ invCtrl_signCoilValue \/ WriteReply \/ SendRead
    \/ ReadReply \/ invCtrl_verifyCoilData \/ CloseClient

ServerStep ==
    \/ Listen \/ StartFails \/ Accept \/ Receive \/ invCtrl_setCoilData
    \/ invCtrl_getDataByCoilAddress \/ Quit

Next ==
    \/ ClientStep \/ ServerStep \/ ResponseTimeout
    \/ \E p \in Programs : Serve(p)

Spec == Init /\ [][Next]_vars

\* Both programs run, and a call into the trusted application comes back
\* (CallsReturn of CoilTA); nothing makes a timeout happen.
FairSpec ==
    /\ Spec
    /\ WF_vars(ClientStep) /\ WF_vars(ServerStep)
    /\ \A p \in Programs : WF_vars(Serve(p))

(***************************************************************************)
(* Properties                                                              *)
(***************************************************************************)
\* A write whose signature the client tampered with is never stored, not even
\* after the client gave up on it and went on to read.
TamperedWriteIsNotStored == [][clientTamper => status' = status]_vars

\* The write the client saw succeed is what is stored, unless the create of
\* the object failed, which nobody looks at: neither a refused session nor a
\* trusted application that died is ever taken for a success.
AcknowledgedWriteIsStored ==
    writeRc = 1 => status = "on" \/ "create" \in faulted

\* A value the client accepts was stored at some moment between its request
\* and the reply: it is no leftover of a late reply, of a dead trusted
\* application or of an uninitialised variable.  A read of the object that
\* failed may be accepted too, but only ever as an "off".
AcceptedReadIsCurrent ==
    readRc = 1 => \/ (IF readOn THEN "on" ELSE "off") \in seen
                  \/ ~readOn /\ "read" \in faulted

\* The client never accepts a value whose signature the server changed.
TamperedReadIsRejected == serverTamper => readRc # 1

\* The assertions of client.c on the two results (lines 148-151 and 164-171).
AssertionsHold == failed = "none"

\* "Tamper detected by the server" (client.c, line 145) is printed only if the
\* server has found a bad signature.
TamperMessageIsTrue == clientTamper /\ writeRc = -1 => refused

\* A server that got its client ends once the client is gone: nothing it waits
\* for in between stays away.
ServerQuits == link = "up" ~> server = "done"

\* The client ends, however the server and the trusted application fare.
ClientExits == <>(client = "exit")

=============================================================================
