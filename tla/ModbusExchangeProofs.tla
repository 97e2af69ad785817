------------------------- MODULE ModbusExchangeProofs -------------------------
(***************************************************************************)
(* Theorems about ModbusExchange for every tamper mode, any stored status, *)
(* failing TEEs, failing storage and timeouts.                             *)
(*                                                                         *)
(* The invariant follows a frame.  What is on its way to the server is a   *)
(* write of "on", signed only if the client does not tamper, or a read.    *)
(* What is on its way to the client acknowledges a write only if "on" is   *)
(* stored or a create has failed, and carries a good signature only if the *)
(* server does not tamper and the value has been stored since the read was *)
(* sent, or is the "off" of a read that failed.  The sessions with the     *)
(* trusted application hand these facts on.                                *)
(***************************************************************************)
EXTENDS ModbusExchange, SequenceTheorems, TLAPS

\* libmodbus takes the verdict 1, and only it, for "verified".
StrictVerdicts == AcceptedVerdicts = {1}

IsSequence(s) == \E S : s \in Seq(S)

\* The shape of the state, as far as the steps depend on it.
Shape ==
    /\ status \in {"absent", "off", "on"}
    /\ IsSequence(toServer) /\ IsSequence(toClient)
    /\ DOMAIN op = Programs /\ DOMAIN phase = Programs /\ DOMAIN outcome = Programs

GoodRequest(f, m) ==
    \/ /\ f.kind = "write" /\ f.tid = WriteTid /\ f.on = TRUE
       /\ m \in {1, 3} => ~Signed(f)
    \/ f.kind = "read" /\ f.tid = ReadTid

\* Given the storage calls that have failed, a write that is stored if it is
\* acknowledged, and a value that may be read.
Stored(st, faults) == st = "on" \/ "create" \in faults

Current(on, statuses, faults) ==
    (IF on THEN "on" ELSE "off") \in statuses \/ (~on /\ "read" \in faults)

\* The answer to a write that was acknowledged, and to a read.
GoodReply(f, st, statuses, faults, m) ==
    /\ StrictVerdicts /\ f.kind = "write" => Stored(st, faults)
    /\ f.kind = "read" /\ Signed(f) => m \notin {2, 3} /\ Current(f.on, statuses, faults)

\* Before the client sends its read, no read is anywhere.
NoReadYet ==
    client \in {"connect", "write", "signing", "awaitWrite", "read"} =>
        /\ \A i \in 1..Len(toServer) : toServer[i].kind = "write"
        /\ \A i \in 1..Len(toClient) : toClient[i].kind # "read"
        /\ server = "invoke" => query.kind = "write"

WireInv ==
    /\ \A i \in 1..Len(toServer) : GoodRequest(toServer[i], mode)
    /\ \A i \in 1..Len(toClient) : GoodReply(toClient[i], status, seen, faulted, mode)

Finished(p) == phase[p] \in {"effected", "answered"}

\* The server's session: it sets or reads the coil the query is about.
ServerInv ==
    /\ phase["server"] = "idle" \/ server = "invoke"
    /\ server = "invoke" =>
          /\ GoodRequest(query, mode)
          /\ op["server"].kind = query.kind /\ op["server"].mapped
          /\ query.kind = "write" => op["server"].on
          /\ op["server"].authentic => Signed(query)
          /\ Finished("server") /\ outcome["server"].verified = 1
                 => query.kind = "write" /\ Stored(status, faulted)
          /\ Finished("server") /\ outcome["server"].attested
                 => /\ query.kind = "read" /\ ~outcome["server"].dead
                    /\ Current(outcome["server"].on, seen, faulted)

\* The client's session: it signs, or verifies the answer.
ClientInv ==
    /\ phase["client"] = "idle" \/ client \in {"signing", "verifying"}
    /\ client = "signing" => op["client"].kind = "sign"
    /\ client = "verifying" =>
          /\ op["client"].kind = "verify"
          /\ op["client"].authentic => Signed(answer)
          /\ answer.kind = "read" /\ GoodReply(answer, status, seen, faulted, mode)
          /\ Finished("client") /\ outcome["client"].verified = 1
                 => op["client"].authentic

\* What the client was told.
ResultInv ==
    /\ StrictVerdicts /\ writeRc = 1 => Stored(status, faulted)
    /\ StrictVerdicts /\ readRc = 1 => mode \notin {2, 3} /\ Current(readOn, seen, faulted)
    /\ client \notin {"close", "exit"} => readRc # 1

Inv == Shape /\ NoReadYet /\ WireInv /\ ServerInv /\ ClientInv /\ ResultInv

(***************************************************************************)
(* Sequences of frames                                                     *)
(***************************************************************************)
LEMMA Appended ==
    ASSUME NEW s, NEW e, IsSequence(s)
    PROVE  /\ IsSequence(Append(s, e)) /\ Len(s) \in Nat
           /\ Len(Append(s, e)) = Len(s) + 1
           /\ \A i \in 1..Len(s) : Append(s, e)[i] = s[i]
           /\ Append(s, e)[Len(s) + 1] = e
<1>1. PICK S : s \in Seq(S)
  BY DEF IsSequence
<1>2. s \in Seq(S \cup {e}) /\ e \in S \cup {e}
  BY <1>1
<1> QED
  BY <1>2, AppendProperties DEF IsSequence

LEMMA Taken ==
    ASSUME NEW s, IsSequence(s), s # <<>>
    PROVE  /\ IsSequence(Tail(s)) /\ Len(s) \in Nat \ {0}
           /\ Head(s) = s[1] /\ Len(Tail(s)) = Len(s) - 1
           /\ \A i \in 1..Len(Tail(s)) : Tail(s)[i] = s[i + 1]
<1>1. PICK S : s \in Seq(S)
  BY DEF IsSequence
<1>2. /\ Tail(s) \in Seq(S) /\ Len(Tail(s)) = Len(s) - 1
      /\ \A i \in 1..Len(Tail(s)) : Tail(s)[i] = s[i + 1]
  BY <1>1, HeadTailProperties
<1>3. Len(s) \in Nat \ {0} /\ Head(s) = s[1]
  BY <1>1, EmptySeq
<1> QED
  BY <1>2, <1>3 DEF IsSequence

LEMMA EmptyIsSequence == IsSequence(<<>>) /\ Len(<<>>) = 0
<1>1. <<>> \in Seq({})
  OBVIOUS
<1> QED
  BY <1>1 DEF IsSequence

(***************************************************************************)
(* Frames                                                                  *)
(***************************************************************************)
\* Bytes that do not verify sign no frame.
LEMMA UnsignedFrame ==
    ASSUME NEW f, f.signature = NoSignature
    PROVE  ~Signed(f)
BY DEF Signed, NoSignature

\* A reply stays good while statuses and failures are only added and an on is
\* not undone.
LEMMA GoodReplyStays ==
    ASSUME NEW f, NEW st, NEW st2, NEW statuses, NEW statuses2, NEW faults,
           NEW faults2, NEW m, GoodReply(f, st, statuses, faults, m),
           statuses \subseteq statuses2, faults \subseteq faults2,
           st = "on" => st2 = "on"
    PROVE  GoodReply(f, st2, statuses2, faults2, m)
BY DEF GoodReply, Current, Stored

(***************************************************************************)
(* The steps of the trusted application                                    *)
(***************************************************************************)
LEMMA ResultsEffect ==
    ASSUME Shape, NEW p \in Programs, Results(p)
    PROVE  /\ phase' = [phase EXCEPT ![p] = "idle"]
           /\ op' = [op EXCEPT ![p] = TA!NoOp]
           /\ outcome' = [outcome EXCEPT ![p] = TA!NoOutcome]
           /\ UNCHANGED <<status, seen, faulted>>
BY DEF Results, TA!Collect

LEMMA DeadFields ==
    /\ TA!Dead.verified = 0 /\ ~TA!Dead.attested /\ TA!Dead.dead /\ ~TA!Dead.on
    /\ NoSession.verified = TEEC_ERROR /\ ~NoSession.attested /\ NoSession.dead
    /\ ~NoSession.on
BY DEF TA!Dead, NoSession

\* What the outcome of a session is bound to when it is fixed.
BoundTo(p, result) ==
    \/ phase[p] = "effected" /\ result = outcome[p]
    \/ result.verified \in {0, TEEC_ERROR} /\ ~result.attested
    \/ /\ phase[p] = "called" /\ op[p].kind \in {"write", "verify"}
       /\ ~result.attested
       /\ result.verified = 1 => op[p].authentic
       /\ result.verified = 1 /\ op[p].kind = "write" /\ op[p].on /\ op[p].mapped
             => Stored(status', faulted')
    \/ /\ phase[p] = "called" /\ op[p].kind \in {"read", "sign"}
       /\ result.verified = 0
       /\ op[p].kind = "read" /\ op[p].mapped =>
             ~result.dead /\ Current(result.on, {status'}, faulted')

\* The status changes only as an authentic write orders.
MayStore(p) ==
    \/ UNCHANGED status
    \/ /\ op[p].kind = "write" /\ op[p].authentic
       /\ op[p].on /\ op[p].mapped => status' = "on"

Settles(p, to, result) ==
    /\ phase' = [phase EXCEPT ![p] = to]
    /\ outcome' = [outcome EXCEPT ![p] = result]
    /\ op' = op

LEMMA ServeEffect ==
    ASSUME Shape, NEW p \in Programs, Serve(p)
    PROVE  /\ phase[p] \in {"called", "effected"}
           /\ \E to \in {"effected", "answered"} : \E result :
                 Settles(p, to, result) /\ BoundTo(p, result)
           /\ MayStore(p) /\ status' \in {"absent", "off", "on"}
           /\ seen' = seen \cup {status'} /\ faulted \subseteq faulted'
           /\ UNCHANGED <<mode, client, testVars, server, query, link, toServer,
                          toClient, refused>>
<1>1. /\ status \in {"absent", "off", "on"}
      /\ seen' = seen \cup {status'} /\ faulted \subseteq faulted'
      /\ UNCHANGED <<mode, client, testVars, server, query, link, toServer, toClient,
                     refused>>
  BY DEF Serve, Faults, Shape
<1>2. CASE TA!Write(p)
  <2> DEFINE result == TA!Outcome(1, FALSE, FALSE)
  <2>1. /\ phase[p] = "called" /\ Settles(p, "effected", result)
        /\ op[p].kind = "write" /\ op[p].authentic
        /\ status' = IF ~op[p].mapped THEN status ELSE IF op[p].on THEN "on" ELSE "off"
    BY <1>2 DEF TA!Write, TA!Settle, Settles
  <2>2. ~result.attested
    BY Zenon DEF TA!Outcome
  <2>3. BoundTo(p, result)
    BY <2>1, <2>2 DEF BoundTo, Stored
  <2>4. MayStore(p) /\ status' \in {"absent", "off", "on"}
    BY <1>1, <2>1 DEF MayStore
  <2> QED
    BY <1>1, <2>1, <2>3, <2>4
<1>3. CASE TA!Read(p)
  <2> DEFINE on == status = "on" /\ (op[p].kind = "read" => op[p].mapped)
             result == TA!Outcome(0, on, op[p].kind = "read")
  <2>1. /\ phase[p] = "called" /\ Settles(p, "effected", result)
        /\ status' = status /\ status # "absent" /\ op[p].kind \in {"read", "readAll"}
    BY <1>3 DEF TA!Read, TA!Settle, Settles
  <2>2. /\ result.verified = 0 /\ ~result.dead /\ result.on = on
        /\ result.attested = (op[p].kind = "read")
    BY Zenon DEF TA!Outcome
  <2>3. ~result.attested \/ op[p].kind = "read"
    BY <2>2
  <2>4. op[p].kind = "read" /\ op[p].mapped => Current(result.on, {status'}, faulted')
    BY <1>1, <2>1, <2>2 DEF Current
  <2>5. BoundTo(p, result)
    BY <2>1, <2>2, <2>3, <2>4 DEF BoundTo
  <2> QED
    BY <1>1, <2>1, <2>5 DEF MayStore
<1>4. CASE TA!Judge(p)
  <2>1. PICK result :
           /\ phase[p] = "called" /\ Settles(p, "answered", result) /\ status' = status
           /\ \/ /\ op[p].kind = "verify" \/ (op[p].kind = "write" /\ ~op[p].authentic)
                 /\ result = TA!Outcome(IF op[p].authentic THEN 1 ELSE -1, FALSE, FALSE)
              \/ op[p].kind = "sign" /\ result = TA!Outcome(0, FALSE, TRUE)
    BY <1>4 DEF TA!Judge, TA!Settle, Settles
  <2>2. \/ /\ op[p].kind = "verify" \/ (op[p].kind = "write" /\ ~op[p].authentic)
           /\ result.verified = (IF op[p].authentic THEN 1 ELSE -1) /\ ~result.attested
        \/ op[p].kind = "sign" /\ result.verified = 0
    BY <2>1 DEF TA!Outcome
  <2>3. BoundTo(p, result)
    BY <2>1, <2>2 DEF BoundTo
  <2> QED
    BY <1>1, <2>1, <2>3 DEF MayStore
<1>5. CASE TA!Answer(p)
  <2>1. /\ phase[p] = "effected" /\ Settles(p, "answered", outcome[p])
        /\ status' = status
    BY <1>5 DEF TA!Answer, TA!Settle, Settles
  <2> QED
    BY <1>1, <2>1 DEF MayStore, BoundTo
<1>6. CASE Dies(p)
  <2>1. /\ phase[p] \in {"called", "effected"} /\ Settles(p, "answered", TA!Dead)
        /\ status' = status
    BY <1>6 DEF Dies, TA!Die, TA!Settle, Settles
  <2> QED
    BY <1>1, <2>1, DeadFields DEF MayStore, BoundTo
<1>7. CASE SessionRefused(p)
  <2>1. /\ phase[p] = "called" /\ Settles(p, "answered", NoSession)
        /\ status' = status
    BY <1>7 DEF SessionRefused, TA!Settle, Settles
  <2> QED
    BY <1>1, <2>1, DeadFields DEF MayStore, BoundTo
<1>8. CASE TA!ReadFails(p) /\ faulted' = faulted \cup {"read"}
  <2> DEFINE result == TA!Outcome(0, FALSE, op[p].kind = "read")
  <2>1. /\ phase[p] = "called" /\ Settles(p, "effected", result)
        /\ status' = status /\ op[p].kind \in {"read", "readAll"}
    BY <1>8 DEF TA!ReadFails, TA!Settle, Settles
  <2>2. /\ result.verified = 0 /\ ~result.dead /\ ~result.on
        /\ result.attested = (op[p].kind = "read")
    BY Zenon DEF TA!Outcome
  <2>3. ~result.attested \/ op[p].kind = "read"
    BY <2>2
  <2>4. Current(result.on, {status'}, faulted')
    BY <1>8, <2>2 DEF Current
  <2>5. BoundTo(p, result)
    BY <2>1, <2>2, <2>3, <2>4 DEF BoundTo
  <2> QED
    BY <1>1, <2>1, <2>5 DEF MayStore
<1>9. CASE TA!WriteAfterFailedRead(p)
  <2> DEFINE result == TA!Outcome(1, FALSE, FALSE)
  <2>1. /\ phase[p] = "called" /\ Settles(p, "effected", result)
        /\ op[p].kind = "write" /\ op[p].authentic
        /\ status' = IF op[p].mapped /\ op[p].on THEN "on" ELSE "off"
    BY <1>9 DEF TA!WriteAfterFailedRead, TA!Settle, Settles
  <2>2. ~result.attested
    BY Zenon DEF TA!Outcome
  <2>3. BoundTo(p, result)
    BY <2>1, <2>2 DEF BoundTo, Stored
  <2>4. MayStore(p) /\ status' \in {"absent", "off", "on"}
    BY <1>1, <2>1 DEF MayStore
  <2> QED
    BY <1>1, <2>1, <2>3, <2>4
<1>10. CASE TA!CreateFails(p) /\ faulted' = faulted \cup {"create"}
  <2>1. PICK result :
           /\ phase[p] = "called" /\ Settles(p, "answered", result) /\ status' = status
           /\ \/ op[p].kind = "seed" /\ result = TA!NoOutcome
              \/ /\ op[p].kind = "write" /\ op[p].authentic
                 /\ result = TA!Outcome(1, FALSE, FALSE)
    BY <1>10 DEF TA!CreateFails, TA!Settle, Settles
  <2>2. \/ result.verified = 0 /\ ~result.attested
        \/ /\ op[p].kind = "write" /\ op[p].authentic /\ ~result.attested
    BY <2>1 DEF TA!NoOutcome, TA!Outcome
  <2>3. Stored(status', faulted')
    BY <1>10 DEF Stored
  <2>4. BoundTo(p, result)
    BY <2>1, <2>2, <2>3 DEF BoundTo
  <2> QED
    BY <1>1, <2>1, <2>4 DEF MayStore
<1> QED
  BY <1>2, <1>3, <1>4, <1>5, <1>6, <1>7, <1>8, <1>9, <1>10 DEF Serve, Faults

LEMMA ServeClient ==
    ASSUME Inv, Serve("client")
    PROVE  Inv'
<1>1. Shape /\ "client" \in Programs
  BY DEF Inv, Programs
<1>2. /\ phase["client"] \in {"called", "effected"}
      /\ MayStore("client") /\ status' \in {"absent", "off", "on"}
      /\ seen' = seen \cup {status'} /\ faulted \subseteq faulted'
      /\ UNCHANGED <<mode, client, testVars, server, query, link, toServer,
                     toClient, refused>>
  BY <1>1, ServeEffect
<1>3. PICK to, result : /\ to \in {"effected", "answered"}
                        /\ Settles("client", to, result) /\ BoundTo("client", result)
  BY <1>1, ServeEffect
<1>4. client \in {"signing", "verifying"} /\ op["client"].kind \in {"sign", "verify"}
  BY <1>2 DEF Inv, ClientInv
<1>5. status' = status /\ seen \subseteq seen'
  BY <1>2, <1>4 DEF MayStore
<1>6. /\ op' = op /\ phase'["server"] = phase["server"]
      /\ outcome'["server"] = outcome["server"]
      /\ phase'["client"] = to /\ outcome'["client"] = result
  BY <1>1, <1>3 DEF Settles, Shape, Programs
<1>7. Shape' /\ NoReadYet'
  BY <1>1, <1>2, <1>3 DEF Inv, Shape, NoReadYet, Settles
<1>8. WireInv'
  BY <1>2, <1>5, GoodReplyStays DEF Inv, WireInv
<1>9. ServerInv'
  BY <1>2, <1>5, <1>6 DEF Inv, ServerInv, Finished, Current, Stored
<1>10. ClientInv'
  <2>1. client = "verifying" => GoodReply(answer, status', seen', faulted', mode)
    BY <1>2, <1>5, GoodReplyStays DEF Inv, ClientInv
  <2>2. client = "verifying" /\ result.verified = 1 => op["client"].authentic
    BY <1>2, <1>3 DEF Inv, ClientInv, BoundTo, Finished, TEEC_ERROR
  <2> QED
    BY <1>2, <1>4, <1>6, <2>1, <2>2 DEF Inv, ClientInv, testVars, Finished
<1>11. ResultInv'
  BY <1>2, <1>5 DEF Inv, ResultInv, testVars, Current, Stored
<1> QED
  BY <1>7, <1>8, <1>9, <1>10, <1>11 DEF Inv

LEMMA ServeServer ==
    ASSUME Inv, Serve("server")
    PROVE  /\ Inv'
           /\ clientTamper => status' = status
<1>1. Shape /\ "server" \in Programs
  BY DEF Inv, Programs
<1>2. /\ phase["server"] \in {"called", "effected"}
      /\ MayStore("server") /\ status' \in {"absent", "off", "on"}
      /\ seen' = seen \cup {status'} /\ faulted \subseteq faulted'
      /\ UNCHANGED <<mode, client, testVars, server, query, link, toServer,
                     toClient, refused>>
  BY <1>1, ServeEffect
<1>3. PICK to, result : /\ to \in {"effected", "answered"}
                        /\ Settles("server", to, result) /\ BoundTo("server", result)
  BY <1>1, ServeEffect
<1>4. /\ server = "invoke" /\ GoodRequest(query, mode)
      /\ op["server"].kind = query.kind /\ op["server"].mapped
      /\ query.kind = "write" => op["server"].on
      /\ op["server"].authentic => Signed(query)
  BY <1>2 DEF Inv, ServerInv
<1>5. /\ status = "on" => status' = "on"
      /\ clientTamper => status' = status
      /\ seen \subseteq seen' /\ status' \in seen'
  BY <1>2, <1>4 DEF MayStore, GoodRequest, clientTamper
<1>6. /\ op' = op /\ phase'["client"] = phase["client"]
      /\ outcome'["client"] = outcome["client"]
      /\ phase'["server"] = to /\ outcome'["server"] = result
  BY <1>1, <1>3 DEF Settles, Shape, Programs
<1>7. Shape' /\ NoReadYet'
  BY <1>1, <1>2, <1>3 DEF Inv, Shape, NoReadYet, Settles
<1>8. WireInv'
  BY <1>2, <1>5, GoodReplyStays DEF Inv, WireInv
<1>9. ServerInv'
  <2>1. query.kind \in {"read", "write"}
    BY <1>4 DEF GoodRequest
  <2>2. result.verified = 1 => query.kind = "write" /\ Stored(status', faulted')
    <3>1. CASE phase["server"] = "effected" /\ result = outcome["server"]
      BY <1>2, <1>4, <1>5, <3>1 DEF Inv, ServerInv, Finished, Stored
    <3>2. CASE ~(phase["server"] = "effected" /\ result = outcome["server"])
      BY <1>3, <1>4, <2>1, <3>2 DEF BoundTo, TEEC_ERROR
    <3> QED
      BY <3>1, <3>2
  <2>3. result.attested => /\ query.kind = "read" /\ ~result.dead
                           /\ Current(result.on, seen', faulted')
    <3>1. CASE phase["server"] = "effected" /\ result = outcome["server"]
      BY <1>2, <1>4, <1>5, <3>1 DEF Inv, ServerInv, Finished, Current
    <3>2. CASE ~(phase["server"] = "effected" /\ result = outcome["server"])
      BY <1>3, <1>4, <1>5, <2>1, <3>2 DEF BoundTo, Current
    <3> QED
      BY <3>1, <3>2
  <2> QED
    BY <1>2, <1>4, <1>6, <2>2, <2>3 DEF ServerInv, Finished
<1>10. ClientInv'
  <2>1. client = "verifying" => GoodReply(answer, status', seen', faulted', mode)
    BY <1>2, <1>5, GoodReplyStays DEF Inv, ClientInv
  <2> QED
    BY <1>2, <1>6, <2>1 DEF Inv, ClientInv, testVars, Finished
<1>11. ResultInv'
  BY <1>2, <1>5 DEF Inv, ResultInv, testVars, Current, Stored
<1> QED
  BY <1>5, <1>7, <1>8, <1>9, <1>10, <1>11 DEF Inv

(***************************************************************************)
(* The steps of the client                                                 *)
(***************************************************************************)
LEMMA ConnectStep ==
    ASSUME Inv, Connect
    PROVE  Inv'
<1>1. /\ UNCHANGED <<mode, server, query, taVars, testVars, toServer, toClient>>
      /\ client = "connect" /\ client' \in {"write", "exit"}
  BY DEF Connect, ClientFrame
<1>2. Shape' /\ NoReadYet'
  BY <1>1 DEF Inv, Shape, NoReadYet, taVars
<1>3. WireInv' /\ ServerInv'
  BY <1>1 DEF Inv, WireInv, ServerInv, taVars, Finished
<1>4. ClientInv' /\ ResultInv'
  BY <1>1 DEF Inv, ClientInv, ResultInv, taVars, testVars, Finished
<1> QED
  BY <1>2, <1>3, <1>4 DEF Inv

LEMMA SignWriteStep ==
    ASSUME Inv, SignWrite
    PROVE  Inv'
<1>1. Shape /\ "client" \in Programs /\ "server" \in Programs
  BY DEF Inv, Programs
<1>2. /\ UNCHANGED <<mode, server, query, testVars, toServer, toClient>>
      /\ client = "write" /\ client' = "signing"
      /\ Invoke("client", "sign", TRUE, FALSE)
  BY DEF SignWrite, ClientFrame
<1>3. /\ phase' = [phase EXCEPT !["client"] = "called"]
      /\ DOMAIN op' = Programs /\ op'["server"] = op["server"]
      /\ op'["client"].kind = "sign"
      /\ UNCHANGED <<status, outcome, seen, faulted>>
  <2>1. "server" \in Programs \ {"client"}
    BY DEF Programs
  <2> QED
    BY <1>1, <1>2, <2>1 DEF Invoke, TA!Call, Shape
<1>4. phase'["server"] = phase["server"] /\ DOMAIN phase' = Programs
  BY <1>1, <1>3 DEF Shape
<1>5. Shape' /\ NoReadYet'
  BY <1>1, <1>2, <1>3, <1>4 DEF Inv, Shape, NoReadYet
<1>6. WireInv' /\ ServerInv'
  BY <1>2, <1>3, <1>4 DEF Inv, WireInv, ServerInv, Finished
<1>7. ClientInv' /\ ResultInv'
  BY <1>2, <1>3 DEF Inv, ClientInv, ResultInv, testVars
<1> QED
  BY <1>5, <1>6, <1>7 DEF Inv

\* Results ends the session of p and changes no other.
LEMMA SessionEnds ==
    ASSUME Shape, NEW p \in Programs, Results(p)
    PROVE  /\ DOMAIN op' = Programs /\ DOMAIN phase' = Programs
           /\ DOMAIN outcome' = Programs /\ phase'[p] = "idle"
           /\ \A q \in Programs \ {p} : /\ phase'[q] = phase[q] /\ op'[q] = op[q]
                                       /\ outcome'[q] = outcome[q]
           /\ UNCHANGED <<status, seen, faulted>>
BY ResultsEffect DEF Shape

LEMMA SignCoilValueStep ==
    ASSUME Inv, invCtrl_signCoilValue
    PROVE  Inv'
<1> DEFINE signature == IF outcome["client"].attested THEN <<TRUE, WriteTid>>
                        ELSE NoSignature
           frame == Frame("write", WriteTid, TRUE, Tamper(clientTamper, signature))
<1>1. Shape /\ "client" \in Programs /\ "server" \in Programs
  BY DEF Inv, Programs
<1>2. /\ UNCHANGED <<mode, server, query, testVars, toClient>>
      /\ client = "signing" /\ client' = "awaitWrite"
      /\ Results("client") /\ toServer' = Append(toServer, frame)
  BY DEF invCtrl_signCoilValue, ClientFrame
<1>3. /\ DOMAIN op' = Programs /\ DOMAIN phase' = Programs
      /\ DOMAIN outcome' = Programs /\ phase'["client"] = "idle"
      /\ phase'["server"] = phase["server"] /\ op'["server"] = op["server"]
      /\ outcome'["server"] = outcome["server"] /\ UNCHANGED <<status, seen, faulted>>
  BY <1>1, <1>2, SessionEnds
<1>4. /\ frame.kind = "write" /\ frame.tid = WriteTid /\ frame.on = TRUE
      /\ frame.signature = Tamper(clientTamper, signature)
  BY Zenon DEF Frame
<1>5. clientTamper => ~Signed(frame)
  BY <1>4, UnsignedFrame, Zenon DEF Tamper
<1>6. frame.kind = "write" /\ GoodRequest(frame, mode)
  BY <1>4, <1>5 DEF GoodRequest, clientTamper
<1> HIDE DEF frame
<1>7. /\ IsSequence(toServer') /\ Len(toServer) \in Nat
      /\ Len(toServer') = Len(toServer) + 1
      /\ \A i \in 1..Len(toServer) : toServer'[i] = toServer[i]
      /\ toServer'[Len(toServer) + 1] = frame
  BY <1>1, <1>2, Appended DEF Shape
<1>8. Shape'
  BY <1>1, <1>2, <1>3, <1>7 DEF Shape
<1>9. NoReadYet' /\ WireInv'
  BY <1>2, <1>3, <1>6, <1>7 DEF Inv, NoReadYet, WireInv
<1>10. ServerInv'
  BY <1>2, <1>3 DEF Inv, ServerInv, Finished
<1>11. ClientInv' /\ ResultInv'
  BY <1>2, <1>3 DEF Inv, ClientInv, ResultInv, testVars
<1> QED
  BY <1>8, <1>9, <1>10, <1>11 DEF Inv

\* What an answer or a timeout takes from the connection leaves fewer replies.
LEMMA FewerReplies ==
    ASSUME Shape, (toClient # <<>> /\ toClient' = Tail(toClient)) \/ toClient' = <<>>
    PROVE  /\ IsSequence(toClient')
           /\ \A i \in 1..Len(toClient') : \E j \in 1..Len(toClient) :
                  toClient'[i] = toClient[j]
<1>1. CASE toClient' = <<>>
  BY <1>1, EmptyIsSequence
<1>2. CASE toClient # <<>> /\ toClient' = Tail(toClient)
  BY <1>2, Taken DEF Shape
<1> QED
  BY <1>1, <1>2

\* The connection and the sessions after the client has had an answer.
LEMMA ReplyLeaves ==
    ASSUME Inv, NEW here \in {"awaitWrite", "awaitRead"}, client = here,
           (toClient # <<>> /\ toClient' = Tail(toClient)) \/ toClient' = <<>>,
           UNCHANGED <<mode, server, query, toServer, status, seen, faulted>>
    PROVE  /\ IsSequence(toServer') /\ IsSequence(toClient')
           /\ WireInv'
           /\ here = "awaitWrite" => NoReadYet'
<1>1. /\ IsSequence(toClient')
      /\ \A i \in 1..Len(toClient') : \E j \in 1..Len(toClient) :
             toClient'[i] = toClient[j]
  BY FewerReplies DEF Inv
<1>2. WireInv' /\ (here = "awaitWrite" => NoReadYet')
  BY <1>1 DEF Inv, WireInv, NoReadYet
<1> QED
  BY <1>1, <1>2 DEF Inv, Shape

LEMMA WriteReturnsStep ==
    ASSUME Inv, client = "awaitWrite", NEW rc, WriteReturns(rc),
           StrictVerdicts /\ rc = 1 => Stored(status, faulted),
           (toClient # <<>> /\ toClient' = Tail(toClient)) \/ toClient' = <<>>,
           UNCHANGED <<toServer, mode, server, query>>
    PROVE  Inv'
<1>1. /\ UNCHANGED <<taVars, readRc, readOn, answer>> /\ writeRc' = rc
      /\ client' \in {"read", "close"}
  BY DEF WriteReturns
<1>2. UNCHANGED <<mode, server, query, toServer, status, seen, faulted>>
  BY <1>1 DEF taVars
<1>3. IsSequence(toServer') /\ IsSequence(toClient') /\ WireInv' /\ NoReadYet'
  BY <1>2, ReplyLeaves
<1>4. Shape' /\ ServerInv'
  BY <1>1, <1>2, <1>3 DEF Inv, Shape, ServerInv, taVars, Finished
<1>5. ClientInv' /\ ResultInv'
  BY <1>1, <1>2 DEF Inv, ClientInv, ResultInv, taVars
<1> QED
  BY <1>3, <1>4, <1>5 DEF Inv

LEMMA WriteReplyStep ==
    ASSUME Inv, WriteReply
    PROVE  Inv'
<1>1. PICK rc : rc = (IF Head(toClient).kind = "write" THEN 1 ELSE -1)
  OBVIOUS
<1>2. /\ client = "awaitWrite" /\ WriteReturns(rc)
      /\ toClient # <<>> /\ toClient' = Tail(toClient)
      /\ UNCHANGED <<toServer, mode, server, query>>
  BY <1>1 DEF WriteReply, ClientFrame
<1>3. Head(toClient) = toClient[1] /\ Len(toClient) \in Nat \ {0}
  BY <1>2, Taken DEF Inv, Shape
<1>4. StrictVerdicts /\ rc = 1 => Stored(status, faulted)
  BY <1>1, <1>3 DEF Inv, WireInv, GoodReply
<1> QED
  BY <1>2, <1>4, WriteReturnsStep

LEMMA SendReadStep ==
    ASSUME Inv, SendRead
    PROVE  Inv'
<1> DEFINE frame == Frame("read", ReadTid, FALSE, NoSignature)
<1>1. /\ UNCHANGED <<mode, server, query, testVars, toClient>>
      /\ UNCHANGED <<status, op, phase, outcome, faulted>> /\ seen' = {status}
      /\ client = "read" /\ client' = "awaitRead"
      /\ toServer' = Append(toServer, frame)
  BY DEF SendRead, ClientFrame
<1>2. GoodRequest(frame, mode)
  <2>1. frame.kind = "read" /\ frame.tid = ReadTid
    BY Zenon DEF Frame
  <2> HIDE DEF frame
  <2> QED
    BY <2>1 DEF GoodRequest
<1> HIDE DEF frame
<1>3. /\ IsSequence(toServer') /\ Len(toServer) \in Nat
      /\ Len(toServer') = Len(toServer) + 1
      /\ \A i \in 1..Len(toServer) : toServer'[i] = toServer[i]
      /\ toServer'[Len(toServer) + 1] = frame
  BY <1>1, Appended DEF Inv, Shape
<1>4. Shape' /\ NoReadYet'
  BY <1>1, <1>3 DEF Inv, Shape, NoReadYet
<1>5. WireInv'
  BY <1>1, <1>2, <1>3 DEF Inv, WireInv, NoReadYet, GoodReply
<1>6. ServerInv'
  BY <1>1 DEF Inv, ServerInv, NoReadYet, Finished
<1>7. ClientInv' /\ ResultInv'
  BY <1>1 DEF Inv, ClientInv, ResultInv, testVars
<1> QED
  BY <1>4, <1>5, <1>6, <1>7 DEF Inv

LEMMA ReadReturnsStep ==
    ASSUME Inv, client \in {"awaitRead", "verifying"}, NEW rc, NEW on,
           ReadReturns(rc, on),
           StrictVerdicts /\ rc = 1 => mode \notin {2, 3} /\ Current(on, seen, faulted),
           UNCHANGED <<mode, status, seen, faulted>>
    PROVE  ResultInv' /\ client' = "close"
<1>1. readRc' = rc /\ readOn' = on /\ client' = "close" /\ writeRc' = writeRc
  BY Zenon DEF ReadReturns
<1>2. Current(on, seen, faulted) => Current(readOn', seen', faulted')
  BY <1>1, Zenon DEF Current
<1> QED
  BY <1>1, <1>2 DEF Inv, ResultInv

\* An answer is handed to the agent: the client's session verifies it.
LEMMA ReadAnswered ==
    ASSUME Inv, client = "awaitRead", client' = "verifying",
           toClient # <<>>, toClient' = Tail(toClient),
           answer' = toClient[1], toClient[1].kind = "read",
           Invoke("client", "verify", toClient[1].on, Signed(toClient[1])),
           UNCHANGED <<mode, server, query, toServer, writeRc, readRc, readOn>>
    PROVE  Inv'
<1>1. Shape /\ "client" \in Programs /\ "server" \in Programs \ {"client"}
  BY DEF Inv, Programs
<1>2. /\ phase' = [phase EXCEPT !["client"] = "called"]
      /\ DOMAIN op' = Programs /\ op'["server"] = op["server"]
      /\ op'["client"].kind = "verify"
      /\ UNCHANGED <<status, outcome, seen, faulted>>
  BY <1>1 DEF Invoke, TA!Call, Shape
<1>3. op'["client"].authentic => Signed(toClient[1])
  <2> DEFINE o == [kind |-> "verify", mapped |-> "verify" \in {"read", "write"},
                   on |-> toClient[1].on, authentic |-> Signed(toClient[1])]
  <2>1. op'["client"] = o
    BY Zenon DEF Invoke
  <2>2. o.authentic => Signed(toClient[1])
    BY Zenon
  <2> HIDE DEF o
  <2> QED
    BY <2>1, <2>2
<1>4. phase'["server"] = phase["server"] /\ DOMAIN phase' = Programs
      /\ phase'["client"] = "called"
  BY <1>1, <1>2 DEF Shape
<1>5. IsSequence(toServer') /\ IsSequence(toClient') /\ WireInv'
  BY <1>2, ReplyLeaves
<1>6. Shape' /\ NoReadYet'
  BY <1>1, <1>2, <1>4, <1>5 DEF Shape, NoReadYet
<1>7. ServerInv'
  BY <1>2, <1>4 DEF Inv, ServerInv, Finished
<1>8. ClientInv'
  <2>1. GoodReply(toClient[1], status, seen, faulted, mode)
    BY <1>1, Taken DEF Inv, WireInv, Shape
  <2>2. Signed(answer') <=> Signed(toClient[1])
    BY DEF Signed
  <2> QED
    BY <1>2, <1>3, <1>4, <2>1, <2>2 DEF ClientInv, Finished, Signed
<1>9. ResultInv'
  BY <1>2 DEF Inv, ResultInv
<1> QED
  BY <1>5, <1>6, <1>7, <1>8, <1>9 DEF Inv

\* The read ends without an answer that could be verified.
LEMMA ReadFails ==
    ASSUME Inv, client = "awaitRead", ReadReturns(-1, FALSE),
           (toClient # <<>> /\ toClient' = Tail(toClient)) \/ toClient' = <<>>,
           UNCHANGED <<mode, server, query, toServer, taVars>>
    PROVE  Inv'
<1>1. UNCHANGED <<status, seen, faulted, op, phase, outcome>>
  BY DEF taVars
<1>2. ResultInv' /\ client' = "close"
  <2>1. readRc' = -1 /\ client' = "close" /\ writeRc' = writeRc
    BY Zenon DEF ReadReturns
  <2> QED
    BY <1>1, <2>1 DEF Inv, ResultInv
<1>3. IsSequence(toServer') /\ IsSequence(toClient') /\ WireInv'
  BY <1>1, ReplyLeaves
<1>4. Shape' /\ NoReadYet'
  BY <1>1, <1>2, <1>3 DEF Inv, Shape, NoReadYet
<1>5. ServerInv' /\ ClientInv'
  BY <1>1, <1>2 DEF Inv, ServerInv, ClientInv, Finished
<1> QED
  BY <1>2, <1>3, <1>4, <1>5 DEF Inv

LEMMA ReadReplyStep ==
    ASSUME Inv, ReadReply
    PROVE  Inv'
<1>1. /\ client = "awaitRead" /\ toClient # <<>> /\ toClient' = Tail(toClient)
      /\ UNCHANGED <<toServer, mode, server, query>>
  BY DEF ReadReply, ClientFrame
<1>2. Head(toClient) = toClient[1]
  BY <1>1, Taken DEF Inv, Shape
<1>3. CASE /\ toClient[1].kind = "read"
           /\ Invoke("client", "verify", toClient[1].on, Signed(toClient[1]))
           /\ client' = "verifying" /\ answer' = toClient[1]
           /\ UNCHANGED <<writeRc, readRc, readOn>>
  BY <1>1, <1>3, ReadAnswered
<1>4. CASE ReadReturns(-1, FALSE) /\ UNCHANGED taVars
  BY <1>1, <1>4, ReadFails
<1> QED
  BY <1>2, <1>3, <1>4 DEF ReadReply

LEMMA VerifyCoilDataStep ==
    ASSUME Inv, invCtrl_verifyCoilData
    PROVE  Inv'
<1>1. Shape /\ "client" \in Programs /\ "server" \in Programs
  BY DEF Inv, Programs
<1>2. /\ UNCHANGED <<mode, server, query, toServer, toClient>>
      /\ client = "verifying" /\ phase["client"] = "answered" /\ Results("client")
  BY DEF invCtrl_verifyCoilData, ClientFrame
<1>3. /\ DOMAIN op' = Programs /\ DOMAIN phase' = Programs
      /\ DOMAIN outcome' = Programs /\ phase'["client"] = "idle"
      /\ phase'["server"] = phase["server"] /\ op'["server"] = op["server"]
      /\ outcome'["server"] = outcome["server"] /\ UNCHANGED <<status, seen, faulted>>
  BY <1>1, <1>2, SessionEnds
<1>4. ResultInv' /\ client' = "close"
  <2>1. CASE ReadReturns(-1, FALSE)
    <3>1. readRc' = -1 /\ client' = "close" /\ writeRc' = writeRc
      BY <2>1, Zenon DEF ReadReturns
    <3> QED
      BY <1>2, <1>3, <3>1 DEF Inv, ResultInv
  <2>2. CASE signatureVerified \in AcceptedVerdicts /\ ReadReturns(1, answer.on)
    <3>1. StrictVerdicts => outcome["client"].verified = 1
      BY <2>2 DEF signatureVerified, StrictVerdicts
    <3>2. StrictVerdicts => mode \notin {2, 3} /\ Current(answer.on, seen, faulted)
      BY <1>2, <3>1 DEF Inv, ClientInv, GoodReply, Finished
    <3> QED
      BY <1>2, <1>3, <2>2, <3>2, ReadReturnsStep
  <2> QED
    BY <2>1, <2>2 DEF invCtrl_verifyCoilData
<1>5. Shape' /\ NoReadYet' /\ WireInv'
  BY <1>1, <1>2, <1>3, <1>4 DEF Inv, Shape, NoReadYet, WireInv
<1>6. ServerInv' /\ ClientInv'
  BY <1>2, <1>3, <1>4 DEF Inv, ServerInv, ClientInv, Finished
<1> QED
  BY <1>4, <1>5, <1>6 DEF Inv

LEMMA ResponseTimeoutStep ==
    ASSUME Inv, ResponseTimeout
    PROVE  Inv'
<1>1. toClient' = <<>> /\ UNCHANGED <<toServer, mode, server, query>>
  BY DEF ResponseTimeout, ClientFrame
<1>2. CASE client = "awaitWrite" /\ WriteReturns(-1)
  BY <1>1, <1>2, WriteReturnsStep
<1>3. CASE client = "awaitRead" /\ ReadReturns(-1, FALSE) /\ UNCHANGED taVars
  BY <1>1, <1>3, ReadFails
<1> QED
  BY <1>2, <1>3 DEF ResponseTimeout

LEMMA CloseClientStep ==
    ASSUME Inv, CloseClient
    PROVE  Inv'
<1>1. /\ UNCHANGED <<mode, server, query, taVars, testVars, toServer, toClient>>
      /\ client = "close" /\ client' = "exit"
  BY DEF CloseClient, ClientFrame
<1>2. Shape' /\ NoReadYet' /\ WireInv'
  BY <1>1 DEF Inv, Shape, NoReadYet, WireInv, taVars
<1>3. ServerInv' /\ ClientInv' /\ ResultInv'
  BY <1>1 DEF Inv, ServerInv, ClientInv, ResultInv, taVars, testVars, Finished
<1> QED
  BY <1>2, <1>3 DEF Inv

(***************************************************************************)
(* The steps of the server                                                 *)
(***************************************************************************)
LEMMA ServerIdles ==
    ASSUME Inv, Listen \/ StartFails \/ Accept \/ Quit
    PROVE  Inv'
<1>1. /\ UNCHANGED <<mode, client, testVars, taVars, query, toServer, toClient>>
      /\ server # "invoke" /\ server' # "invoke"
  BY DEF Listen, StartFails, Accept, Quit, ServerFrame
<1>2. Shape' /\ NoReadYet' /\ WireInv'
  BY <1>1 DEF Inv, Shape, NoReadYet, WireInv, taVars
<1>3. ServerInv' /\ ClientInv' /\ ResultInv'
  BY <1>1 DEF Inv, ServerInv, ClientInv, ResultInv, taVars, testVars, Finished
<1> QED
  BY <1>2, <1>3 DEF Inv

LEMMA ReceiveStep ==
    ASSUME Inv, Receive
    PROVE  Inv'
<1> DEFINE request == Head(toServer)
<1>1. Shape /\ "server" \in Programs /\ "client" \in Programs \ {"server"}
  BY DEF Inv, Programs
<1>2. /\ UNCHANGED <<mode, client, testVars, toClient>>
      /\ server' = "invoke" /\ query' = request
      /\ toServer # <<>> /\ toServer' = Tail(toServer)
  BY DEF Receive, ServerFrame
<1>3. Invoke("server", request.kind, request.on,
             request.kind = "write" /\ Signed(request))
  BY DEF Receive
<1>4. /\ IsSequence(toServer') /\ Len(toServer) \in Nat \ {0}
      /\ request = toServer[1] /\ Len(toServer') = Len(toServer) - 1
      /\ \A i \in 1..Len(toServer') : toServer'[i] = toServer[i + 1]
  BY <1>1, <1>2, Taken DEF Shape
<1>5. GoodRequest(request, mode)
  BY <1>4 DEF Inv, WireInv
<1>6. /\ phase' = [phase EXCEPT !["server"] = "called"]
      /\ DOMAIN op' = Programs /\ op'["client"] = op["client"]
      /\ op'["server"].kind = request.kind
      /\ UNCHANGED <<status, outcome, seen, faulted>>
  BY <1>1, <1>3 DEF Invoke, TA!Call, Shape
<1>7. /\ op'["server"].authentic => Signed(request)
      /\ request.kind \in {"read", "write"} => op'["server"].mapped
      /\ op'["server"].on = request.on
  <2> DEFINE o == [kind |-> request.kind, mapped |-> request.kind \in {"read", "write"},
                   on |-> request.on,
                   authentic |-> request.kind = "write" /\ Signed(request)]
  <2>1. op'["server"] = o
    BY <1>3, Zenon DEF Invoke
  <2>2. /\ o.authentic => Signed(request)
        /\ request.kind \in {"read", "write"} => o.mapped
        /\ o.on = request.on
    BY Zenon
  <2> HIDE DEF o
  <2> QED
    BY <2>1, <2>2
<1> HIDE DEF request
<1>8. phase'["client"] = phase["client"] /\ DOMAIN phase' = Programs
      /\ phase'["server"] = "called"
  BY <1>1, <1>6 DEF Shape
<1>9. Shape'
  BY <1>1, <1>2, <1>4, <1>6, <1>8 DEF Shape
<1>10. NoReadYet' /\ WireInv'
  BY <1>2, <1>4, <1>6 DEF Inv, NoReadYet, WireInv
<1>11. ServerInv'
  <2>1. /\ request.kind \in {"read", "write"}
        /\ request.kind = "write" => op'["server"].on
    BY <1>5, <1>7 DEF GoodRequest
  <2>2. Signed(query') <=> Signed(request)
    BY <1>2 DEF Signed
  <2> QED
    BY <1>2, <1>5, <1>6, <1>7, <1>8, <2>1, <2>2 DEF ServerInv, Finished, Signed
<1>12. ClientInv' /\ ResultInv'
  BY <1>2, <1>6, <1>8 DEF Inv, ClientInv, ResultInv, testVars, Finished
<1> QED
  BY <1>9, <1>10, <1>11, <1>12 DEF Inv

\* The server answers the request it has handled, or finds nobody to answer.
LEMMA ReplyStep ==
    ASSUME Inv, server = "invoke", Results("server"), NEW frame, Reply(frame),
           GoodReply(frame, status, seen, faulted, mode),
           frame.kind = "read" => query.kind = "read",
           UNCHANGED <<mode, client, testVars, toServer>>
    PROVE  Inv'
<1>1. Shape /\ "server" \in Programs /\ "client" \in Programs \ {"server"}
  BY DEF Inv, Programs
<1>2. /\ DOMAIN op' = Programs /\ DOMAIN phase' = Programs
      /\ DOMAIN outcome' = Programs /\ phase'["server"] = "idle"
      /\ phase'["client"] = phase["client"] /\ op'["client"] = op["client"]
      /\ outcome'["client"] = outcome["client"] /\ UNCHANGED <<status, seen, faulted>>
  BY <1>1, SessionEnds
<1>3. server' # "invoke" /\ toClient' \in {toClient, Append(toClient, frame)}
  BY DEF Reply
<1>4. /\ IsSequence(toClient') /\ Len(toClient) \in Nat
      /\ \A i \in 1..Len(toClient') :
             \/ i \in 1..Len(toClient) /\ toClient'[i] = toClient[i]
             \/ toClient'[i] = frame
  <2>1. CASE toClient' = toClient
    BY <1>1, <2>1, Appended DEF Shape
  <2>2. CASE toClient' = Append(toClient, frame)
    BY <1>1, <2>2, Appended DEF Shape
  <2> QED
    BY <1>3, <2>1, <2>2
<1>5. Shape'
  BY <1>1, <1>2, <1>4 DEF Shape
<1>6. NoReadYet' /\ WireInv'
  BY <1>2, <1>3, <1>4 DEF Inv, NoReadYet, WireInv
<1>7. ServerInv'
  BY <1>2, <1>3 DEF ServerInv
<1>8. ClientInv' /\ ResultInv'
  BY <1>2 DEF Inv, ClientInv, ResultInv, testVars, Finished
<1> QED
  BY <1>5, <1>6, <1>7, <1>8 DEF Inv

LEMMA SetCoilDataStep ==
    ASSUME Inv, invCtrl_setCoilData
    PROVE  Inv'
<1> DEFINE kind == IF outcome["server"].verified \in AcceptedVerdicts
                   THEN "write" ELSE "exception"
           frame == Frame(kind, query.tid, query.on, NoSignature)
<1>1. /\ server = "invoke" /\ phase["server"] = "answered"
      /\ Results("server") /\ Reply(frame)
      /\ UNCHANGED <<mode, client, testVars, toServer>>
  BY DEF invCtrl_setCoilData, ServerFrame
<1>2. frame.kind = kind
  BY DEF Frame
<1>3. StrictVerdicts /\ kind = "write" => Stored(status, faulted)
  BY <1>1 DEF Inv, ServerInv, StrictVerdicts, Finished
<1>4. GoodReply(frame, status, seen, faulted, mode) /\ frame.kind # "read"
  BY <1>2, <1>3 DEF GoodReply
<1> HIDE DEF frame
<1> QED
  BY <1>1, <1>4, ReplyStep

LEMMA GetDataStep ==
    ASSUME Inv, invCtrl_getDataByCoilAddress
    PROVE  Inv'
<1>1. /\ server = "invoke" /\ query.kind = "read" /\ phase["server"] = "answered"
      /\ Results("server")
      /\ UNCHANGED <<mode, client, testVars, toServer>>
  BY DEF invCtrl_getDataByCoilAddress, ServerFrame
<1>2. PICK on \in IF outcome["server"] = NoSession THEN BOOLEAN
                   ELSE {outcome["server"].on} :
         Reply(Frame("read", query.tid, on,
                     Tamper(serverTamper,
                            IF outcome["server"].attested THEN <<on, query.tid>>
                            ELSE NoSignature)))
  BY DEF invCtrl_getDataByCoilAddress
<1> DEFINE signature == IF outcome["server"].attested THEN <<on, query.tid>>
                        ELSE NoSignature
           frame == Frame("read", query.tid, on, Tamper(serverTamper, signature))
<1>3. /\ frame.kind = "read" /\ frame.on = on
      /\ frame.signature = Tamper(serverTamper, signature)
  BY Zenon DEF Frame
<1>4. Signed(frame) => outcome["server"].attested /\ ~serverTamper
  BY <1>3, UnsignedFrame, Zenon DEF Tamper
<1>5. outcome["server"].attested => Current(on, seen, faulted)
  BY <1>1, <1>2, DeadFields DEF Inv, ServerInv, Finished
<1>6. GoodReply(frame, status, seen, faulted, mode)
  BY <1>3, <1>4, <1>5 DEF GoodReply, serverTamper
<1>7. Reply(frame)
  BY <1>2
<1> HIDE DEF frame
<1> QED
  BY <1>1, <1>6, <1>7, ReplyStep

(***************************************************************************)
(* Theorems                                                                *)
(***************************************************************************)
LEMMA InvInit == Init => Inv
<1> SUFFICES ASSUME Init PROVE Inv
  OBVIOUS
<1>1. IsSequence(toServer) /\ IsSequence(toClient)
      /\ Len(toServer) = 0 /\ Len(toClient) = 0
  BY EmptyIsSequence DEF Init
<1>2. Shape
  BY <1>1, ModbusExchangeAssumption DEF Init, Shape
<1>3. NoReadYet /\ WireInv
  BY <1>1 DEF Init, NoReadYet, WireInv
<1>4. ServerInv /\ ClientInv /\ ResultInv
  BY DEF Init, ServerInv, ClientInv, ResultInv, Programs
<1> QED
  BY <1>2, <1>3, <1>4 DEF Inv

LEMMA InvStep == Inv /\ [Next]_vars => Inv'
<1> SUFFICES ASSUME Inv, [Next]_vars PROVE Inv'
  OBVIOUS
<1>1. CASE ClientStep
  BY <1>1, ConnectStep, SignWriteStep, SignCoilValueStep, WriteReplyStep,
     SendReadStep, ReadReplyStep, VerifyCoilDataStep, CloseClientStep DEF ClientStep
<1>2. CASE ServerStep
  BY <1>2, ServerIdles, ReceiveStep, SetCoilDataStep, GetDataStep DEF ServerStep
<1>3. CASE ResponseTimeout
  BY <1>3, ResponseTimeoutStep
<1>4. CASE \E p \in Programs : Serve(p)
  BY <1>4, ServeClient, ServeServer DEF Programs
<1>5. CASE UNCHANGED vars
  BY <1>5 DEF vars, taVars, testVars, Inv, Shape, NoReadYet, WireInv, ServerInv,
              ClientInv, ResultInv, Finished, Signed
<1> QED
  BY <1>1, <1>2, <1>3, <1>4, <1>5 DEF Next

LEMMA Invariant == Spec => []Inv
BY InvInit, InvStep, PTL DEF Spec

\* Only the sessions with the trusted application change the stored status.
LEMMA OnlyServingStores ==
    ASSUME Inv, [Next]_vars, clientTamper
    PROVE  status' = status
<1>1. CASE Serve("server")
  BY <1>1, ServeServer
<1>2. CASE Serve("client")
  <2>1. phase["client"] \in {"called", "effected"} /\ MayStore("client")
    BY <1>2, ServeEffect DEF Inv, Programs
  <2> QED
    BY <2>1 DEF Inv, ClientInv, MayStore
<1>3. CASE ClientStep \/ ResponseTimeout
  BY <1>3 DEF ClientStep, ResponseTimeout, Connect, SignWrite, invCtrl_signCoilValue,
     WriteReply, WriteReturns, SendRead, ReadReply, invCtrl_verifyCoilData,
     CloseClient, Invoke, Results, TA!Call, TA!Collect, taVars
<1>4. CASE ServerStep
  BY <1>4 DEF ServerStep, Listen, StartFails, Accept, Receive, invCtrl_setCoilData,
     invCtrl_getDataByCoilAddress, Quit, Invoke, Results, TA!Call, TA!Collect, taVars
<1>5. CASE UNCHANGED vars
  BY <1>5 DEF vars, taVars
<1> QED
  BY <1>1, <1>2, <1>3, <1>4, <1>5 DEF Next, Programs

\* However the answers are delayed and the sessions fail, a write the client
\* tampers with never changes what is stored, whatever libmodbus makes of the
\* verdicts.
THEOREM TamperedNeverStored == Spec => TamperedWriteIsNotStored
<1>1. Inv /\ [Next]_vars => [clientTamper => status' = status]_vars
  BY OnlyServingStores
<1> QED
  BY <1>1, Invariant, PTL DEF Spec, TamperedWriteIsNotStored

\* If libmodbus takes only the verdict 1 for "verified", a write that client.c
\* saw succeed is stored unless a create has failed, with late answers,
\* tampering, refused and dying sessions.
THEOREM AcknowledgedIsStored == StrictVerdicts => (Spec => []AcknowledgedWriteIsStored)
<1> SUFFICES ASSUME StrictVerdicts PROVE Spec => []AcknowledgedWriteIsStored
  OBVIOUS
<1>1. Inv => AcknowledgedWriteIsStored
  BY DEF Inv, ResultInv, AcknowledgedWriteIsStored, Stored
<1> QED
  BY <1>1, Invariant, PTL

\* Under the same reading of the verdicts, a value client.c accepted was stored
\* at some moment of its read, or is the "off" of a read that failed in the
\* storage: an "on" is never accepted that was not stored.
THEOREM AcceptedIsCurrent == StrictVerdicts => (Spec => []AcceptedReadIsCurrent)
<1> SUFFICES ASSUME StrictVerdicts PROVE Spec => []AcceptedReadIsCurrent
  OBVIOUS
<1>1. Inv => AcceptedReadIsCurrent
  BY DEF Inv, ResultInv, AcceptedReadIsCurrent, Current
<1> QED
  BY <1>1, Invariant, PTL

\* Under the same reading of the verdicts, no value whose signature server.c
\* changed is ever accepted.
THEOREM TamperedNeverAccepted == StrictVerdicts => (Spec => []TamperedReadIsRejected)
<1> SUFFICES ASSUME StrictVerdicts PROVE Spec => []TamperedReadIsRejected
  OBVIOUS
<1>1. Inv => TamperedReadIsRejected
  BY DEF Inv, ResultInv, TamperedReadIsRejected, serverTamper
<1> QED
  BY <1>1, Invariant, PTL

(***************************************************************************)
(* Types.  The programs have at most two requests and replies under way:   *)
(* the late answer to the write and the read.                              *)
(***************************************************************************)
Serving == IF server = "invoke" THEN 1 ELSE 0
UnderWay == Len(toServer) + Len(toClient) + Serving

RequestsSent ==
    IF client \in {"connect", "write", "signing"} THEN 0
    ELSE IF client \in {"awaitWrite", "read"} THEN 1 ELSE 2

FrameTypes ==
    /\ query \in Frames /\ answer \in Frames
    /\ toServer \in Seq(Frames) /\ toClient \in Seq(Frames)
    /\ UnderWay <= RequestsSent

SessionTypes ==
    /\ op \in [Programs -> TA!Ops \cup {TA!NoOp}]
    /\ phase \in [Programs -> {"idle", "called", "effected", "answered"}]
    /\ DOMAIN outcome = Programs
    /\ \A p \in Programs : outcome[p].on \in BOOLEAN
    /\ status \in {"absent", "off", "on"} /\ seen \subseteq {"absent", "off", "on"}
    /\ faulted \subseteq {"read", "create"}

ProgramTypes ==
    /\ mode \in 0..3
    /\ client \in {"connect", "write", "signing", "awaitWrite", "read",
                   "awaitRead", "verifying", "close", "exit"}
    /\ server \in {"start", "accept", "deaf", "receive", "invoke", "done"}
    /\ link \in {"down", "listening", "up", "closed"}
    /\ failed \in {"none", "writeRc", "readRc", "readValue"}
    /\ writeRc \in {-1, 0, 1} /\ readRc \in {-1, 0, 1}
    /\ readOn \in BOOLEAN /\ refused \in BOOLEAN

TypeInv == ProgramTypes /\ SessionTypes /\ FrameTypes

(***************************************************************************)
(* The assertions of client.c, in a run where nothing is late and nothing  *)
(* fails, and the client does not tamper alone.                            *)
(***************************************************************************)
Nominal ==
    /\ ~TeeFaults /\ ~StorageFaults /\ ~Timeouts
    /\ Statuses \subseteq {"off", "on"}
    /\ 1 \in Modes => Statuses \subseteq {"on"}

\* One request is under way at a time, and it is the one awaited.
TurnInv ==
    /\ UnderWay <= IF client \in {"awaitWrite", "awaitRead"} THEN 1 ELSE 0
    /\ client = "awaitRead" =>
          /\ \A i \in 1..Len(toServer) : toServer[i].kind = "read"
          /\ \A i \in 1..Len(toClient) : toClient[i].kind = "read"
          /\ server = "invoke" => query.kind = "read"

\* What a session has decided once it has its outcome.
Decided(p, result, st) ==
    /\ op[p].kind \in {"write", "verify"} =>
          result.verified = IF op[p].authentic THEN 1 ELSE -1
    /\ op[p].kind \in {"read", "sign"} => result.attested
    /\ op[p].kind = "read" => ~result.dead
    /\ op[p].kind = "read" /\ op[p].mapped /\ st = "on" => result.on

\* The frames in a run of this mode.
ExpectedRequest(f) == f.kind = "write" => (Signed(f) <=> mode \notin {1, 3})

ExpectedReply(f) ==
    /\ f.kind # "none"
    /\ f.kind = "write" => mode \notin {1, 3} /\ status = "on"
    /\ f.kind = "exception" => mode \in {1, 3}
    /\ f.kind = "read" => f.tid = ReadTid /\ (Signed(f) <=> mode \notin {2, 3})
    /\ f.kind = "read" /\ mode \notin {2, 3} => f.on

OutcomeInv ==
    /\ failed = "none" /\ faulted = {}
    /\ mode \in 0..3 /\ status \in {"off", "on"}
    /\ mode = 1 => status = "on"
    /\ client \in {"read", "awaitRead", "verifying"} /\ mode # 3 => status = "on"

ExpectedFrames ==
    /\ \A i \in 1..Len(toServer) : ExpectedRequest(toServer[i])
    /\ \A i \in 1..Len(toClient) : ExpectedReply(toClient[i])

ServerDecides ==
    server = "invoke" =>
        /\ ExpectedRequest(query)
        /\ op["server"].authentic <=> query.kind = "write" /\ Signed(query)
        /\ Finished("server") => Decided("server", outcome["server"], status)

ClientDecides ==
    /\ client \in {"signing", "verifying"} /\ Finished("client")
          => Decided("client", outcome["client"], status)
    /\ client = "verifying" =>
          /\ op["client"].authentic <=> mode \notin {2, 3}
          /\ mode \notin {2, 3} => answer.on

NominalInv == OutcomeInv /\ ExpectedFrames /\ ServerDecides /\ ClientDecides

(***************************************************************************)
(* Types                                                                   *)
(***************************************************************************)
LEMMA FrameIsTyped ==
    ASSUME NEW kind \in {"write", "read", "exception"}, NEW tid \in {0, WriteTid, ReadTid},
           NEW on \in BOOLEAN,
           NEW signature \in {NoSignature} \cup (BOOLEAN \X {WriteTid, ReadTid})
    PROVE  Frame(kind, tid, on, signature) \in Frames
  BY Zenon DEF Frame, Frames

LEMMA FrameFields ==
    ASSUME NEW f \in Frames
    PROVE  f.tid \in {0, WriteTid, ReadTid} /\ f.on \in BOOLEAN
  BY DEF Frames

LEMMA FramesQueue ==
    ASSUME NEW s \in Seq(Frames)
    PROVE  /\ Len(s) \in Nat
           /\ \A f \in Frames : Append(s, f) \in Seq(Frames) /\ Len(Append(s, f)) = Len(s) + 1
           /\ s # <<>> => /\ Head(s) \in Frames /\ Tail(s) \in Seq(Frames)
                          /\ Len(Tail(s)) = Len(s) - 1
  OBVIOUS

\* What an outcome says of the coil is a truth value, whatever fixed it.
LEMMA OutcomeIsTyped ==
    ASSUME SessionTypes, NEW p \in Programs, Serve(p)
    PROVE  \E to \in {"effected", "answered"} : \E result :
               Settles(p, to, result) /\ result.on \in BOOLEAN
<1>1. CASE TA!Write(p)
  <2>1. Settles(p, "effected", TA!Outcome(1, FALSE, FALSE))
    BY <1>1 DEF TA!Write, TA!Settle, Settles
  <2>2. TA!Outcome(1, FALSE, FALSE).on \in BOOLEAN
    BY Zenon DEF TA!Outcome
  <2> QED
    BY <2>1, <2>2
<1>2. CASE TA!Read(p)
  <2> DEFINE on == status = "on" /\ (op[p].kind = "read" => op[p].mapped)
             result == TA!Outcome(0, on, op[p].kind = "read")
  <2>1. Settles(p, "effected", result)
    BY <1>2 DEF TA!Read, TA!Settle, Settles
  <2>2. result.on = on
    BY Zenon DEF TA!Outcome
  <2>3. on \in BOOLEAN
    OBVIOUS
  <2> HIDE DEF on
  <2> QED
    BY <2>1, <2>2, <2>3
<1>3. CASE TA!Judge(p)
  <2>1. PICK verified, attested : Settles(p, "answered", TA!Outcome(verified, FALSE, attested))
    BY <1>3 DEF TA!Judge, TA!Settle, Settles
  <2>2. TA!Outcome(verified, FALSE, attested).on \in BOOLEAN
    BY Zenon DEF TA!Outcome
  <2> QED
    BY <2>1, <2>2
<1>4. CASE TA!Answer(p)
  BY <1>4 DEF TA!Answer, TA!Settle, Settles, SessionTypes
<1>5. CASE Dies(p)
  <2>1. Settles(p, "answered", TA!Dead)
    BY <1>5 DEF Dies, TA!Die, TA!Settle, Settles
  <2>2. TA!Dead.on \in BOOLEAN
    BY Zenon DEF TA!Dead
  <2> QED
    BY <2>1, <2>2
<1>6. CASE SessionRefused(p)
  <2>1. Settles(p, "answered", NoSession)
    BY <1>6 DEF SessionRefused, TA!Settle, Settles
  <2>2. NoSession.on \in BOOLEAN
    <3>1. NoSession.on = TA!Dead.on
      BY DEF NoSession, TA!Dead
    <3>2. TA!Dead.on \in BOOLEAN
      BY Zenon DEF TA!Dead
    <3> QED
      BY <3>1, <3>2
  <2> QED
    BY <2>1, <2>2
<1>7. CASE TA!ReadFails(p)
  <2>1. PICK attested : Settles(p, "effected", TA!Outcome(0, FALSE, attested))
    BY <1>7 DEF TA!ReadFails, TA!Settle, Settles
  <2>2. TA!Outcome(0, FALSE, attested).on \in BOOLEAN
    BY Zenon DEF TA!Outcome
  <2> QED
    BY <2>1, <2>2
<1>8. CASE TA!WriteAfterFailedRead(p) \/ TA!CreateFails(p)
  <2>1. \E to \in {"effected", "answered"} :
           \/ Settles(p, to, TA!Outcome(1, FALSE, FALSE))
           \/ Settles(p, to, TA!Outcome(0, FALSE, FALSE))
    BY <1>8 DEF TA!WriteAfterFailedRead, TA!CreateFails, TA!NoOutcome, TA!Settle, Settles
  <2>2. /\ TA!Outcome(1, FALSE, FALSE).on \in BOOLEAN
        /\ TA!Outcome(0, FALSE, FALSE).on \in BOOLEAN
    BY Zenon DEF TA!Outcome
  <2> QED
    BY <2>1, <2>2
<1> QED
  BY <1>1, <1>2, <1>3, <1>4, <1>5, <1>6, <1>7, <1>8 DEF Serve, Faults

LEMMA ServeTypes ==
    ASSUME Inv, TypeInv, NEW p \in Programs, Serve(p)
    PROVE  TypeInv'
<1>1. PICK to, result : /\ to \in {"effected", "answered"}
                        /\ Settles(p, to, result) /\ result.on \in BOOLEAN
  BY OutcomeIsTyped DEF TypeInv
<1>2. /\ status' \in {"absent", "off", "on"} /\ seen' = seen \cup {status'}
      /\ UNCHANGED <<mode, client, testVars, server, query, link, toServer, toClient,
                     refused>>
  BY ServeEffect DEF Inv
<1>3. SessionTypes'
  <2>1. /\ op' \in [Programs -> TA!Ops \cup {TA!NoOp}]
        /\ phase' \in [Programs -> {"idle", "called", "effected", "answered"}]
        /\ DOMAIN outcome' = Programs
    BY <1>1 DEF TypeInv, SessionTypes, Settles
  <2>2. \A q \in Programs : outcome'[q].on \in BOOLEAN
    BY <1>1 DEF TypeInv, SessionTypes, Settles
  <2>3. seen' \subseteq {"absent", "off", "on"}
    BY <1>2 DEF TypeInv, SessionTypes
  <2>4. faulted' \subseteq {"read", "create"}
    BY DEF TypeInv, SessionTypes, Serve, Faults
  <2> QED
    BY <1>2, <2>1, <2>2, <2>3, <2>4 DEF SessionTypes
<1>4. ProgramTypes' /\ FrameTypes'
  BY <1>2 DEF testVars, TypeInv, ProgramTypes, FrameTypes, UnderWay, Serving, RequestsSent
<1> QED
  BY <1>3, <1>4 DEF TypeInv

LEMMA SessionTypesStay ==
    ASSUME SessionTypes, NEW p \in Programs
    PROVE  /\ UNCHANGED taVars => SessionTypes'
           /\ \A kind, on, authentic : Invoke(p, kind, on, authentic) => SessionTypes'
           /\ Results(p) => SessionTypes'
<1>1. UNCHANGED taVars => SessionTypes'
  BY DEF taVars, SessionTypes
<1>2. ASSUME NEW kind, NEW on, NEW authentic, Invoke(p, kind, on, authentic)
      PROVE  SessionTypes'
  <2>1. PICK o \in TA!Ops : op' = [op EXCEPT ![p] = o]
    BY <1>2 DEF Invoke, TA!Call
  <2>2. phase' = [phase EXCEPT ![p] = "called"] /\ UNCHANGED <<status, outcome, seen, faulted>>
    BY <1>2 DEF Invoke, TA!Call
  <2> QED
    BY <2>1, <2>2 DEF SessionTypes
<1>3. ASSUME Results(p) PROVE SessionTypes'
  <2>1. /\ phase' = [phase EXCEPT ![p] = "idle"] /\ op' = [op EXCEPT ![p] = TA!NoOp]
        /\ outcome' = [outcome EXCEPT ![p] = TA!NoOutcome] /\ UNCHANGED <<status, seen, faulted>>
    BY <1>3 DEF Results, TA!Collect
  <2>2. TA!NoOutcome.on \in BOOLEAN
    BY Zenon DEF TA!NoOutcome, TA!Outcome
  <2>3. \A q \in Programs : outcome'[q].on \in BOOLEAN
    BY <2>1, <2>2 DEF SessionTypes
  <2> QED
    BY <2>1, <2>3 DEF SessionTypes
<1> QED
  BY <1>1, <1>2, <1>3

\* The results the client notes down.
LEMMA ReturnTypes ==
    ASSUME TypeInv, NEW rc \in {-1, 0, 1}, NEW on \in BOOLEAN,
           WriteReturns(rc) \/ ReadReturns(rc, on),
           UNCHANGED <<mode, server, query, link, refused>>
    PROVE  ProgramTypes' /\ answer' = answer
           /\ client' \in {"read", "close"}
<1>1. CASE WriteReturns(rc)
  <2>1. /\ writeRc' = rc /\ client' \in {"read", "close"}
        /\ failed' \in {failed, "writeRc"} /\ UNCHANGED <<readRc, readOn, answer>>
    BY <1>1, Zenon DEF WriteReturns
  <2> QED
    BY <2>1 DEF TypeInv, ProgramTypes
<1>2. CASE ReadReturns(rc, on)
  <2>1. /\ readRc' = rc /\ readOn' = on /\ client' = "close"
        /\ failed' \in {failed, "readRc", "readValue"} /\ UNCHANGED <<writeRc, answer>>
    BY <1>2, Zenon DEF ReadReturns
  <2> QED
    BY <2>1 DEF TypeInv, ProgramTypes
<1> QED
  BY <1>1, <1>2

LEMMA ClientTypes ==
    ASSUME Inv, TypeInv, ClientStep \/ ResponseTimeout
    PROVE  TypeInv'
<1> USE DEF UnderWay, Serving, RequestsSent
<1>1. /\ SessionTypes /\ FrameTypes /\ ProgramTypes
      /\ Len(toServer) \in Nat /\ Len(toClient) \in Nat
      /\ "client" \in Programs
      /\ UNCHANGED <<mode, server, query, refused>>
  <2>1. ClientFrame
    BY DEF ClientStep, ResponseTimeout, Connect, SignWrite, invCtrl_signCoilValue,
       WriteReply, SendRead, ReadReply, invCtrl_verifyCoilData, CloseClient
  <2> QED
    BY <2>1 DEF TypeInv, FrameTypes, Programs, ClientFrame
<1>2. CASE Connect \/ CloseClient
  <2>1. /\ UNCHANGED <<taVars, testVars, toServer, toClient>>
        /\ link' \in {link, "up", "closed"}
        /\ \/ client = "connect" /\ client' = "write"
           \/ client' = "exit"
    BY <1>2 DEF Connect, CloseClient
  <2>2. SessionTypes'
    BY <1>1, <2>1, SessionTypesStay
  <2>3. ProgramTypes' /\ FrameTypes'
    BY <1>1, <2>1 DEF testVars, ProgramTypes, FrameTypes
  <2> QED
    BY <2>2, <2>3 DEF TypeInv
<1>3. CASE SignWrite
  <2>1. /\ Invoke("client", "sign", TRUE, FALSE)
        /\ UNCHANGED <<testVars, link, toServer, toClient>>
        /\ client = "write" /\ client' = "signing"
    BY <1>3 DEF SignWrite
  <2>2. SessionTypes'
    BY <1>1, <2>1, SessionTypesStay
  <2>3. ProgramTypes' /\ FrameTypes'
    BY <1>1, <2>1 DEF testVars, ProgramTypes, FrameTypes
  <2> QED
    BY <2>2, <2>3 DEF TypeInv
<1>4. CASE invCtrl_signCoilValue
  <2> DEFINE signature == IF outcome["client"].attested THEN <<TRUE, WriteTid>>
                          ELSE NoSignature
             frame == Frame("write", WriteTid, TRUE, Tamper(clientTamper, signature))
  <2>1. /\ Results("client") /\ UNCHANGED <<testVars, link, toClient>>
        /\ client = "signing" /\ client' = "awaitWrite"
        /\ toServer' = Append(toServer, frame)
    BY <1>4 DEF invCtrl_signCoilValue
  <2>2. frame \in Frames
    <3>1. Tamper(clientTamper, signature) \in {NoSignature} \cup (BOOLEAN \X {WriteTid, ReadTid})
      BY DEF Tamper
    <3> QED
      BY <3>1, FrameIsTyped
  <2> HIDE DEF frame
  <2>3. SessionTypes'
    BY <1>1, <2>1, SessionTypesStay
  <2>4. toServer' \in Seq(Frames) /\ Len(toServer') = Len(toServer) + 1
    BY <1>1, <2>1, <2>2, FramesQueue DEF FrameTypes
  <2>5. ProgramTypes' /\ FrameTypes'
    BY <1>1, <2>1, <2>4 DEF testVars, ProgramTypes, FrameTypes
  <2> QED
    BY <2>3, <2>5 DEF TypeInv
<1>5. CASE SendRead
  <2> DEFINE frame == Frame("read", ReadTid, FALSE, NoSignature)
  <2>1. /\ UNCHANGED <<status, op, phase, outcome, faulted, testVars, link, toClient>>
        /\ client = "read" /\ client' = "awaitRead" /\ seen' = {status}
        /\ toServer' = Append(toServer, frame)
    BY <1>5 DEF SendRead
  <2>2. frame \in Frames
    BY FrameIsTyped
  <2> HIDE DEF frame
  <2>3. SessionTypes'
    BY <1>1, <2>1 DEF SessionTypes
  <2>4. toServer' \in Seq(Frames) /\ Len(toServer') = Len(toServer) + 1
    BY <1>1, <2>1, <2>2, FramesQueue DEF FrameTypes
  <2>5. ProgramTypes' /\ FrameTypes'
    BY <1>1, <2>1, <2>4 DEF testVars, ProgramTypes, FrameTypes
  <2> QED
    BY <2>3, <2>5 DEF TypeInv
<1>6. CASE WriteReply \/ ReadReply
  <2>1. toClient # <<>> /\ toClient' = Tail(toClient) /\ UNCHANGED <<link, toServer>>
    BY <1>6 DEF WriteReply, ReadReply
  <2>2. /\ toClient' \in Seq(Frames) /\ Len(toClient') = Len(toClient) - 1
        /\ Head(toClient) \in Frames
    BY <1>1, <2>1, FramesQueue DEF FrameTypes
  <2>3. CASE \E rc \in {-1, 0, 1} : client = "awaitWrite" /\ WriteReturns(rc)
    <3>1. ProgramTypes' /\ answer' = answer /\ client' \in {"read", "close"}
      BY <1>1, <2>1, <2>3, ReturnTypes
    <3>2. SessionTypes'
      BY <1>1, <2>3, SessionTypesStay DEF WriteReturns
    <3>3. FrameTypes'
      BY <1>1, <2>1, <2>2, <2>3, <3>1 DEF FrameTypes
    <3> QED
      BY <3>1, <3>2, <3>3 DEF TypeInv
  <2>4. CASE client = "awaitRead" /\ ReadReturns(-1, FALSE) /\ UNCHANGED taVars
    <3>1. ProgramTypes' /\ answer' = answer /\ client' \in {"read", "close"}
      BY <1>1, <2>1, <2>4, ReturnTypes
    <3>2. SessionTypes'
      BY <1>1, <2>4, SessionTypesStay
    <3>3. FrameTypes'
      BY <1>1, <2>1, <2>2, <2>4, <3>1 DEF FrameTypes
    <3> QED
      BY <3>1, <3>2, <3>3 DEF TypeInv
  <2>5. CASE /\ client = "awaitRead" /\ client' = "verifying" /\ answer' = Head(toClient)
             /\ \E on, authentic : Invoke("client", "verify", on, authentic)
             /\ UNCHANGED <<writeRc, readRc, readOn, failed>>
    <3>1. SessionTypes'
      BY <1>1, <2>5, SessionTypesStay
    <3>2. ProgramTypes' /\ FrameTypes'
      BY <1>1, <2>1, <2>2, <2>5 DEF ProgramTypes, FrameTypes
    <3> QED
      BY <3>1, <3>2 DEF TypeInv
  <2> QED
    BY <1>6, <2>3, <2>4, <2>5 DEF WriteReply, ReadReply
<1>7. CASE invCtrl_verifyCoilData
  <2>1. /\ Results("client") /\ UNCHANGED <<link, toServer, toClient>>
        /\ client = "verifying"
    BY <1>7 DEF invCtrl_verifyCoilData
  <2>2. ReadReturns(1, answer.on) \/ ReadReturns(-1, FALSE)
    BY <1>7 DEF invCtrl_verifyCoilData
  <2>3. ProgramTypes' /\ answer' = answer
    BY <1>1, <2>1, <2>2, FrameFields, ReturnTypes DEF FrameTypes
  <2>4. client' = "close"
    BY <2>2, Zenon DEF ReadReturns
  <2>5. SessionTypes'
    BY <1>1, <2>1, SessionTypesStay
  <2>6. FrameTypes'
    BY <1>1, <2>1, <2>3, <2>4 DEF FrameTypes
  <2> QED
    BY <2>3, <2>5, <2>6 DEF TypeInv
<1>8. CASE ResponseTimeout
  <2>1. /\ toClient' = <<>> /\ UNCHANGED <<link, toServer>>
        /\ \/ client = "awaitWrite" /\ WriteReturns(-1)
           \/ client = "awaitRead" /\ ReadReturns(-1, FALSE) /\ UNCHANGED taVars
    BY <1>8 DEF ResponseTimeout
  <2>2. ProgramTypes' /\ answer' = answer /\ client' \in {"read", "close"}
    BY <1>1, <2>1, ReturnTypes
  <2>3. client = "awaitRead" => client' = "close"
    BY <2>1, Zenon DEF ReadReturns
  <2>4. SessionTypes'
    BY <1>1, <2>1, SessionTypesStay DEF WriteReturns
  <2>5. toClient' \in Seq(Frames) /\ Len(toClient') = 0
    BY <2>1
  <2>6. client = "awaitWrite" \/ client' = "close"
    BY <2>1, <2>3
  <2>7. FrameTypes'
    <3>1. UNCHANGED <<query, server, toServer, answer>>
      BY <1>1, <2>1, <2>2
    <3> QED
      BY <1>1, <2>2, <2>5, <2>6, <3>1 DEF FrameTypes
  <2> QED
    BY <2>2, <2>4, <2>7 DEF TypeInv
<1> QED
  BY <1>2, <1>3, <1>4, <1>5, <1>6, <1>7, <1>8 DEF ClientStep

LEMMA ServerTypes ==
    ASSUME Inv, TypeInv, ServerStep
    PROVE  TypeInv'
<1> USE DEF UnderWay, Serving, RequestsSent
<1>1. /\ SessionTypes /\ FrameTypes /\ ProgramTypes
      /\ Len(toServer) \in Nat /\ Len(toClient) \in Nat
      /\ "server" \in Programs
      /\ UNCHANGED <<mode, client, writeRc, readRc, readOn, failed, answer>>
  BY DEF TypeInv, FrameTypes, Programs, ServerStep, Listen, StartFails, Accept,
     Receive, invCtrl_setCoilData, invCtrl_getDataByCoilAddress, Quit, ServerFrame, testVars
<1>2. CASE Listen \/ StartFails \/ Accept \/ Quit
  <2>1. /\ UNCHANGED <<taVars, query, toServer, toClient, refused>>
        /\ link' \in {link, "listening"} /\ server # "invoke"
        /\ server' \in {"accept", "deaf", "receive", "done"}
    BY <1>2 DEF Listen, StartFails, Accept, Quit
  <2>2. SessionTypes'
    BY <1>1, <2>1, SessionTypesStay
  <2>3. ProgramTypes' /\ FrameTypes'
    BY <1>1, <2>1 DEF ProgramTypes, FrameTypes
  <2> QED
    BY <2>2, <2>3 DEF TypeInv
<1>3. CASE Receive
  <2>1. /\ toServer # <<>> /\ toServer' = Tail(toServer) /\ query' = Head(toServer)
        /\ \E kind, on, authentic : Invoke("server", kind, on, authentic)
        /\ server = "receive" /\ server' = "invoke"
        /\ UNCHANGED <<link, toClient, refused>>
    BY <1>3 DEF Receive
  <2>2. /\ toServer' \in Seq(Frames) /\ Len(toServer') = Len(toServer) - 1
        /\ query' \in Frames
    BY <1>1, <2>1, FramesQueue DEF FrameTypes
  <2>3. SessionTypes'
    BY <1>1, <2>1, SessionTypesStay
  <2>4. ProgramTypes' /\ FrameTypes'
    BY <1>1, <2>1, <2>2 DEF ProgramTypes, FrameTypes
  <2> QED
    BY <2>3, <2>4 DEF TypeInv
<1>4. ASSUME NEW frame \in Frames, Reply(frame), Results("server"), server = "invoke",
             query' = NoFrame, UNCHANGED <<link, toServer>>, refused' \in BOOLEAN
      PROVE  TypeInv'
  <2>1. server' \in {"receive", "done"} /\ toClient' \in {toClient, Append(toClient, frame)}
    BY <1>4 DEF Reply
  <2>2. toClient' \in Seq(Frames) /\ Len(toClient') <= Len(toClient) + 1
    BY <1>1, <1>4, <2>1, FramesQueue DEF FrameTypes
  <2>3. NoFrame \in Frames
    BY Zenon DEF NoFrame, Frame, Frames
  <2>4. SessionTypes'
    BY <1>1, <1>4, SessionTypesStay
  <2>5. ProgramTypes'
    BY <1>1, <1>4, <2>1 DEF ProgramTypes
  <2>6. FrameTypes'
    BY <1>1, <1>4, <2>1, <2>2, <2>3 DEF FrameTypes
  <2> QED
    BY <2>4, <2>5, <2>6 DEF TypeInv
<1>5. CASE invCtrl_setCoilData
  <2> DEFINE kind == IF outcome["server"].verified \in AcceptedVerdicts
                     THEN "write" ELSE "exception"
             frame == Frame(kind, query.tid, query.on, NoSignature)
  <2>1. frame \in Frames
    BY <1>1, FrameFields, FrameIsTyped DEF FrameTypes
  <2>2. refused' \in BOOLEAN
    BY <1>5, Zenon DEF invCtrl_setCoilData
  <2>3. /\ Reply(frame) /\ Results("server") /\ server = "invoke" /\ query' = NoFrame
        /\ UNCHANGED <<link, toServer>>
    BY <1>5 DEF invCtrl_setCoilData
  <2> HIDE DEF frame
  <2> QED
    BY <1>4, <2>1, <2>2, <2>3
<1>6. CASE invCtrl_getDataByCoilAddress
  <2>1. /\ query.kind = "read" /\ Results("server") /\ server = "invoke"
        /\ query' = NoFrame /\ UNCHANGED <<link, toServer, refused>>
    BY <1>6 DEF invCtrl_getDataByCoilAddress
  <2>2. PICK on \in IF outcome["server"] = NoSession THEN BOOLEAN ELSE {outcome["server"].on} :
           Reply(Frame("read", query.tid, on,
                       Tamper(serverTamper,
                              IF outcome["server"].attested THEN <<on, query.tid>>
                              ELSE NoSignature)))
    BY <1>6 DEF invCtrl_getDataByCoilAddress
  <2>3. on \in BOOLEAN
    BY <1>1, <2>2 DEF SessionTypes
  <2>4. query.tid = ReadTid
    BY <2>1 DEF Inv, ServerInv, GoodRequest
  <2> DEFINE signature == IF outcome["server"].attested THEN <<on, query.tid>>
                          ELSE NoSignature
             frame == Frame("read", query.tid, on, Tamper(serverTamper, signature))
  <2>5. Tamper(serverTamper, signature) \in {NoSignature} \cup (BOOLEAN \X {WriteTid, ReadTid})
    BY <2>3, <2>4 DEF Tamper
  <2>6. frame \in Frames
    BY <2>3, <2>4, <2>5, FrameIsTyped
  <2>7. Reply(frame) /\ refused' \in BOOLEAN
    BY <1>1, <2>1, <2>2 DEF ProgramTypes
  <2> HIDE DEF frame
  <2> QED
    BY <1>4, <2>1, <2>6, <2>7
<1> QED
  BY <1>2, <1>3, <1>5, <1>6 DEF ServerStep

LEMMA TypesInvariant == Spec => [](Inv /\ TypeInv)
<1>1. Init => TypeInv
  <2> SUFFICES ASSUME Init PROVE TypeInv
    OBVIOUS
  <2>1. TA!NoOutcome.on \in BOOLEAN /\ NoFrame \in Frames
    BY Zenon DEF TA!NoOutcome, TA!Outcome, NoFrame, Frame, Frames
  <2>2. SessionTypes
    BY <2>1, ModbusExchangeAssumption DEF Init, SessionTypes
  <2>3. ProgramTypes
    BY ModbusExchangeAssumption DEF Init, ProgramTypes
  <2>4. <<>> \in Seq(Frames) /\ Len(<<>>) = 0
    OBVIOUS
  <2>5. FrameTypes
    BY <2>1, <2>4 DEF Init, FrameTypes, UnderWay, Serving, RequestsSent
  <2> QED
    BY <2>2, <2>3, <2>5 DEF TypeInv
<1>2. Inv /\ TypeInv /\ [Next]_vars => TypeInv'
  <2>1. TypeInv /\ UNCHANGED vars => TypeInv'
    BY DEF vars, taVars, testVars, TypeInv, ProgramTypes, SessionTypes, FrameTypes,
       UnderWay, Serving, RequestsSent
  <2> QED
    BY <2>1, ClientTypes, ServerTypes, ServeTypes DEF Next
<1> QED
  BY <1>1, <1>2, Invariant, PTL DEF Spec

\* Every variable keeps its type, and no more than two frames are on their way
\* in either direction, however many answers are late.
THEOREM TypeCorrect == Spec => []TypeOK
<1>1. Inv /\ TypeInv => TypeOK
  <2> SUFFICES ASSUME Inv, TypeInv PROVE TypeOK
    OBVIOUS
  <2>1. Len(toServer) <= 2 /\ Len(toClient) <= 2
    BY DEF TypeInv, FrameTypes, UnderWay, Serving, RequestsSent
  <2> QED
    BY <2>1 DEF TypeInv, ProgramTypes, SessionTypes, FrameTypes, TypeOK
<1> QED
  BY <1>1, TypesInvariant, PTL

(***************************************************************************)
(* A nominal run.  The signatures are in order or tampered with as the     *)
(* mode says, so every verdict and with it every reply is determined.      *)
(***************************************************************************)
AllInv == Inv /\ TypeInv /\ TurnInv /\ NominalInv

\* The server only works while the client awaits the answer.
LEMMA ServedIsAwaited ==
    ASSUME AllInv, server = "invoke"
    PROVE  /\ client \in {"awaitWrite", "awaitRead"}
           /\ client = "awaitRead" <=> query.kind = "read"
           /\ query.kind = "read" /\ mode # 3 => status = "on"
<1>1. client \in {"awaitWrite", "awaitRead"}
  BY DEF AllInv, TypeInv, FrameTypes, TurnInv, UnderWay, Serving
<1>2. client = "awaitRead" <=> query.kind = "read"
  BY <1>1 DEF AllInv, Inv, NoReadYet, TurnInv
<1> QED
  BY <1>1, <1>2 DEF AllInv, NominalInv, OutcomeInv

\* Nothing dies, so a session answers what its request calls for.
LEMMA ServeDecides ==
    ASSUME Nominal, AllInv, NEW p \in Programs, Serve(p),
           Finished(p) => Decided(p, outcome[p], status)
    PROVE  \E to \in {"effected", "answered"} : \E result :
               Settles(p, to, result) /\ Decided(p, result, status')
<1>1. status # "absent"
  BY DEF AllInv, NominalInv, OutcomeInv
<1>2. CASE TA!Write(p)
  <2>1. /\ Settles(p, "effected", TA!Outcome(1, FALSE, FALSE))
        /\ op[p].kind = "write" /\ op[p].authentic
    BY <1>2 DEF TA!Write, TA!Settle, Settles
  <2>2. TA!Outcome(1, FALSE, FALSE).verified = 1
    BY Zenon DEF TA!Outcome
  <2> QED
    BY <2>1, <2>2 DEF Decided
<1>3. CASE TA!Read(p)
  <2> DEFINE on == status = "on" /\ (op[p].kind = "read" => op[p].mapped)
             result == TA!Outcome(0, on, op[p].kind = "read")
  <2>1. /\ Settles(p, "effected", result)
        /\ status' = status /\ op[p].kind \in {"read", "readAll"}
    BY <1>3 DEF TA!Read, TA!Settle, Settles
  <2>2. ~result.dead /\ result.on = on /\ result.attested = (op[p].kind = "read")
    BY Zenon DEF TA!Outcome
  <2>3. status = "on" /\ op[p].mapped => result.on
    BY <2>2
  <2> HIDE DEF result
  <2>4. Decided(p, result, status')
    BY <2>1, <2>2, <2>3 DEF Decided
  <2> QED
    BY <2>1, <2>4
<1>4. CASE TA!Judge(p)
  <2>1. PICK result :
           /\ Settles(p, "answered", result)
           /\ \/ /\ op[p].kind \in {"verify", "write"}
                 /\ result = TA!Outcome(IF op[p].authentic THEN 1 ELSE -1, FALSE, FALSE)
              \/ op[p].kind = "sign" /\ result = TA!Outcome(0, FALSE, TRUE)
    BY <1>4 DEF TA!Judge, TA!Settle, Settles
  <2>2. \/ /\ op[p].kind \in {"verify", "write"}
           /\ result.verified = IF op[p].authentic THEN 1 ELSE -1
        \/ op[p].kind = "sign" /\ result.attested
    BY <2>1 DEF TA!Outcome
  <2> QED
    BY <2>1, <2>2 DEF Decided
<1>5. CASE TA!Answer(p)
  <2>1. /\ phase[p] = "effected" /\ Settles(p, "answered", outcome[p])
        /\ status' = status
    BY <1>5 DEF TA!Answer, TA!Settle, Settles
  <2> QED
    BY <2>1 DEF Finished
<1>6. ~Dies(p) /\ ~SessionRefused(p) /\ ~Faults(p)
  BY <1>1 DEF Dies, SessionRefused, Faults, TA!ReadFails, TA!WriteAfterFailedRead,
     TA!CreateFails, Nominal
<1> QED
  BY <1>2, <1>3, <1>4, <1>5, <1>6 DEF Serve

\* What the mode lets be expected of a frame stays while "on" stays stored.
LEMMA ExpectedStays ==
    ASSUME NEW f, mode' = mode, status = "on" => status' = "on"
    PROVE  /\ ExpectedRequest(f) => ExpectedRequest(f)'
           /\ ExpectedReply(f) => ExpectedReply(f)'
  BY DEF ExpectedRequest, ExpectedReply, Signed

LEMMA NominalServe ==
    ASSUME Nominal, AllInv, NEW p \in Programs, Serve(p)
    PROVE  TurnInv' /\ NominalInv'
<1>1. /\ Shape /\ phase[p] \in {"called", "effected"} /\ MayStore(p)
      /\ UNCHANGED <<mode, client, failed, answer, server, query, toServer, toClient>>
      /\ UNCHANGED faulted
  <2>1. UNCHANGED faulted
    BY DEF Serve, Faults, TA!ReadFails, TA!WriteAfterFailedRead, TA!CreateFails, Nominal
  <2> QED
    BY <2>1, ServeEffect DEF AllInv, Inv, testVars
<1>2. TurnInv'
  BY <1>1 DEF AllInv, TurnInv, UnderWay, Serving
<1>3. status' \in {status, "on"} /\ (p = "client" => status' = status)
  <2>1. p = "client" => op[p].kind \in {"sign", "verify"}
    BY <1>1 DEF AllInv, Inv, ClientInv
  <2>2. p = "server" => (op[p].kind = "write" => op[p].on /\ op[p].mapped)
    BY <1>1 DEF AllInv, Inv, ServerInv
  <2> QED
    BY <1>1, <2>1, <2>2 DEF MayStore, Programs
<1>4. OutcomeInv'
  BY <1>1, <1>3 DEF AllInv, NominalInv, OutcomeInv
<1>5. ExpectedFrames'
  BY <1>1, <1>3, ExpectedStays DEF AllInv, NominalInv, ExpectedFrames
<1>6. Finished(p) => Decided(p, outcome[p], status)
  BY <1>1 DEF AllInv, Inv, ServerInv, ClientInv, NominalInv, ServerDecides, ClientDecides,
     Programs
<1>7. PICK to, result : Settles(p, to, result) /\ Decided(p, result, status')
  BY <1>6, ServeDecides
<1>8. /\ op' = op /\ outcome'[p] = result
      /\ \A q \in Programs \ {p} : phase'[q] = phase[q] /\ outcome'[q] = outcome[q]
  BY <1>1, <1>7 DEF Settles, Shape
<1>9. Decided(p, outcome[p], status)'
  BY <1>7, <1>8 DEF Decided
<1>10. ServerDecides'
  <2>1. server = "invoke" /\ Finished("server")'
            => Decided("server", outcome["server"], status)'
    <3>1. CASE p = "server"
      BY <1>9, <3>1
    <3>2. CASE p = "client"
      BY <1>3, <1>8, <3>2
      DEF AllInv, NominalInv, ServerDecides, Finished, Decided, Programs
    <3> QED
      BY <3>1, <3>2 DEF Programs
  <2>2. server = "invoke" =>
            /\ ExpectedRequest(query)'
            /\ op'["server"].authentic <=> query.kind = "write" /\ Signed(query)
    BY <1>1, <1>3, <1>8, ExpectedStays DEF AllInv, NominalInv, ServerDecides
  <2> QED
    BY <1>1, <2>1, <2>2 DEF ServerDecides, Signed
<1>11. ClientDecides'
  <2>1. client \in {"signing", "verifying"} /\ Finished("client")'
            => Decided("client", outcome["client"], status)'
    <3>1. CASE p = "client"
      BY <1>9, <3>1
    <3>2. CASE p = "server"
      <4>1. client \notin {"signing", "verifying"}
        BY <1>1, <3>2, ServedIsAwaited DEF AllInv, Inv, ServerInv
      <4> QED
        BY <4>1
    <3> QED
      BY <3>1, <3>2 DEF Programs
  <2> QED
    BY <1>1, <1>8, <2>1 DEF AllInv, NominalInv, ClientDecides
<1> QED
  BY <1>2, <1>4, <1>5, <1>10, <1>11 DEF NominalInv

\* A step of the client leaves the server's session alone.
LEMMA ServerDecidesStays ==
    ASSUME ServerDecides, UNCHANGED <<server, query, mode, status>>,
           phase'["server"] = phase["server"], op'["server"] = op["server"],
           outcome'["server"] = outcome["server"]
    PROVE  ServerDecides'
  BY DEF ServerDecides, ExpectedRequest, Signed, Finished, Decided

LEMMA ClientDecidesStays ==
    ASSUME ClientDecides, UNCHANGED <<client, answer, mode, status>>,
           phase'["client"] = phase["client"], op'["client"] = op["client"],
           outcome'["client"] = outcome["client"]
    PROVE  ClientDecides'
  BY DEF ClientDecides, Finished, Decided

LEMMA InvokeBegins ==
    ASSUME Shape, NEW p \in Programs, NEW kind, NEW on, NEW authentic,
           Invoke(p, kind, on, authentic)
    PROVE  /\ phase' = [phase EXCEPT ![p] = "called"] /\ phase'[p] = "called"
           /\ \A q \in Programs \ {p} : /\ phase'[q] = phase[q] /\ op'[q] = op[q]
                                       /\ outcome'[q] = outcome[q]
           /\ UNCHANGED <<status, outcome, seen, faulted>>
  BY DEF Invoke, TA!Call, Shape

LEMMA NominalIdle ==
    ASSUME AllInv, Connect \/ CloseClient \/ Listen \/ StartFails \/ Accept \/ Quit
    PROVE  TurnInv' /\ NominalInv'
<1>1. UNCHANGED <<mode, taVars, testVars, query, toServer, toClient>>
  BY DEF Connect, CloseClient, Listen, StartFails, Accept, Quit, ClientFrame, ServerFrame
<1>2. /\ \/ client' = client
         \/ /\ client \in {"connect", "close"} /\ client' \in {"write", "exit"}
      /\ server' = server \/ (server # "invoke" /\ server' # "invoke")
  BY DEF Connect, CloseClient, Listen, StartFails, Accept, Quit, ClientFrame, ServerFrame
<1>3. TurnInv'
  BY <1>1, <1>2 DEF AllInv, TurnInv, UnderWay, Serving
<1>4. OutcomeInv' /\ ExpectedFrames'
  BY <1>1, <1>2, ExpectedStays DEF AllInv, NominalInv, OutcomeInv, ExpectedFrames, taVars,
     testVars
<1>5. ServerDecides' /\ ClientDecides'
  BY <1>1, <1>2 DEF AllInv, NominalInv, ServerDecides, ClientDecides, taVars, testVars,
     ExpectedRequest, Signed, Finished, Decided
<1> QED
  BY <1>3, <1>4, <1>5 DEF NominalInv

LEMMA NominalSignWrite ==
    ASSUME AllInv, SignWrite
    PROVE  TurnInv' /\ NominalInv'
<1>1. /\ Shape /\ "client" \in Programs /\ "server" \in Programs \ {"client"}
      /\ Invoke("client", "sign", TRUE, FALSE) /\ client = "write" /\ client' = "signing"
      /\ UNCHANGED <<mode, failed, answer, server, query, toServer, toClient>>
  BY DEF AllInv, Inv, Programs, SignWrite, ClientFrame, testVars
<1>2. /\ phase'["client"] = "called" /\ UNCHANGED <<status, faulted>>
      /\ phase'["server"] = phase["server"] /\ op'["server"] = op["server"]
      /\ outcome'["server"] = outcome["server"]
  BY <1>1, InvokeBegins
<1>3. TurnInv'
  BY <1>1 DEF AllInv, TurnInv, UnderWay, Serving
<1>4. OutcomeInv' /\ ExpectedFrames' /\ ServerDecides'
  BY <1>1, <1>2, ExpectedStays, ServerDecidesStays
  DEF AllInv, NominalInv, OutcomeInv, ExpectedFrames
<1>5. ClientDecides'
  BY <1>1, <1>2 DEF ClientDecides, Finished
<1> QED
  BY <1>3, <1>4, <1>5 DEF NominalInv

\* The signature is that of the frame, unless the client tampers with it.
LEMMA NominalSignCoilValue ==
    ASSUME AllInv, invCtrl_signCoilValue
    PROVE  TurnInv' /\ NominalInv'
<1> DEFINE signature == IF outcome["client"].attested THEN <<TRUE, WriteTid>>
                        ELSE NoSignature
           frame == Frame("write", WriteTid, TRUE, Tamper(clientTamper, signature))
<1>1. /\ Shape /\ "client" \in Programs /\ "server" \in Programs \ {"client"}
      /\ Results("client") /\ client = "signing" /\ client' = "awaitWrite"
      /\ phase["client"] = "answered" /\ toServer' = Append(toServer, frame)
      /\ UNCHANGED <<mode, failed, answer, server, query, toClient>>
  BY DEF AllInv, Inv, Programs, invCtrl_signCoilValue, ClientFrame, testVars
<1>2. /\ UNCHANGED <<status, faulted>>
      /\ phase'["server"] = phase["server"] /\ op'["server"] = op["server"]
      /\ outcome'["server"] = outcome["server"]
  BY <1>1, SessionEnds
<1>3. /\ frame.kind = "write" /\ frame.tid = WriteTid /\ frame.on = TRUE
      /\ frame.signature = Tamper(clientTamper, signature)
  BY Zenon DEF Frame
<1>4. outcome["client"].attested
  BY <1>1 DEF AllInv, Inv, ClientInv, NominalInv, ClientDecides, Decided, Finished
<1>5. clientTamper <=> mode \in {1, 3}
  BY DEF clientTamper
<1>7. clientTamper => ~Signed(frame)
  BY <1>3, UnsignedFrame, Zenon DEF Tamper
<1>8. ~clientTamper => Signed(frame)
  <2>1. ASSUME ~clientTamper PROVE frame.signature = <<TRUE, WriteTid>>
    BY <1>3, <1>4, <2>1 DEF Tamper
  <2> HIDE DEF frame
  <2> QED
    BY <1>3, <2>1, Zenon DEF Signed
<1>9. ExpectedRequest(frame)
  BY <1>5, <1>7, <1>8 DEF ExpectedRequest
<1> HIDE DEF frame
<1>10. /\ Len(toServer) \in Nat /\ Len(toServer') = Len(toServer) + 1
       /\ \A i \in 1..Len(toServer) : toServer'[i] = toServer[i]
       /\ toServer'[Len(toServer) + 1] = frame
  BY <1>1, Appended DEF Shape
<1>11. TurnInv'
  BY <1>1, <1>10 DEF AllInv, TurnInv, TypeInv, FrameTypes, UnderWay, Serving
<1>12. ExpectedFrames'
  <2>1. \A i \in 1..Len(toServer') : i \in 1..Len(toServer) \/ toServer'[i] = frame
    BY <1>10
  <2>2. \A i \in 1..Len(toServer') : ExpectedRequest(toServer'[i])
    BY <1>9, <1>10, <2>1 DEF AllInv, NominalInv, ExpectedFrames
  <2> QED
    BY <1>1, <1>2, <2>2 DEF AllInv, NominalInv, ExpectedFrames, ExpectedRequest,
       ExpectedReply, Signed
<1>13. OutcomeInv' /\ ServerDecides' /\ ClientDecides'
  BY <1>1, <1>2, ServerDecidesStays
  DEF AllInv, NominalInv, OutcomeInv, ClientDecides
<1> QED
  BY <1>11, <1>12, <1>13 DEF NominalInv

\* The write is acknowledged, unless the client tampered with it.
LEMMA NominalWriteReply ==
    ASSUME AllInv, WriteReply
    PROVE  TurnInv' /\ NominalInv'
<1>1. /\ client = "awaitWrite" /\ toClient # <<>> /\ toClient' = Tail(toClient)
      /\ UNCHANGED <<mode, server, query, toServer>>
      /\ WriteReturns(IF Head(toClient).kind = "write" THEN 1 ELSE -1)
  BY DEF WriteReply, ClientFrame
<1>2. /\ Len(toClient) \in Nat \ {0} /\ Head(toClient) = toClient[1]
      /\ Len(toClient') = Len(toClient) - 1
      /\ \A i \in 1..Len(toClient') : toClient'[i] = toClient[i + 1]
  BY <1>1, Taken DEF AllInv, Inv, Shape
<1>3. /\ mode \in 0..3 /\ failed = "none" /\ faulted = {}
      /\ status \in {"off", "on"}
      /\ mode = 1 => status = "on"
  BY DEF AllInv, NominalInv, OutcomeInv
<1>4. toClient[1].kind = "write" <=> mode \notin {1, 3}
  <2>1. ExpectedReply(toClient[1]) /\ toClient[1].kind # "read"
    BY <1>1, <1>2 DEF AllInv, Inv, NoReadYet, NominalInv, ExpectedFrames
  <2>2. toClient[1] \in Frames
    BY <1>2 DEF AllInv, TypeInv, FrameTypes
  <2>3. toClient[1].kind \in {"none", "write", "read", "exception"}
    BY <2>2 DEF Frames
  <2> QED
    BY <2>1, <2>3 DEF ExpectedReply
<1>5. toClient[1].kind = "write" => status = "on"
  BY <1>2 DEF AllInv, NominalInv, ExpectedFrames, ExpectedReply
<1>6. clientTamper <=> mode \in {1, 3}
  BY DEF clientTamper
<1>7. client' = "read" /\ failed' = "none" /\ UNCHANGED <<taVars, answer>>
  BY <1>1, <1>2, <1>3, <1>4, <1>6 DEF WriteReturns
<1>8. TurnInv'
  BY <1>1, <1>2, <1>7 DEF AllInv, TurnInv, TypeInv, FrameTypes, UnderWay, Serving
<1>9. OutcomeInv'
  BY <1>1, <1>3, <1>4, <1>5, <1>7 DEF OutcomeInv, taVars
<1>10. ExpectedFrames'
  BY <1>1, <1>2, <1>7, ExpectedStays DEF AllInv, NominalInv, ExpectedFrames, taVars
<1>11. ServerDecides' /\ ClientDecides'
  BY <1>1, <1>7, ServerDecidesStays DEF AllInv, NominalInv, ClientDecides, taVars
<1> QED
  BY <1>8, <1>9, <1>10, <1>11 DEF NominalInv

\* The read follows when nothing else is under way any more.
LEMMA NominalSendRead ==
    ASSUME AllInv, SendRead
    PROVE  TurnInv' /\ NominalInv'
<1> DEFINE frame == Frame("read", ReadTid, FALSE, NoSignature)
<1>1. /\ client = "read" /\ client' = "awaitRead" /\ toServer' = Append(toServer, frame)
      /\ UNCHANGED <<mode, status, op, phase, outcome, faulted>>
      /\ UNCHANGED <<failed, answer, server, query, toClient>>
  BY DEF SendRead, ClientFrame, testVars
<1>2. frame.kind = "read"
  BY Zenon DEF Frame
<1> HIDE DEF frame
<1>3. Len(toServer) = 0 /\ Len(toClient) = 0 /\ server # "invoke"
  BY <1>1 DEF AllInv, TurnInv, TypeInv, FrameTypes, UnderWay, Serving
<1>4. Len(toServer') = 1 /\ toServer'[1] = frame
  BY <1>1, <1>3, Appended DEF AllInv, Inv, Shape
<1>5. TurnInv'
  BY <1>1, <1>2, <1>3, <1>4 DEF TurnInv, UnderWay, Serving
<1>6. ExpectedFrames'
  BY <1>1, <1>2, <1>3, <1>4 DEF ExpectedFrames, ExpectedRequest
<1>7. OutcomeInv' /\ ServerDecides' /\ ClientDecides'
  BY <1>1, <1>3 DEF AllInv, NominalInv, OutcomeInv, ServerDecides, ClientDecides
<1> QED
  BY <1>5, <1>6, <1>7 DEF NominalInv

\* Only the answer to the read can come, and it is given to the agent.
LEMMA NominalReadReply ==
    ASSUME AllInv, ReadReply
    PROVE  TurnInv' /\ NominalInv'
<1> DEFINE reply == toClient[1]
<1>1. /\ client = "awaitRead" /\ toClient # <<>> /\ toClient' = Tail(toClient)
      /\ UNCHANGED <<mode, server, query, toServer>>
  BY DEF ReadReply, ClientFrame
<1>2. /\ Len(toClient) \in Nat \ {0} /\ Head(toClient) = reply
      /\ Len(toClient') = Len(toClient) - 1
      /\ \A i \in 1..Len(toClient') : toClient'[i] = toClient[i + 1]
  BY <1>1, Taken DEF AllInv, Inv, Shape
<1>3. /\ reply.kind = "read" /\ reply.tid = ReadTid
      /\ Signed(reply) <=> mode \notin {2, 3}
      /\ mode \notin {2, 3} => reply.on
  BY <1>1, <1>2 DEF AllInv, TurnInv, NominalInv, ExpectedFrames, ExpectedReply
<1>4. /\ Invoke("client", "verify", reply.on, Signed(reply))
      /\ client' = "verifying" /\ answer' = reply /\ failed' = failed
  BY <1>2, <1>3 DEF ReadReply
<1>5. Shape /\ "client" \in Programs /\ "server" \in Programs \ {"client"}
  BY DEF AllInv, Inv, Programs
<1>6. /\ phase'["client"] = "called" /\ UNCHANGED <<status, faulted>>
      /\ phase'["server"] = phase["server"] /\ op'["server"] = op["server"]
      /\ outcome'["server"] = outcome["server"]
  BY <1>4, <1>5, InvokeBegins
<1>7. op'["client"].authentic <=> mode \notin {2, 3}
  <2> DEFINE o == [kind |-> "verify", mapped |-> "verify" \in {"read", "write"},
                   on |-> reply.on, authentic |-> Signed(reply)]
  <2>1. op'["client"] = o
    BY <1>4, Zenon DEF Invoke
  <2>2. o.authentic <=> Signed(reply)
    BY Zenon
  <2> HIDE DEF o
  <2> QED
    BY <1>3, <2>1, <2>2
<1>8. TurnInv'
  BY <1>1, <1>2, <1>4 DEF AllInv, TurnInv, TypeInv, FrameTypes, UnderWay, Serving
<1>9. OutcomeInv' /\ ServerDecides'
  BY <1>1, <1>4, <1>6, ServerDecidesStays DEF AllInv, NominalInv, OutcomeInv
<1>10. ExpectedFrames'
  BY <1>1, <1>2, <1>6, ExpectedStays DEF AllInv, NominalInv, ExpectedFrames
<1>11. ClientDecides'
  BY <1>1, <1>3, <1>4, <1>6, <1>7 DEF ClientDecides, Finished
<1> QED
  BY <1>8, <1>9, <1>10, <1>11 DEF NominalInv

\* The agent accepts the value, unless the server tampered with the signature.
LEMMA NominalVerifyCoilData ==
    ASSUME AllInv, invCtrl_verifyCoilData
    PROVE  TurnInv' /\ NominalInv'
<1>1. /\ Shape /\ "client" \in Programs /\ "server" \in Programs \ {"client"}
      /\ Results("client") /\ client = "verifying" /\ phase["client"] = "answered"
      /\ UNCHANGED <<mode, server, query, toServer, toClient>>
  BY DEF AllInv, Inv, Programs, invCtrl_verifyCoilData, ClientFrame
<1>2. /\ UNCHANGED <<status, faulted>>
      /\ phase'["server"] = phase["server"] /\ op'["server"] = op["server"]
      /\ outcome'["server"] = outcome["server"]
  BY <1>1, SessionEnds
<1>3. failed = "none" /\ (serverTamper <=> mode \in {2, 3})
  BY DEF AllInv, NominalInv, OutcomeInv, serverTamper
<1>4. signatureVerified = IF mode \in {2, 3} THEN -1 ELSE 1
  <2>1. outcome["client"].verified = IF mode \in {2, 3} THEN -1 ELSE 1
    BY <1>1 DEF AllInv, Inv, ClientInv, NominalInv, ClientDecides, Decided, Finished
  <2>2. NoSession.verified \notin {1, -1}
    BY DeadFields DEF TEEC_ERROR
  <2>3. outcome["client"] # NoSession
    BY <2>1, <2>2
  <2> QED
    BY <2>1, <2>3 DEF signatureVerified
<1>5. 1 \in AcceptedVerdicts /\ -1 \notin AcceptedVerdicts
  BY ModbusExchangeAssumption DEF TEEC_ERROR
<1>6. client' = "close" /\ failed' = "none"
  <2>1. CASE mode \notin {2, 3}
    <3>1. ReadReturns(1, answer.on) /\ answer.on
      BY <1>1, <1>4, <1>5, <2>1 DEF invCtrl_verifyCoilData, AllInv, NominalInv, ClientDecides
    <3> QED
      BY <1>3, <2>1, <3>1 DEF ReadReturns
  <2>2. CASE mode \in {2, 3}
    <3>1. ReadReturns(-1, FALSE)
      BY <1>4, <1>5, <2>2 DEF invCtrl_verifyCoilData
    <3> QED
      BY <1>3, <2>2, <3>1 DEF ReadReturns
  <2> QED
    BY <2>1, <2>2
<1>7. TurnInv'
  BY <1>1, <1>6 DEF AllInv, TurnInv, UnderWay, Serving
<1>8. OutcomeInv' /\ ServerDecides'
  BY <1>1, <1>2, <1>6, ServerDecidesStays DEF AllInv, NominalInv, OutcomeInv
<1>9. ExpectedFrames' /\ ClientDecides'
  BY <1>1, <1>2, <1>6, ExpectedStays
  DEF AllInv, NominalInv, ExpectedFrames, ClientDecides
<1> QED
  BY <1>7, <1>8, <1>9 DEF NominalInv

\* A request is judged by the signature it came with.
LEMMA NominalReceive ==
    ASSUME AllInv, Receive
    PROVE  TurnInv' /\ NominalInv'
<1> DEFINE request == toServer[1]
<1>1. /\ Shape /\ "server" \in Programs /\ "client" \in Programs \ {"server"}
      /\ server = "receive" /\ server' = "invoke"
      /\ toServer # <<>> /\ toServer' = Tail(toServer) /\ query' = Head(toServer)
      /\ UNCHANGED <<mode, client, failed, answer, toClient>>
  BY DEF AllInv, Inv, Programs, Receive, ServerFrame, testVars
<1>2. /\ Len(toServer) \in Nat \ {0} /\ Head(toServer) = request
      /\ Len(toServer') = Len(toServer) - 1
      /\ \A i \in 1..Len(toServer') : toServer'[i] = toServer[i + 1]
  BY <1>1, Taken DEF Shape
<1>3. Invoke("server", request.kind, request.on, request.kind = "write" /\ Signed(request))
  BY <1>2 DEF Receive
<1>4. /\ phase'["server"] = "called" /\ UNCHANGED <<status, faulted>>
      /\ phase'["client"] = phase["client"] /\ op'["client"] = op["client"]
      /\ outcome'["client"] = outcome["client"]
  BY <1>1, <1>3, InvokeBegins
<1>5. op'["server"].authentic <=> request.kind = "write" /\ Signed(request)
  <2> DEFINE o == [kind |-> request.kind, mapped |-> request.kind \in {"read", "write"},
                   on |-> request.on,
                   authentic |-> request.kind = "write" /\ Signed(request)]
  <2>1. op'["server"] = o
    BY <1>3, Zenon DEF Invoke
  <2>2. o.authentic <=> request.kind = "write" /\ Signed(request)
    BY Zenon
  <2> HIDE DEF o
  <2> QED
    BY <2>1, <2>2
<1>6. ExpectedRequest(request)
  BY <1>2 DEF AllInv, NominalInv, ExpectedFrames
<1>7. TurnInv'
  BY <1>1, <1>2 DEF AllInv, TurnInv, TypeInv, FrameTypes, UnderWay, Serving
<1>8. OutcomeInv' /\ ClientDecides'
  BY <1>1, <1>4, ClientDecidesStays DEF AllInv, NominalInv, OutcomeInv
<1>9. ExpectedFrames'
  BY <1>1, <1>2, <1>4, ExpectedStays DEF AllInv, NominalInv, ExpectedFrames
<1>10. ServerDecides'
  <2>1. query' = request
    BY <1>1, <1>2
  <2>2. ExpectedRequest(query)'
    BY <1>1, <1>6, <2>1 DEF ExpectedRequest, Signed
  <2>3. op'["server"].authentic <=> query'.kind = "write" /\ Signed(query)'
    BY <1>5, <2>1 DEF Signed
  <2> QED
    BY <1>4, <2>2, <2>3 DEF ServerDecides, Finished
<1> QED
  BY <1>7, <1>8, <1>9, <1>10 DEF NominalInv

LEMMA NominalReplies ==
    ASSUME AllInv, server = "invoke", Results("server"), NEW frame, Reply(frame),
           ExpectedReply(frame), client = "awaitRead" => frame.kind = "read",
           UNCHANGED <<mode, client, failed, answer, toServer>>
    PROVE  TurnInv' /\ NominalInv'
<1>1. Shape /\ "server" \in Programs /\ "client" \in Programs \ {"server"}
  BY DEF AllInv, Inv, Programs
<1>2. /\ UNCHANGED <<status, faulted>>
      /\ phase'["client"] = phase["client"] /\ op'["client"] = op["client"]
      /\ outcome'["client"] = outcome["client"]
  BY <1>1, SessionEnds
<1>3. server' # "invoke" /\ toClient' \in {toClient, Append(toClient, frame)}
  BY DEF Reply
<1>4. /\ Len(toClient) \in Nat /\ Len(toClient') \in Nat /\ Len(toClient') <= Len(toClient) + 1
      /\ \A i \in 1..Len(toClient') :
             \/ i \in 1..Len(toClient) /\ toClient'[i] = toClient[i]
             \/ toClient'[i] = frame
  <2>1. CASE toClient' = toClient
    BY <1>1, <2>1, Appended DEF Shape
  <2>2. CASE toClient' = Append(toClient, frame)
    BY <1>1, <2>2, Appended DEF Shape
  <2> QED
    BY <1>3, <2>1, <2>2
<1>5. TurnInv'
  <2>1. UnderWay' <= UnderWay
    BY <1>3, <1>4 DEF AllInv, TypeInv, FrameTypes, UnderWay, Serving
  <2>2. UnderWay \in Nat /\ UnderWay' \in Nat
    BY <1>4 DEF AllInv, TypeInv, FrameTypes, UnderWay, Serving
  <2> QED
    BY <1>3, <1>4, <2>1, <2>2 DEF AllInv, TurnInv
<1>6. ExpectedFrames'
  BY <1>2, <1>4, ExpectedStays DEF AllInv, NominalInv, ExpectedFrames
<1>7. OutcomeInv' /\ ServerDecides' /\ ClientDecides'
  BY <1>2, <1>3, ClientDecidesStays DEF AllInv, NominalInv, OutcomeInv, ServerDecides
<1> QED
  BY <1>5, <1>6, <1>7 DEF NominalInv

\* The write is stored and acknowledged if its signature is in order.
LEMMA NominalSetCoilData ==
    ASSUME AllInv, invCtrl_setCoilData
    PROVE  TurnInv' /\ NominalInv'
<1> DEFINE kind == IF outcome["server"].verified \in AcceptedVerdicts
                   THEN "write" ELSE "exception"
           frame == Frame(kind, query.tid, query.on, NoSignature)
<1>1. /\ server = "invoke" /\ query.kind = "write" /\ phase["server"] = "answered"
      /\ Results("server") /\ Reply(frame)
      /\ UNCHANGED <<mode, client, failed, answer, toServer>>
  BY DEF invCtrl_setCoilData, ServerFrame, testVars
<1>2. outcome["server"].verified = IF mode \in {1, 3} THEN -1 ELSE 1
  BY <1>1 DEF AllInv, Inv, ServerInv, NominalInv, ServerDecides, ExpectedRequest, Decided,
     Finished
<1>3. mode \notin {1, 3} => status = "on"
  BY <1>1, <1>2 DEF AllInv, Inv, ServerInv, Finished, Stored, NominalInv, OutcomeInv
<1>4. frame.kind = IF mode \in {1, 3} THEN "exception" ELSE "write"
  BY <1>2, ModbusExchangeAssumption DEF Frame, TEEC_ERROR
<1>5. ExpectedReply(frame)
  BY <1>3, <1>4 DEF ExpectedReply
<1>6. client # "awaitRead"
  BY <1>1, ServedIsAwaited
<1> HIDE DEF frame
<1> QED
  BY <1>1, <1>5, <1>6, NominalReplies

\* The value read is the one stored, and signed unless the server tampers.
LEMMA NominalGetData ==
    ASSUME AllInv, invCtrl_getDataByCoilAddress
    PROVE  TurnInv' /\ NominalInv'
<1>1. /\ server = "invoke" /\ query.kind = "read" /\ phase["server"] = "answered"
      /\ Results("server") /\ UNCHANGED <<mode, client, failed, answer, toServer>>
  BY DEF invCtrl_getDataByCoilAddress, ServerFrame, testVars
<1>2. /\ ~outcome["server"].dead /\ outcome["server"].attested
      /\ status = "on" => outcome["server"].on
  BY <1>1 DEF AllInv, Inv, ServerInv, NominalInv, ServerDecides, Decided, Finished
<1> DEFINE on == outcome["server"].on
           frame == Frame("read", query.tid, on,
                          Tamper(serverTamper, <<on, query.tid>>))
<1>3. Reply(frame)
  <2>1. outcome["server"] # NoSession
    BY <1>2, DeadFields
  <2> QED
    BY <1>2, <2>1 DEF invCtrl_getDataByCoilAddress
<1>4. /\ frame.kind = "read" /\ frame.tid = query.tid /\ frame.on = on
      /\ frame.signature = Tamper(serverTamper, <<on, query.tid>>)
  BY Zenon DEF Frame
<1>5. query.tid = ReadTid
  BY <1>1 DEF AllInv, Inv, ServerInv, GoodRequest
<1>6. serverTamper <=> mode \in {2, 3}
  BY DEF serverTamper
<1>7. Signed(frame) <=> ~serverTamper
  <2>1. serverTamper => ~Signed(frame)
    BY <1>4, UnsignedFrame, Zenon DEF Tamper
  <2>2. ~serverTamper => frame.signature = <<on, query.tid>>
    BY <1>4, Zenon DEF Tamper
  <2>3. ~serverTamper => Signed(frame)
    BY <1>4, <2>2, Zenon DEF Signed
  <2> QED
    BY <2>1, <2>3
<1> HIDE DEF frame
<1>8. mode \notin {2, 3} => frame.on
  BY <1>1, <1>2, <1>4, ServedIsAwaited
<1>9. ExpectedReply(frame)
  BY <1>4, <1>5, <1>6, <1>7, <1>8 DEF ExpectedReply
<1> QED
  BY <1>1, <1>3, <1>4, <1>9, NominalReplies

LEMMA NominalInit == Nominal /\ Init => TurnInv /\ NominalInv
<1> SUFFICES ASSUME Nominal, Init PROVE TurnInv /\ NominalInv
  OBVIOUS
<1>1. Len(toServer) = 0 /\ Len(toClient) = 0
  BY DEF Init
<1>2. mode \in 0..3 /\ status \in {"off", "on"} /\ (mode = 1 => status = "on")
  BY ModbusExchangeAssumption DEF Nominal, Init
<1> QED
  BY <1>1, <1>2 DEF Init, TurnInv, UnderWay, Serving, NominalInv, OutcomeInv,
     ExpectedFrames, ServerDecides, ClientDecides

LEMMA NominalStep ==
    ASSUME Nominal, AllInv, [Next]_vars
    PROVE  TurnInv' /\ NominalInv'
<1>1. CASE ClientStep
  BY <1>1, NominalIdle, NominalSignWrite, NominalSignCoilValue, NominalWriteReply,
     NominalSendRead, NominalReadReply, NominalVerifyCoilData DEF ClientStep
<1>2. CASE ServerStep
  BY <1>2, NominalIdle, NominalReceive, NominalSetCoilData, NominalGetData DEF ServerStep
<1>3. ~ResponseTimeout
  BY DEF ResponseTimeout, Nominal
<1>4. CASE \E p \in Programs : Serve(p)
  BY <1>4, NominalServe
<1>5. CASE UNCHANGED vars
  <2>1. TurnInv' /\ OutcomeInv' /\ ExpectedFrames'
    BY <1>5 DEF vars, taVars, testVars, AllInv, TurnInv, UnderWay, Serving, NominalInv,
       OutcomeInv, ExpectedFrames, ExpectedRequest, ExpectedReply, Signed
  <2>2. ServerDecides' /\ ClientDecides'
    BY <1>5, ServerDecidesStays, ClientDecidesStays
    DEF vars, taVars, testVars, AllInv, NominalInv
  <2> QED
    BY <2>1, <2>2 DEF NominalInv
<1> QED
  BY <1>1, <1>2, <1>3, <1>4, <1>5 DEF Next

\* The assertions of client.c on its write and its read hold, in every tamper
\* mode, when the coils are seeded, nothing fails and nothing is late, whichever
\* of the two readings of the verdicts libmodbus has - except in mode 1 over a
\* stored "off", where the refused write leaves the "off" that the client then
\* reads against its assertion (exchange_client_tamper).
THEOREM NominalAssertionsHold == Nominal => (Spec => []AssertionsHold)
<1> SUFFICES ASSUME Nominal PROVE Spec => []AssertionsHold
  OBVIOUS
<1>1. Init => TurnInv /\ NominalInv
  BY NominalInit
<1>2. Inv /\ TypeInv /\ TurnInv /\ NominalInv /\ [Next]_vars => TurnInv' /\ NominalInv'
  BY NominalStep DEF AllInv
<1>3. NominalInv => AssertionsHold
  BY DEF NominalInv, OutcomeInv, AssertionsHold
<1> QED
  BY <1>1, <1>2, <1>3, TypesInvariant, PTL DEF Spec

(***************************************************************************)
(* "Tamper detected by the server".  Without a timeout the client hears of *)
(* its write from the server, and a tampered one is refused by its         *)
(* signature, unless its session is refused or dies and libmodbus takes    *)
(* the error code or the 0 that the agent returns then for a refusal.      *)
(***************************************************************************)
Heard == ~Timeouts /\ (~TeeFaults \/ {0, TEEC_ERROR} \subseteq AcceptedVerdicts)

\* What the agent may return for a tampered write.
RefusalVerdicts == IF TeeFaults THEN {-1, 0, TEEC_ERROR} ELSE {-1}

RefusalInv ==
    mode \in {1, 3} =>
        /\ server = "invoke" /\ query.kind = "write" /\ Finished("server")
              => outcome["server"].verified \in RefusalVerdicts
        /\ \A i \in 1..Len(toClient) :
              /\ toClient[i].kind # "none"
              /\ toClient[i].kind = "exception" => refused
        /\ writeRc = -1 => refused

\* The session of a tampered write has the verdict -1, dies, or is refused.
LEMMA RefusalServe ==
    ASSUME Inv, RefusalInv, NEW p \in Programs, Serve(p)
    PROVE  RefusalInv'
<1>1. /\ Shape /\ UNCHANGED <<mode, server, query, toClient, writeRc, refused>>
  BY DEF Inv, Serve, testVars
<1>2. SUFFICES ASSUME mode \in {1, 3}, server = "invoke", query.kind = "write",
                      Finished("server")'
               PROVE  outcome'["server"].verified \in RefusalVerdicts
  BY <1>1 DEF RefusalInv
<1>3. op["server"].kind = "write" /\ ~op["server"].authentic
  BY <1>2 DEF Inv, ServerInv, GoodRequest
<1>4. PICK to, result : Settles(p, to, result)
  BY <1>1, ServeEffect
<1>5. CASE p = "client"
  BY <1>1, <1>2, <1>4, <1>5 DEF Settles, Shape, Programs, Finished, RefusalInv
<1>6. CASE p = "server"
  <2>1. ~TA!Write(p) /\ ~TA!Read(p) /\ ~Faults(p)
    BY <1>3, <1>6 DEF TA!Write, TA!Read, Faults, TA!ReadFails, TA!WriteAfterFailedRead,
       TA!CreateFails
  <2>2. CASE TA!Judge(p)
    <3>1. outcome' = [outcome EXCEPT ![p] = TA!Outcome(-1, FALSE, FALSE)]
      BY <1>3, <1>6, <2>2 DEF TA!Judge, TA!Settle
    <3>2. TA!Outcome(-1, FALSE, FALSE).verified = -1
      BY Zenon DEF TA!Outcome
    <3> QED
      BY <1>1, <1>6, <3>1, <3>2 DEF Shape, RefusalVerdicts
  <2>3. CASE TA!Answer(p)
    BY <1>1, <1>2, <1>6, <2>3 DEF TA!Answer, TA!Settle, Finished, RefusalInv, Shape
  <2>4. CASE Dies(p)
    <3>1. TeeFaults /\ outcome' = [outcome EXCEPT ![p] = TA!Dead]
      BY <1>3, <1>6, <2>4 DEF Dies, TA!Die, TA!Settle
    <3> QED
      BY <1>1, <1>6, <3>1, DeadFields DEF Shape, RefusalVerdicts
  <2>5. CASE SessionRefused(p)
    <3>1. TeeFaults /\ outcome' = [outcome EXCEPT ![p] = NoSession]
      BY <1>6, <2>5 DEF SessionRefused, TA!Settle
    <3> QED
      BY <1>1, <1>6, <3>1, DeadFields DEF Shape, RefusalVerdicts
  <2> QED
    BY <2>1, <2>2, <2>3, <2>4, <2>5 DEF Serve
<1> QED
  BY <1>5, <1>6 DEF Programs

\* A reply is the write's, or the read's; an exception follows a verdict of -1.
LEMMA RefusalReplies ==
    ASSUME Heard, Inv, RefusalInv, invCtrl_setCoilData \/ invCtrl_getDataByCoilAddress
    PROVE  RefusalInv'
<1>1. SUFFICES ASSUME mode \in {1, 3} PROVE RefusalInv'
  BY DEF RefusalInv, invCtrl_setCoilData, invCtrl_getDataByCoilAddress, ServerFrame
<1>2. PICK frame :
         /\ Reply(frame) /\ frame.kind # "none"
         /\ frame.kind = "exception" => refused'
  <2>1. CASE invCtrl_setCoilData
    <3> DEFINE verdict == outcome["server"].verified
               kind == IF verdict \in AcceptedVerdicts THEN "write" ELSE "exception"
               frame == Frame(kind, query.tid, query.on, NoSignature)
    <3>1. /\ server = "invoke" /\ query.kind = "write" /\ phase["server"] = "answered"
          /\ Reply(frame) /\ refused' = (refused \/ verdict = -1)
      BY <2>1 DEF invCtrl_setCoilData
    <3>2. frame.kind = kind
      BY Zenon DEF Frame
    <3>3. verdict \in RefusalVerdicts
      BY <1>1, <3>1 DEF RefusalInv, Finished
    <3>4. verdict \notin AcceptedVerdicts => verdict = -1
      BY <3>3 DEF Heard, RefusalVerdicts
    <3> HIDE DEF frame, verdict
    <3> QED
      BY <3>1, <3>2, <3>4
  <2>2. CASE invCtrl_getDataByCoilAddress
    <3>1. PICK on, signature : Reply(Frame("read", query.tid, on, signature))
      BY <2>2 DEF invCtrl_getDataByCoilAddress
    <3>2. Frame("read", query.tid, on, signature).kind = "read"
      BY Zenon DEF Frame
    <3> QED
      BY <3>1, <3>2
  <2> QED
    BY <2>1, <2>2
<1>3. /\ server' # "invoke" /\ toClient' \in {toClient, Append(toClient, frame)}
      /\ UNCHANGED <<mode, writeRc>> /\ (refused => refused')
  <2>1. server' # "invoke" /\ toClient' \in {toClient, Append(toClient, frame)}
    BY <1>2 DEF Reply
  <2>2. CASE invCtrl_setCoilData
    BY <2>1, <2>2 DEF invCtrl_setCoilData, ServerFrame, testVars
  <2>3. CASE invCtrl_getDataByCoilAddress
    BY <2>1, <2>3 DEF invCtrl_getDataByCoilAddress, ServerFrame, testVars
  <2> QED
    BY <2>2, <2>3
<1>4. \A i \in 1..Len(toClient') :
         \/ i \in 1..Len(toClient) /\ toClient'[i] = toClient[i]
         \/ toClient'[i] = frame
  <2>1. CASE toClient' = toClient
    BY <2>1
  <2>2. CASE toClient' = Append(toClient, frame)
    BY <2>2, Appended DEF Inv, Shape
  <2> QED
    BY <1>3, <2>1, <2>2
<1> QED
  BY <1>1, <1>2, <1>3, <1>4 DEF RefusalInv

\* The write's return code is the reply's.
LEMMA RefusalWriteReply ==
    ASSUME Inv, TypeInv, RefusalInv, WriteReply
    PROVE  RefusalInv'
<1>1. /\ client = "awaitWrite" /\ toClient # <<>> /\ toClient' = Tail(toClient)
      /\ writeRc' = IF Head(toClient).kind = "write" THEN 1 ELSE -1
      /\ UNCHANGED <<mode, server, query, refused, phase, outcome>>
  BY DEF WriteReply, WriteReturns, ClientFrame, taVars
<1>2. /\ Len(toClient) \in Nat \ {0} /\ Head(toClient) = toClient[1]
      /\ Len(toClient') = Len(toClient) - 1
      /\ \A i \in 1..Len(toClient') : toClient'[i] = toClient[i + 1]
  BY <1>1, Taken DEF Inv, Shape
<1>3. toClient[1].kind \in {"none", "write", "read", "exception"}
  <2>1. toClient[1] \in Frames
    BY <1>2 DEF TypeInv, FrameTypes
  <2> QED
    BY <2>1 DEF Frames
<1>4. toClient[1].kind # "read"
  BY <1>1, <1>2 DEF Inv, NoReadYet
<1> QED
  BY <1>1, <1>2, <1>3, <1>4 DEF RefusalInv, Finished

\* The other steps: they give the client nothing, and no verdict to the server.
LEMMA RefusalStep ==
    ASSUME Heard, Inv, TypeInv, RefusalInv, [Next]_vars
    PROVE  RefusalInv'
<1>0. Shape /\ "server" \in Programs /\ "client" \in Programs
  BY DEF Inv, Programs
<1> DEFINE SameSession == /\ phase'["server"] = phase["server"]
                          /\ outcome'["server"] = outcome["server"]
<1>1. ASSUME UNCHANGED <<mode, server, query, toClient, writeRc, refused>>, SameSession
      PROVE  RefusalInv'
  BY <1>1 DEF RefusalInv, Finished
<1>2. CASE Connect \/ CloseClient \/ SendRead
  BY <1>1, <1>2 DEF Connect, CloseClient, SendRead, ClientFrame, taVars, testVars
<1>3. CASE Listen \/ StartFails \/ Accept \/ Quit
  <2>1. /\ UNCHANGED <<mode, query, toClient, writeRc, refused, phase, outcome>>
        /\ server' = server \/ server' # "invoke"
    BY <1>3 DEF Listen, StartFails, Accept, Quit, ServerFrame, taVars, testVars
  <2> QED
    BY <2>1 DEF RefusalInv, Finished
<1>4. CASE SignWrite
  <2>1. Invoke("client", "sign", TRUE, FALSE)
    BY <1>4 DEF SignWrite
  <2>2. SameSession
    BY <1>0, <2>1, InvokeBegins
  <2> QED
    BY <1>1, <1>4, <2>2 DEF SignWrite, ClientFrame, testVars
<1>5. CASE invCtrl_signCoilValue
  <2>1. SameSession
    BY <1>0, <1>5, SessionEnds DEF invCtrl_signCoilValue
  <2> QED
    BY <1>1, <1>5, <2>1 DEF invCtrl_signCoilValue, ClientFrame, testVars
<1>6. CASE ReadReply
  <2>1. SameSession
    <3>1. \/ UNCHANGED <<phase, outcome>>
          \/ \E on, authentic : Invoke("client", "verify", on, authentic)
      BY <1>6 DEF ReadReply, taVars
    <3> QED
      BY <1>0, <3>1, InvokeBegins
  <2>2. /\ toClient # <<>> /\ toClient' = Tail(toClient)
        /\ UNCHANGED <<mode, server, query, writeRc, refused>>
    BY <1>6 DEF ReadReply, ReadReturns, ClientFrame
  <2>3. /\ Len(toClient) \in Nat \ {0} /\ Len(toClient') = Len(toClient) - 1
        /\ \A i \in 1..Len(toClient') : toClient'[i] = toClient[i + 1]
    BY <2>2, Taken DEF Inv, Shape
  <2> QED
    BY <2>1, <2>2, <2>3 DEF RefusalInv, Finished
<1>7. CASE invCtrl_verifyCoilData
  <2>1. SameSession
    BY <1>0, <1>7, SessionEnds DEF invCtrl_verifyCoilData
  <2> QED
    BY <1>1, <1>7, <2>1 DEF invCtrl_verifyCoilData, ReadReturns, ClientFrame
<1>8. CASE Receive
  <2>1. PICK kind, on, authentic : Invoke("server", kind, on, authentic)
    BY <1>8 DEF Receive
  <2>2. phase'["server"] = "called"
    BY <1>0, <2>1, InvokeBegins
  <2> QED
    BY <1>8, <2>2 DEF Receive, ServerFrame, testVars, RefusalInv, Finished
<1>9. CASE ClientStep
  BY <1>2, <1>4, <1>5, <1>6, <1>7, <1>9, RefusalWriteReply DEF ClientStep
<1>10. CASE ServerStep
  BY <1>3, <1>8, <1>10, RefusalReplies DEF ServerStep
<1>11. ~ResponseTimeout
  BY DEF ResponseTimeout, Heard
<1>12. CASE \E p \in Programs : Serve(p)
  BY <1>12, RefusalServe
<1>13. CASE UNCHANGED vars
  BY <1>1, <1>13 DEF vars, taVars, testVars
<1> QED
  BY <1>9, <1>10, <1>11, <1>12, <1>13 DEF Next

\* The client's message that the server has detected its tampering is true in
\* every mode, over any stored status and any failing storage, if no answer is
\* late and either the TEE refuses no session and lets no call die, or libmodbus
\* acknowledges both the error code of a session that was refused and the 0 of
\* one that died.  With timeouts it is not (exchange_tamper_message).
THEOREM TamperMessageWithoutTimeouts == Heard => (Spec => []TamperMessageIsTrue)
<1> SUFFICES ASSUME Heard PROVE Spec => []TamperMessageIsTrue
  OBVIOUS
<1>1. Init => RefusalInv
  <2> SUFFICES ASSUME Init PROVE RefusalInv
    OBVIOUS
  <2>1. Len(toClient) = 0
    BY DEF Init
  <2> QED
    BY <2>1 DEF Init, RefusalInv
<1>2. Inv /\ TypeInv /\ RefusalInv /\ [Next]_vars => RefusalInv'
  BY RefusalStep
<1>3. RefusalInv => TamperMessageIsTrue
  BY DEF RefusalInv, TamperMessageIsTrue, clientTamper
<1> QED
  BY <1>1, <1>2, <1>3, TypesInvariant, PTL DEF Spec

=============================================================================
