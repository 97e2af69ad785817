------------------------- MODULE HostSessionProofs -------------------------
(***************************************************************************)
(* Theorems about the host library for any programs, any requests and any  *)
(* number of contexts and sessions.                                        *)
(***************************************************************************)
EXTENDS HostSession, CoilBitsProofs, FiniteSetTheorems, TLAPS

\* What a signature in circulation stands for was signed.
LEMMA SignaturesAreSigned ==
    ASSUME signed \subseteq Coil \X Tids, NEW v \in Coil, NEW t \in Tids,
           SignedData(v, t) \in Signatures
    PROVE  <<v, t>> \in signed
<1>1. SignedData(v, t) # NoSignature
  BY DEF SignedData, NoSignature
<1>2. PICK s \in signed : SignedData(v, t) = SignedData(s[1], s[2])
  BY <1>1 DEF Signatures
<1>3. s[1] \in Coil /\ s[2] \in Tids /\ s = <<s[1], s[2]>>
  OBVIOUS
<1>4. Coil \subseteq Byte /\ Tids \subseteq UInt16
  BY HostSessionAssumption DEF Coil, Byte
<1>5. v = s[1] /\ t = s[2]
  BY <1>2, <1>3, <1>4, SignedDataInjective
<1> QED
  BY <1>3, <1>5

(***************************************************************************)
(* Contexts and sessions are accounted for by where the programs are, and  *)
(* a verdict by the call it was given for.                                 *)
(***************************************************************************)
Places == {"running", "initialize", "open", "invoke", "close", "finalize"}

CountInv ==
    /\ pc \in [Programs -> Places]
    /\ contexts \in [Programs -> 0..MaxContexts]
    /\ opensLost \in [Programs -> Nat]
    /\ OnlyFailedOpensLeak

SessionInv == free \in Nat /\ SessionsComeBack

CallInv ==
    /\ signed \subseteq Coil \X Tids
    /\ call \in [Programs -> Calls \cup {NoCall}]
    /\ told \in [Programs -> Int]
    /\ \A p \in Programs :
          told[p] \in {1, -1} =>
              /\ call[p].function \in {"setCoilData1", "verifyCoilData1"}
              /\ told[p] = Verdict(call[p])

LEMMA CountsStep ==
    ASSUME CountInv, NEW p \in Programs, Call(p) \/ Exit(p) \/ Step(p)
    PROVE  CountInv'
<1> USE DEF CountInv, OnlyFailedOpensLeak, Places, At
<1>0. MaxContexts \in Nat \ {0}
  BY HostSessionAssumption
<1>1. CASE Call(p)
  BY <1>1 DEF Call
<1>2. CASE Exit(p)
  BY <1>0, <1>2 DEF Exit
<1>3. ASSUME NEW res, Return(p, res) PROVE \E q \in {"initialize", "running"} :
                                             pc' = [pc EXCEPT ![p] = q]
  BY <1>3 DEF Return
<1>4. CASE InitializeContext(p)
  BY <1>0, <1>3, <1>4 DEF InitializeContext
<1>5. CASE OpenSession(p)
  BY <1>0, <1>3, <1>5 DEF OpenSession
<1>6. CASE InvokeCommand(p)
  BY <1>6 DEF InvokeCommand
<1>7. CASE CloseSession(p)
  BY <1>7 DEF CloseSession
<1>8. CASE FinalizeContext(p)
  BY <1>0, <1>3, <1>8 DEF FinalizeContext
<1> QED
  BY <1>1, <1>2, <1>4, <1>5, <1>6, <1>7, <1>8 DEF Step

\* A process leaks one context for each session it could not open, and
\* nothing on any other path.
THEOREM LeaksAreFailedOpens == Spec => []OnlyFailedOpensLeak
<1>1. Init => CountInv
  BY HostSessionAssumption DEF Init, CountInv, OnlyFailedOpensLeak, Places
<1>2. CountInv /\ [Next]_vars => CountInv'
  <2>1. CASE UNCHANGED vars
    BY <2>1 DEF vars, CountInv, OnlyFailedOpensLeak
  <2> QED
    BY <2>1, CountsStep DEF Next
<1>3. CountInv => OnlyFailedOpensLeak
  BY DEF CountInv
<1> QED
  BY <1>1, <1>2, <1>3, PTL DEF Spec

(***************************************************************************)
(* Verdicts                                                                *)
(***************************************************************************)
LEMMA ErrorsAreNoVerdicts ==
    /\ TEEC_ERROR_GENERIC \in Int \ {1, -1}
    /\ TEEC_ERROR_OUT_OF_MEMORY \in Int \ {1, -1}
BY SMTT(60) DEF TEEC_ERROR_GENERIC, TEEC_ERROR_OUT_OF_MEMORY

LEMMA RequestTypes ==
    /\ \A c \in Calls : c.value \in Coil /\ c.tid \in Tids /\ c.signature \in Signatures
    /\ NoCall.function = "none"
    /\ \A c \in Calls : c.function = "seedCoil" =>
          [c EXCEPT !.function = "printAllCoilData"] \in Calls
BY DEF Calls, Requests, NoCall, Coil, Signatures

\* No signature is forgotten.
LEMMA MoreSignatures ==
    ASSUME signed \subseteq signed'
    PROVE  Calls \subseteq Calls'
<1>1. Signatures \subseteq Signatures'
  BY DEF Signatures
<1> QED
  BY <1>1 DEF Calls, Requests

\* A return leaves a verdict as it is, or an error in its place.
LEMMA ReturnKeepsVerdicts ==
    ASSUME CallInv, NEW p \in Programs, NEW res \in Int, Return(p, res),
           signed' = signed,
           res \in {1, -1} => res = told[p]
    PROVE  CallInv'
<1>1. Calls' = Calls
  BY DEF Calls, Requests, Signatures
<1>2. CASE call[p].function = "seedCoil"
  <2>1. /\ call' = [call EXCEPT ![p] = [call[p] EXCEPT !.function = "printAllCoilData"]]
        /\ told' = told
    BY <1>2 DEF Return, CallInv
  <2>2. call[p] \in Calls
    BY <1>2, RequestTypes DEF CallInv
  <2>3. [call[p] EXCEPT !.function = "printAllCoilData"] \in Calls
    BY <1>2, <2>2, RequestTypes
  <2>4. told[p] \notin {1, -1}
    BY <1>2 DEF CallInv
  <2> QED
    BY <1>1, <2>1, <2>3, <2>4 DEF CallInv
<1>3. CASE call[p].function \in {"setCoilData1", "verifyCoilData1"}
  <2>1. call' = call /\ told' \in {told, [told EXCEPT ![p] = res]}
    BY <1>3 DEF Return, CallInv
  <2> QED
    BY <1>1, <1>3, <2>1 DEF CallInv
<1>4. CASE call[p].function \notin {"seedCoil", "setCoilData1", "verifyCoilData1"}
  <2>1. call' = [call EXCEPT ![p] = NoCall] /\ told' = told
    BY <1>4 DEF Return, CallInv
  <2>2. told[p] \notin {1, -1}
    BY <1>4 DEF CallInv
  <2> QED
    BY <1>1, <2>1, <2>2 DEF CallInv
<1> QED
  BY <1>2, <1>3, <1>4

LEMMA CallStep ==
    ASSUME CallInv, NEW p \in Programs, Call(p) \/ Exit(p) \/ Step(p)
    PROVE  CallInv'
<1>1. signed' = signed => Calls' = Calls
  BY DEF Calls, Requests, Signatures
<1>2. told[p] \in Int
  BY DEF CallInv
<1>3. CASE Call(p)
  <2>1. PICK c \in Calls : call' = [call EXCEPT ![p] = c]
    BY <1>3 DEF Call
  <2>2. signed' = signed /\ told' = [told EXCEPT ![p] = 0]
    BY <1>3 DEF Call
  <2> QED
    BY <1>1, <2>1, <2>2 DEF CallInv
<1>4. CASE Exit(p)
  BY <1>1, <1>4 DEF Exit, CallInv
<1>5. CASE InitializeContext(p)
  <2>1. CASE Return(p, TEEC_ERROR_GENERIC)
    BY <1>5, <2>1, ErrorsAreNoVerdicts, ReturnKeepsVerdicts DEF InitializeContext
  <2>2. CASE ~Return(p, TEEC_ERROR_GENERIC)
    BY <1>1, <1>5, <2>2 DEF InitializeContext, CallInv
  <2> QED
    BY <2>1, <2>2
<1>6. CASE OpenSession(p)
  <2>1. CASE Return(p, TEEC_ERROR_OUT_OF_MEMORY)
    BY <1>6, <2>1, ErrorsAreNoVerdicts, ReturnKeepsVerdicts DEF OpenSession
  <2>2. CASE ~Return(p, TEEC_ERROR_OUT_OF_MEMORY)
    BY <1>1, <1>6, <2>2 DEF OpenSession, CallInv
  <2> QED
    BY <2>1, <2>2
<1>7. CASE InvokeCommand(p)
  <2>1. call' = call
    BY <1>7 DEF InvokeCommand
  <2>2. CASE told' = told /\ signed' = signed
    BY <1>1, <2>1, <2>2 DEF CallInv
  <2>3. CASE /\ told' = [told EXCEPT ![p] = Verdict(call[p])] /\ signed' = signed
             /\ call[p].function \in {"setCoilData1", "verifyCoilData1"}
    BY <1>1, <2>1, <2>3 DEF CallInv, Verdict
  <2>4. ASSUME NEW v \in Coil, Sign(v, call[p].tid), told' = told,
               call[p].function # "none"
        PROVE  CallInv'
    <3>1. call[p].tid \in Tids
      BY <2>4, RequestTypes DEF CallInv
    <3>2. signed' \subseteq Coil \X Tids /\ signed \subseteq signed'
      BY <2>4, <3>1 DEF Sign, CallInv
    <3>3. Calls \subseteq Calls'
      BY <3>2, MoreSignatures
    <3> QED
      BY <2>1, <2>4, <3>2, <3>3 DEF CallInv
  <2>5. call[p].function = "signCoilValue1" => call[p].value \in Coil
    BY RequestTypes DEF CallInv
  <2> QED
    BY <1>7, <2>2, <2>3, <2>4, <2>5 DEF InvokeCommand, Answered, Died, Asks,
       host_seedCoil, host_printAllCoilData, host_getDataByCoilAddress,
       host_setCoilData1, host_verifyCoilData1, host_signCoilValue1
<1>8. CASE CloseSession(p)
  BY <1>1, <1>8 DEF CloseSession, CallInv
<1>9. CASE FinalizeContext(p)
  BY <1>2, <1>9, ReturnKeepsVerdicts DEF FinalizeContext
<1> QED
  BY <1>3, <1>4, <1>5, <1>6, <1>7, <1>8, <1>9 DEF Step

LEMMA CallsInvariant == Spec => []CallInv
<1>1. Init => CallInv
  BY DEF Init, CallInv
<1>2. CallInv /\ [Next]_vars => CallInv'
  <2>1. CASE UNCHANGED vars
    BY <2>1 DEF vars, CallInv, Calls, Requests, Signatures
  <2> QED
    BY <2>1, CallStep DEF Next
<1> QED
  BY <1>1, <1>2, PTL DEF Spec

\* "Verified" is said only of a value that was signed under the call's own id.
THEOREM VerifiedOnlyIfSigned == Spec => []VerifiedWasSigned
<1>1. CallInv => VerifiedWasSigned
  <2> SUFFICES ASSUME CallInv, NEW p \in Programs, told[p] = 1
               PROVE  <<call[p].value, call[p].tid>> \in signed
    BY DEF VerifiedWasSigned, Told
  <2>1. call[p] \in Calls /\ Verdict(call[p]) = 1
    BY RequestTypes DEF CallInv
  <2>2. SignedData(call[p].value, call[p].tid) \in Signatures
    BY <2>1, RequestTypes DEF Verdict
  <2> QED
    BY <2>1, <2>2, RequestTypes, SignaturesAreSigned DEF CallInv
<1> QED
  BY <1>1, CallsInvariant, PTL

\* "Tampered" is said only of a signature that is not that of the call's bytes.
THEOREM TamperedOnlyIfForged == Spec => []TamperedWasForged
<1>1. CallInv => TamperedWasForged
  BY DEF CallInv, TamperedWasForged, Told, Verdict
<1> QED
  BY <1>1, CallsInvariant, PTL

(***************************************************************************)
(* Room                                                                    *)
(***************************************************************************)
LEMMA SessionsFinite ==
    /\ IsFiniteSet(InSession) /\ Cardinality(InSession) \in Nat
    /\ \A p \in Programs : p \notin InSession =>
          Cardinality(InSession) < Cardinality(Programs)
<1>1. IsFiniteSet(Programs) /\ InSession \in SUBSET Programs
  BY HostSessionAssumption DEF InSession
<1>2. /\ IsFiniteSet(InSession) /\ Cardinality(InSession) <= Cardinality(Programs)
      /\ Cardinality(Programs) = Cardinality(InSession) => Programs = InSession
  BY <1>1, FS_Subset
<1>3. Cardinality(InSession) \in Nat /\ Cardinality(Programs) \in Nat
  BY <1>1, <1>2, FS_CardinalityType
<1> QED
  BY <1>2, <1>3

LEMMA SessionStep ==
    ASSUME CountInv, SessionInv, NEW p \in Programs, Call(p) \/ Exit(p) \/ Step(p)
    PROVE  SessionInv'
<1> USE DEF CountInv, At
<1>1. /\ free \in Nat /\ MaxSessions \in Nat /\ Cardinality(InSession) \in Nat
      /\ free + Cardinality(InSession) = MaxSessions
  BY SessionsFinite, HostSessionAssumption DEF SessionInv, SessionsComeBack
<1>2. ASSUME free' = free, InSession' = InSession PROVE SessionInv'
  BY <1>1, <1>2 DEF SessionInv, SessionsComeBack
<1>3. ASSUME NEW q \in {"running", "initialize", "open"},
             pc' = [pc EXCEPT ![p] = q], pc[p] \notin {"invoke", "close"}
      PROVE  InSession' = InSession
  BY <1>3 DEF InSession
<1>4. ASSUME NEW res, Return(p, res), pc[p] \notin {"invoke", "close"}, free' = free
      PROVE  SessionInv'
  BY <1>2, <1>3, <1>4 DEF Return
<1>5. CASE Call(p) \/ Exit(p)
  BY <1>2, <1>3, <1>5 DEF Call, Exit, InSession
<1>6. CASE InitializeContext(p)
  BY <1>2, <1>3, <1>4, <1>6 DEF InitializeContext
<1>7. CASE OpenSession(p)
  <2>1. CASE At(p, "open", "invoke") /\ free > 0 /\ free' = free - 1
    <3>1. InSession' = InSession \cup {p} /\ p \notin InSession
      BY <2>1 DEF InSession
    <3>2. Cardinality(InSession') = Cardinality(InSession) + 1
      BY <3>1, SessionsFinite, FS_AddElement
    <3> QED
      BY <1>1, <2>1, <3>2 DEF SessionInv, SessionsComeBack
  <2> QED
    BY <1>4, <1>7, <2>1 DEF OpenSession
<1>8. CASE InvokeCommand(p)
  BY <1>2, <1>8 DEF InvokeCommand, InSession
<1>9. CASE CloseSession(p)
  <2>1. InSession' = InSession \ {p} /\ p \in InSession
    BY <1>9 DEF CloseSession, InSession
  <2>2. Cardinality(InSession') = Cardinality(InSession) - 1
    BY <2>1, SessionsFinite, FS_RemoveElement
  <2> QED
    BY <1>1, <1>9, <2>2 DEF SessionInv, SessionsComeBack, CloseSession
<1>10. CASE FinalizeContext(p)
  BY <1>4, <1>10 DEF FinalizeContext
<1> QED
  BY <1>5, <1>6, <1>7, <1>8, <1>9, <1>10 DEF Step

LEMMA InitSessions == Init => SessionInv
<1>1. Init => InSession = {}
  BY DEF Init, InSession
<1> QED
  BY <1>1, FS_EmptySet, HostSessionAssumption DEF Init, SessionInv, SessionsComeBack

\* Whatever fails, every session that was opened is in use by a program or
\* has been closed.
THEOREM NoSessionIsKept == Spec => []SessionsComeBack
<1>1. CountInv /\ SessionInv /\ [Next]_vars => CountInv' /\ SessionInv'
  <2>1. CASE UNCHANGED vars
    BY <2>1 DEF vars, CountInv, SessionInv, SessionsComeBack, InSession,
       OnlyFailedOpensLeak
  <2> QED
    BY <2>1, CountsStep, SessionStep DEF Next
<1>2. Init => CountInv
  BY HostSessionAssumption DEF Init, CountInv, OnlyFailedOpensLeak, Places
<1>3. SessionInv => SessionsComeBack
  BY DEF SessionInv
<1> QED
  BY <1>1, <1>2, <1>3, InitSessions, PTL DEF Spec

\* With an instance for every program no session is ever refused, whatever the
\* programs call and in whatever order: the library never holds a session
\* longer than a call.
THEOREM RoomIsEnough == Spec => []RoomForAllNeverLeaks
<1> DEFINE Room == MaxSessions >= Cardinality(Programs) /\ ~TeeFaults
           NoneLost == Room => \A p \in Programs : opensLost[p] = 0
<1>1. Init => CountInv /\ SessionInv /\ NoneLost
  <2> SUFFICES ASSUME Init PROVE CountInv /\ SessionInv /\ NoneLost
    OBVIOUS
  <2>1. CountInv /\ NoneLost
    BY HostSessionAssumption DEF Init, CountInv, OnlyFailedOpensLeak, Places
  <2> QED
    BY <2>1, InitSessions
<1>2. CountInv /\ SessionInv /\ NoneLost /\ [Next]_vars
          => CountInv' /\ SessionInv' /\ NoneLost'
  <2>1. CASE UNCHANGED vars
    BY <2>1 DEF vars, CountInv, SessionInv, SessionsComeBack, InSession,
       OnlyFailedOpensLeak
  <2>2. ASSUME CountInv, SessionInv, NoneLost,
               NEW p \in Programs, Call(p) \/ Exit(p) \/ Step(p)
        PROVE  CountInv' /\ SessionInv' /\ NoneLost'
    <3>1. CountInv' /\ SessionInv'
      BY <2>2, CountsStep, SessionStep
    <3>2. ASSUME Room, pc[p] = "open" PROVE free > 0
      <4>1. Cardinality(InSession) < Cardinality(Programs)
        BY <2>2, <3>2, SessionsFinite DEF InSession
      <4>2. Cardinality(Programs) \in Nat /\ MaxSessions \in Nat
        BY HostSessionAssumption, FS_CardinalityType
      <4> QED
        BY <2>2, <3>2, <4>1, <4>2, SessionsFinite DEF SessionInv, SessionsComeBack
    <3>3. ASSUME Room PROVE \A t \in Programs : opensLost'[t] = 0
      <4>1. \A t \in Programs : opensLost[t] = 0
        BY <2>2, <3>3
      <4>2. CASE OpenSession(p)
        BY <3>2, <3>3, <4>1, <4>2, SMT DEF OpenSession, At
      <4>3. CASE Exit(p)
        BY <2>2, <4>1, <4>3 DEF Exit, CountInv
      <4>4. CASE ~OpenSession(p) /\ ~Exit(p)
        <5>1. opensLost' = opensLost
          BY <2>2, <4>4 DEF Step, Call, InitializeContext, InvokeCommand,
             CloseSession, FinalizeContext
        <5> QED
          BY <4>1, <5>1
      <4> QED
        BY <4>2, <4>3, <4>4
    <3> QED
      BY <3>1, <3>3
  <2> QED
    BY <2>1, <2>2 DEF Next
<1>3. NoneLost => RoomForAllNeverLeaks
  BY DEF RoomForAllNeverLeaks
<1> QED
  BY <1>1, <1>2, <1>3, PTL DEF Spec

(***************************************************************************)
(* Types                                                                   *)
(***************************************************************************)
Answers == {0, 1, -1, TEEC_ERROR_OUT_OF_MEMORY, TEEC_ERROR_GENERIC}

AnswerInv == told \in [Programs -> Answers] /\ stored \in BOOLEAN

LEMMA AnswerStep ==
    ASSUME AnswerInv, NEW p \in Programs, Call(p) \/ Exit(p) \/ Step(p)
    PROVE  AnswerInv'
<1>1. ASSUME NEW res \in Answers, Return(p, res) PROVE told' \in [Programs -> Answers]
  BY <1>1 DEF Return, AnswerInv
<1>2. TEEC_ERROR_OUT_OF_MEMORY \in Answers /\ TEEC_ERROR_GENERIC \in Answers /\ 0 \in Answers
      /\ told[p] \in Answers /\ \A c : Verdict(c) \in Answers
  BY DEF Answers, AnswerInv, Verdict
<1>3. told' \in [Programs -> Answers]
  <2>1. CASE Call(p) \/ Exit(p)
    BY <1>2, <2>1 DEF Call, Exit, AnswerInv
  <2>2. CASE InitializeContext(p) \/ OpenSession(p) \/ FinalizeContext(p)
    BY <1>1, <1>2, <2>2 DEF InitializeContext, OpenSession, FinalizeContext, AnswerInv
  <2>3. CASE InvokeCommand(p)
    <3>1. told' = told \/ told' = [told EXCEPT ![p] = Verdict(call[p])]
      BY <2>3, Zenon DEF InvokeCommand, Answered, Died, host_seedCoil,
         host_printAllCoilData, host_getDataByCoilAddress, host_setCoilData1,
         host_verifyCoilData1, host_signCoilValue1
    <3> QED
      BY <1>2, <3>1 DEF AnswerInv
  <2>4. CASE CloseSession(p)
    BY <2>4 DEF CloseSession, AnswerInv
  <2> QED
    BY <2>1, <2>2, <2>3, <2>4 DEF Step
<1>4. stored' = TRUE \/ UNCHANGED stored
  BY Zenon DEF Step, Call, Exit, InitializeContext, OpenSession, InvokeCommand,
     CloseSession, FinalizeContext, Answered, Died, host_seedCoil,
     host_printAllCoilData, host_getDataByCoilAddress, host_setCoilData1,
     host_verifyCoilData1, host_signCoilValue1
<1>5. stored' \in BOOLEAN
  BY <1>4 DEF AnswerInv
<1> QED
  BY <1>3, <1>5 DEF AnswerInv

\* The agent and the host library keep every variable's type: no process ever
\* counts more contexts than the driver gives it, nor a session that is not
\* one of its instances, and every answer is a verdict, an error or none.
THEOREM TypeCorrect == Spec => []TypeOK
<1> DEFINE AllInv == CountInv /\ SessionInv /\ CallInv /\ AnswerInv
<1>1. Init => AllInv
  <2>1. Init => CountInv
    BY HostSessionAssumption DEF Init, CountInv, OnlyFailedOpensLeak, Places
  <2>2. Init => CallInv /\ AnswerInv
    BY DEF Init, CallInv, AnswerInv, Answers
  <2> QED
    BY <2>1, <2>2, InitSessions
<1>2. AllInv /\ [Next]_vars => AllInv'
  <2>1. CASE UNCHANGED vars
    BY <2>1 DEF vars, CountInv, SessionInv, SessionsComeBack, InSession,
       OnlyFailedOpensLeak, CallInv, Calls, Requests, Signatures, AnswerInv
  <2> QED
    BY <2>1, CountsStep, SessionStep, CallStep, AnswerStep DEF Next
<1>3. AllInv => TypeOK
  <2> SUFFICES ASSUME AllInv PROVE TypeOK
    OBVIOUS
  <2>1. opensLost \in [Programs -> 0..MaxContexts]
    <3>1. ASSUME NEW p \in Programs PROVE opensLost[p] \in 0..MaxContexts
      BY HostSessionAssumption DEF CountInv, OnlyFailedOpensLeak
    <3> QED
      BY <3>1 DEF CountInv
  <2>2. free \in 0..MaxSessions
    BY SessionsFinite, HostSessionAssumption DEF SessionInv, SessionsComeBack
  <2> QED
    BY <2>1, <2>2 DEF TypeOK, CountInv, CallInv, AnswerInv, Places, Answers
<1> QED
  BY <1>1, <1>2, <1>3, PTL DEF Spec

=============================================================================
