---------------------------- MODULE CoilTAProofs ----------------------------
(***************************************************************************)
(* Theorems about CoilTA for any sessions, commands, addresses, values and *)
(* transaction ids.                                                        *)
(***************************************************************************)
EXTENDS CoilTA, CoilBitsProofs

(***************************************************************************)
(* Type correctness.  What a session reads is an image only because an     *)
(* object it holds open exists, so TypeOK is not inductive alone.          *)
(***************************************************************************)
HeldObjectExists ==
    \A s \in Sessions : handle[s] = "live" => object # NoObject

TypeInv == TypeOK /\ HeldObjectExists

LEMMA InitTypeOK == Init => TypeOK
BY SignedDataBytes
DEF Init, TypeOK, NoObject, CoilImage, coilData, ARRAY_SIZE, Byte, PCs,
    NoRequest, Request, Commands, StorageCommands, Signature, BadSignature,
    NoReply, Reply, Success

\* A request with a TA command, an address, a byte, a transaction id and a
\* signature is a Request.
LEMMA ArgsType ==
    ASSUME NEW c \in Commands, NEW a \in Nat, NEW v \in Byte, NEW t \in Nat,
           NEW g \in Signature
    PROVE  Args(c, a, v, t, g) \in Request
BY DEF Args, Request

\* Panicking keeps the types.
LEMMA PanicType ==
    ASSUME TypeOK, NEW s \in Sessions, Panic(s)
    PROVE  TypeOK'
BY DEF TypeOK, Panic, Return, Goto, TargetDead, Reply, Signature, BadSignature,
       Byte, PCs

\* The results a handler returns are results.
LEMMA SuccessType ==
    ASSUME NEW n \in {-1, 0, 1}, NEW v \in Byte, NEW g \in Signature
    PROVE  Success(n, v, g) \in Reply
BY DEF Success, Reply

\* How a command enters: with a request, at a call of its handler; it presents
\* a signature that was issued, and what it wants signed is on record.
EntersAt(s, r, first) ==
    /\ Enter(s, r, first)
    /\ r.signature \in issued \cup {BadSignature}
    /\ first \notin {"read", "close"}
    /\ first = "open" => r.command # "TA_SET_DATA_BY_COIL_ADDRESS"
    /\ first = "sign" => data(r) \in asked'

LEMMA EntryArgs ==
    ASSUME TypeOK, NEW s \in Sessions, TA_InvokeCommandEntryPoint(s)
    PROVE  /\ asked \subseteq asked' /\ asked' \subseteq SignedBytes
           /\ \E r \in Request, first \in PCs : EntersAt(s, r, first)
<1> USE CoilTAAssumption
<1>0. /\ 0 \in Nat /\ 0 \in Byte /\ BadSignature \in Signature
      /\ issued \cup {BadSignature} \subseteq Signature
      /\ asked \subseteq SignedBytes
      /\ {"open", "create", "verify", "sign"} \subseteq PCs
  BY DEF Byte, Signature, TypeOK, PCs
<1>1. CASE ta_seedCoil(s)
  <2> DEFINE r == Args("TA_SEED_COIL", 0, 0, 0, BadSignature)
  <2>1. r \in Request /\ r.signature = BadSignature
    BY <1>0, ArgsType DEF Commands, StorageCommands, Args
  <2>2. EntersAt(s, r, "create")
    BY <1>1, <2>1 DEF ta_seedCoil, EntersAt
  <2> QED
    BY <1>0, <1>1, <2>1, <2>2 DEF ta_seedCoil
<1>2. CASE ta_getAllCoilData(s)
  <2> DEFINE r == Args("TA_GET_ALL_COIL_DATA", 0, 0, 0, BadSignature)
  <2>1. r \in Request /\ r.signature = BadSignature
        /\ r.command = "TA_GET_ALL_COIL_DATA"
    BY <1>0, ArgsType DEF Commands, StorageCommands, Args
  <2>2. EntersAt(s, r, "open")
    BY <1>2, <2>1 DEF ta_getAllCoilData, EntersAt
  <2> QED
    BY <1>0, <1>2, <2>1, <2>2 DEF ta_getAllCoilData
<1>3. CASE ta_getDataByCoilAddress(s)
  <2>1. PICK a \in Addresses, t \in TransactionIds :
           Enter(s, Args("TA_GET_DATA_BY_COIL_ADDRESS", a, 0, t, BadSignature),
                 "open")
    BY <1>3 DEF ta_getDataByCoilAddress
  <2> DEFINE r == Args("TA_GET_DATA_BY_COIL_ADDRESS", a, 0, t, BadSignature)
  <2>2. r \in Request /\ r.signature = BadSignature
        /\ r.command = "TA_GET_DATA_BY_COIL_ADDRESS"
    BY <1>0, ArgsType DEF Commands, StorageCommands, Args
  <2>3. EntersAt(s, r, "open")
    BY <2>1, <2>2 DEF EntersAt
  <2> QED
    BY <1>0, <1>3, <2>2, <2>3 DEF ta_getDataByCoilAddress
<1>4. CASE ta_setDataByCoilAddress(s)
  <2>1. PICK a \in Addresses, v \in CoilValues, t \in TransactionIds,
             g \in issued \cup {BadSignature} :
           Enter(s, Args("TA_SET_DATA_BY_COIL_ADDRESS", a, v, t, g), "verify")
    BY <1>4 DEF ta_setDataByCoilAddress
  <2> DEFINE r == Args("TA_SET_DATA_BY_COIL_ADDRESS", a, v, t, g)
  <2>2. r \in Request /\ r.signature = g
    BY <1>0, ArgsType DEF Commands, StorageCommands, Args
  <2>3. EntersAt(s, r, "verify")
    BY <2>1, <2>2 DEF EntersAt
  <2> QED
    BY <1>0, <1>4, <2>2, <2>3 DEF ta_setDataByCoilAddress
<1>5. CASE ta_verifyCoilDAta(s)
  <2>1. PICK v \in CoilValues, t \in TransactionIds,
             g \in issued \cup {BadSignature} :
           Enter(s, Args("TA_VERIFY_COIL_DATA", 0, v, t, g), "verify")
    BY <1>5 DEF ta_verifyCoilDAta
  <2> DEFINE r == Args("TA_VERIFY_COIL_DATA", 0, v, t, g)
  <2>2. r \in Request /\ r.signature = g
    BY <1>0, ArgsType DEF Commands, Args
  <2>3. EntersAt(s, r, "verify")
    BY <2>1, <2>2 DEF EntersAt
  <2> QED
    BY <1>0, <1>5, <2>2, <2>3 DEF ta_verifyCoilDAta
<1>6. CASE ta_signCoilData(s)
  <2>1. PICK v \in CoilValues, t \in TransactionIds :
           /\ Enter(s, Args("TA_SIGN_COIL_DATA", 0, v, t, BadSignature), "sign")
           /\ asked' = asked \cup {SignedData(v, t)}
    BY <1>6 DEF ta_signCoilData
  <2> DEFINE r == Args("TA_SIGN_COIL_DATA", 0, v, t, BadSignature)
  <2>2. r \in Request /\ r.signature = BadSignature
        /\ data(r) = SignedData(v, t)
    BY <1>0, ArgsType DEF Commands, Args, data
  <2>3. SignedData(v, t) \in SignedBytes
    BY SignedDataBytes
  <2>4. EntersAt(s, r, "sign")
    BY <2>1, <2>2 DEF EntersAt
  <2> QED
    BY <1>0, <2>1, <2>2, <2>3, <2>4
<1> QED
  BY <1>1, <1>2, <1>3, <1>4, <1>5, <1>6 DEF TA_InvokeCommandEntryPoint

\* Each command's entry keeps the types.
LEMMA EntryType ==
    ASSUME TypeOK, NEW s \in Sessions, TA_InvokeCommandEntryPoint(s)
    PROVE  TypeOK'
BY EntryArgs DEF EntersAt, Enter, TypeOK

\* Each TEE API call keeps the types.
LEMMA StepType ==
    ASSUME TypeInv, NEW s \in Sessions, Step(s)
    PROVE  TypeOK'
<1> USE DEF TypeInv
<1>1. /\ req[s] \in Request
      /\ req[s].address \in Nat /\ req[s].value \in Byte
      /\ req[s].transactionId \in Nat
      /\ allCoilData[s] \in CoilImage
  BY DEF TypeOK, Request
<1>2. BadSignature \in Signature /\ 0 \in Byte
  BY DEF Signature, Byte
<1>3. CASE Verify(s)
  <2> DEFINE verified == IF req[s].signature = data(req[s]) THEN 1 ELSE -1
  <2>1. Success(verified, 0, BadSignature) \in Reply
    BY <1>2, SuccessType
  <2> QED
    BY <1>3, <2>1 DEF Verify, TypeOK, Goto, Return, PCs
<1>4. CASE Sign(s)
  <2> DEFINE value  == ta_getCoilValue(bitNumber(req[s]), allCoilData[s])
             signed == IF req[s].command = "TA_SIGN_COIL_DATA"
                       THEN data(req[s])
                       ELSE SignedData(value, req[s].transactionId)
             shown  == IF req[s].command = "TA_SIGN_COIL_DATA" THEN 0
                       ELSE value
  <2>1. value \in Byte
    BY <1>1, CoilValueOf DEF bitNumber, Byte
  <2>2. signed \in SignedBytes
    BY <1>1, <2>1, SignedDataBytes DEF data
  <2>3. shown \in Byte
    BY <1>2, <2>1
  <2>4. Success(0, shown, signed) \in Reply
    BY <2>2, <2>3, SuccessType DEF Signature
  <2>5. /\ issued' = issued \cup {signed}
        /\ Return(s, Success(0, shown, signed))
        /\ UNCHANGED <<object, req, allCoilData, handle, asked>>
    BY <1>4 DEF Sign
  <2> HIDE DEF value, signed, shown
  <2> QED
    BY <2>2, <2>4, <2>5 DEF TypeOK, Goto, Return, PCs
<1>5. CASE CryptoPanics(s)
  BY <1>5, PanicType DEF CryptoPanics
<1>6. CASE OpenObject(s)
  BY <1>6 DEF OpenObject, TypeOK, Goto, PCs
<1>7. CASE ReadObject(s)
  <2>1. object \in CoilImage
    BY <1>7 DEF ReadObject, HeldObjectExists, TypeOK
  <2> QED
    BY <1>7, <2>1 DEF ReadObject, TypeOK, Goto, PCs
<1>8. CASE ReadPanics(s)
  BY <1>8, PanicType DEF ReadPanics
<1>9. CASE CloseObject(s)
  <2>1. allCoilData[s][0] \in Byte
    BY <1>1 DEF CoilImage, ARRAY_SIZE
  <2>2. Success(0, allCoilData[s][0], BadSignature) \in Reply
    BY <1>2, <2>1, SuccessType
  <2>3. ta_updateCoilData(bitNumber(req[s]), req[s].value, allCoilData[s])
           \in CoilImage
    BY <1>1, UpdatedImage DEF bitNumber
  <2> QED
    BY <1>9, <2>2, <2>3 DEF CloseObject, TypeOK, Goto, Return, PCs
<1>10. CASE CreateObject(s)
  BY <1>10 DEF CreateObject, TypeOK, Goto, PCs
<1>11. CASE CloseCreated(s)
  <2>1. /\ Success(0, 0, BadSignature) \in Reply
        /\ Success(1, 0, BadSignature) \in Reply
    BY <1>2, SuccessType
  <2> QED
    BY <1>11, <2>1 DEF CloseCreated, TypeOK, Goto, Return, PCs
<1>12. CASE CloseCreatedPanics(s)
  BY <1>12, PanicType DEF CloseCreatedPanics
<1>13. CASE CloseSession(s)
  <2>1. NoRequest \in Request /\ NoReply \in Reply /\ coilData \in CoilImage
    BY InitTypeOK, <1>2, SuccessType
    DEF NoRequest, Request, Commands, StorageCommands, NoReply, coilData,
        CoilImage, ARRAY_SIZE, Byte
  <2> QED
    BY <1>13, <2>1 DEF CloseSession, TypeOK, Goto, PCs
<1> QED
  BY <1>3, <1>4, <1>5, <1>6, <1>7, <1>8, <1>9, <1>10, <1>11, <1>12, <1>13
  DEF Step

\* A restart keeps the types.
LEMMA RestartType == TypeOK /\ Restart => TypeOK'
<1>1. NoRequest \in Request /\ NoReply \in Reply /\ coilData \in CoilImage
  BY SuccessType
  DEF NoRequest, Request, Commands, StorageCommands, NoReply, Signature,
      coilData, CoilImage, ARRAY_SIZE, Byte
<1> QED
  BY <1>1 DEF Restart, TypeOK, PCs

\* An object that a session holds open is never gone: it is only created.
LEMMA HeldObjectStep == TypeInv /\ [Next]_vars => HeldObjectExists'
<1> SUFFICES ASSUME TypeInv, [Next]_vars PROVE HeldObjectExists'
  OBVIOUS
<1> USE DEF TypeInv, HeldObjectExists
<1>1. ASSUME NEW s \in Sessions, TA_InvokeCommandEntryPoint(s)
      PROVE  HeldObjectExists'
  BY <1>1 DEF TA_InvokeCommandEntryPoint, ta_seedCoil, ta_getAllCoilData,
     ta_getDataByCoilAddress, ta_setDataByCoilAddress, ta_verifyCoilDAta,
     ta_signCoilData, Enter
<1>2. ASSUME NEW s \in Sessions, Step(s) PROVE HeldObjectExists'
  <2>1. CASE Verify(s) \/ Sign(s) \/ ReadObject(s)
    BY <2>1 DEF Verify, Sign, ReadObject
  <2>2. CASE CryptoPanics(s) \/ ReadPanics(s) \/ CloseCreatedPanics(s)
    BY <2>2 DEF CryptoPanics, ReadPanics, CloseCreatedPanics, Panic, TypeOK
  <2>3. CASE OpenObject(s)
    BY <2>3 DEF OpenObject, TypeOK
  <2>4. CASE CloseObject(s) \/ CloseCreated(s) \/ CloseSession(s)
    BY <2>4 DEF CloseObject, CloseCreated, CloseSession, TypeOK
  <2>5. CASE CreateObject(s)
    <3>1. allCoilData[s] # NoObject
      <4>1. DOMAIN allCoilData[s] = 0..ARRAY_SIZE-1
        BY DEF TypeOK, CoilImage
      <4>2. DOMAIN NoObject = {}
        BY DEF NoObject
      <4>3. 0 \in 0..ARRAY_SIZE-1
        BY DEF ARRAY_SIZE
      <4> QED
        BY <4>1, <4>2, <4>3
    <3> QED
      BY <2>5, <3>1 DEF CreateObject, TypeOK
  <2> QED
    BY <1>2, <2>1, <2>2, <2>3, <2>4, <2>5 DEF Step
<1>3. CASE Restart
  BY <1>3 DEF Restart
<1>4. CASE UNCHANGED vars
  BY <1>4 DEF vars
<1> QED
  BY <1>1, <1>2, <1>3, <1>4 DEF Next

LEMMA TypeInvariant == Spec => []TypeInv
<1>1. Init => TypeInv
  BY InitTypeOK DEF TypeInv, HeldObjectExists, Init
<1>2. TypeInv /\ [Next]_vars => TypeInv'
  <2> SUFFICES ASSUME TypeInv, [Next]_vars PROVE TypeOK'
    BY HeldObjectStep DEF TypeInv
  <2>1. ASSUME NEW s \in Sessions, TA_InvokeCommandEntryPoint(s)
        PROVE  TypeOK'
    BY <2>1, EntryType DEF TypeInv
  <2>2. ASSUME NEW s \in Sessions, Step(s) PROVE TypeOK'
    BY <2>2, StepType
  <2>3. CASE Restart
    BY <2>3, RestartType DEF TypeInv
  <2>4. CASE UNCHANGED vars
    BY <2>4 DEF vars, TypeInv, TypeOK
  <2> QED
    BY <2>1, <2>2, <2>3, <2>4 DEF Next
<1> QED
  BY <1>1, <1>2, PTL DEF Spec

\* Every variable keeps its type: the handlers build only replies, images and
\* signatures of their declared widths.
THEOREM TypeCorrect == Spec => []TypeOK
BY TypeInvariant, PTL DEF TypeInv

(***************************************************************************)
(* The status is on only if an "on" was asked for.  As long as none was,   *)
(* every image, signature and verified set in the system is an "off"; and  *)
(* a signing call is about to sign what its caller asked for, a set or a   *)
(* verify presents a signature the TA has made.                            *)
(***************************************************************************)
AllOff ==
    /\ object \in {NoObject, coilData}
    /\ \A s \in Sessions : allCoilData[s] = coilData
    /\ \A d \in issued : d[1] = 0
    /\ \A s \in Sessions :
          /\ req[s].command = "TA_SET_DATA_BY_COIL_ADDRESS"
          /\ pc[s] \in {"open", "read", "close"}
          => req[s].value = 0

SignsWhatWasAsked ==
    \A s \in Sessions :
        pc[s] = "sign" /\ req[s].command = "TA_SIGN_COIL_DATA"
            => data(req[s]) \in asked

PresentsWhatWasIssued ==
    \A s \in Sessions :
        pc[s] = "verify" => req[s].signature \in issued \cup {BadSignature}

OnInv == (~AskedOn => AllOff) /\ SignsWhatWasAsked /\ PresentsWhatWasIssued

\* The signed bytes of a request are bytes, the first of them its value.
LEMMA DataType ==
    ASSUME NEW r \in Request
    PROVE  data(r) \in SignedBytes /\ data(r)[1] = r.value
BY SignedDataBytes DEF data, Request

\* The seeded image reads "off" at every address, and writing an "off" to it
\* at any address leaves it as it is.
LEMMA OffStaysOff ==
    ASSUME NEW a \in Nat
    PROVE  /\ ta_getCoilValue(ta_getBitNumberForCoil(a), coilData) = 0
           /\ ta_updateCoilData(ta_getBitNumberForCoil(a), 0, coilData)
                 = coilData
<1>1. coilData \in CoilImage /\ coilData[0] = 0 /\ 0 \in Byte
  BY DEF coilData, CoilImage, ARRAY_SIZE, Byte
<1>2. ta_getCoilValue(ta_getBitNumberForCoil(a), coilData) = 0
  BY <1>1, CoilValueOf
<1> DEFINE after == ta_updateCoilData(ta_getBitNumberForCoil(a), 0, coilData)
<1>3. CASE a # COIL_ADDRESS_INVERTER_STATUS
  BY <1>1, <1>2, <1>3, UpdatedImage
<1>4. CASE a = COIL_ADDRESS_INVERTER_STATUS
  <2>1. after \in CoilImage /\ ~(after[0] >= 128) /\ after[0] % 128 = 0 % 128
    BY <1>1, <1>4, UpdatedImage
  <2> HIDE DEF after
  <2>2. after[0] = 0
    BY <2>1 DEF CoilImage, ARRAY_SIZE, Byte
  <2>3. after = coilData
    BY <2>1, <2>2 DEF CoilImage, coilData, ARRAY_SIZE
  <2> QED
    BY <1>2, <2>3 DEF after
<1> QED
  BY <1>3, <1>4

\* A command's entry keeps the invariant.
LEMMA EntryOn ==
    ASSUME TypeInv, OnInv, NEW s \in Sessions, TA_InvokeCommandEntryPoint(s)
    PROVE  OnInv'
<1>1. asked \subseteq asked' /\ TypeOK
  BY EntryArgs DEF TypeInv
<1>2. ~AskedOn' => ~AskedOn
  BY <1>1 DEF AskedOn
<1>3. PICK r \in Request, first \in PCs : EntersAt(s, r, first)
  BY EntryArgs DEF TypeInv
<1>4. ~AskedOn' => AllOff'
  BY <1>1, <1>2, <1>3 DEF OnInv, AllOff, EntersAt, Enter, TypeOK
<1>5. SignsWhatWasAsked'
  BY <1>1, <1>3 DEF OnInv, SignsWhatWasAsked, EntersAt, Enter, TypeOK, data
<1>6. PresentsWhatWasIssued'
  BY <1>1, <1>3 DEF OnInv, PresentsWhatWasIssued, EntersAt, Enter, TypeOK
<1> QED
  BY <1>4, <1>5, <1>6 DEF OnInv

\* A signature of no bytes is not the signature of any request.
LEMMA DataIsNotBad ==
    ASSUME NEW r \in Request
    PROVE  data(r) # BadSignature
BY DEF data, SignedData, BadSignature

\* ta_verify: a set gets past it only with a signature that was issued over
\* its own bytes, so over an "off" as long as no "on" was asked for.
LEMMA VerifyOn ==
    ASSUME TypeInv, OnInv, NEW s \in Sessions, Verify(s)
    PROVE  OnInv'
<1> USE DEF TypeInv, TypeOK, Goto, Return, Verify
<1>1. req[s] \in Request
  OBVIOUS
<1>2. ASSUME ~AskedOn, req[s].signature = data(req[s]) PROVE req[s].value = 0
  <2>1. data(req[s]) \in issued
    BY <1>1, <1>2, DataIsNotBad DEF OnInv, PresentsWhatWasIssued
  <2> QED
    BY <1>1, <1>2, <2>1, DataType DEF OnInv, AllOff
<1>3. ASSUME ~AskedOn PROVE AllOff'
  <2>1. AllOff
    BY <1>3 DEF OnInv
  <2>2. pc'[s] = "open" => req[s].signature = data(req[s])
    OBVIOUS
  <2>3. pc'[s] = "open" \/ pc'[s] = "done"
    OBVIOUS
  <2> QED
    BY <1>2, <1>3, <2>1, <2>2, <2>3 DEF AllOff
<1>4. AskedOn' = AskedOn
  BY DEF AskedOn
<1>5. SignsWhatWasAsked' /\ PresentsWhatWasIssued'
  BY DEF OnInv, SignsWhatWasAsked, PresentsWhatWasIssued, data
<1> QED
  BY <1>3, <1>4, <1>5 DEF OnInv

\* ta_sign: over what was asked for, or over an image that is off as long as
\* no "on" was asked for.
LEMMA SignOn ==
    ASSUME TypeInv, OnInv, NEW s \in Sessions, Sign(s)
    PROVE  OnInv'
<1> USE DEF TypeInv, TypeOK, Goto, Return
<1> DEFINE value  == ta_getCoilValue(bitNumber(req[s]), allCoilData[s])
           signed == IF req[s].command = "TA_SIGN_COIL_DATA"
                     THEN data(req[s])
                     ELSE SignedData(value, req[s].transactionId)
<1>1. /\ req[s] \in Request
      /\ req[s].address \in Nat /\ req[s].transactionId \in Nat
      /\ 0 \in Byte
  BY DEF Request, Byte
<1>2. /\ pc[s] = "sign"
      /\ issued' = issued \cup {signed}
      /\ pc' = [pc EXCEPT ![s] = "done"]
      /\ UNCHANGED <<object, req, allCoilData, handle, asked>>
  BY DEF Sign
<1>3. ASSUME ~AskedOn PROVE signed[1] = 0
  <2>1. CASE req[s].command = "TA_SIGN_COIL_DATA"
    <3>1. data(req[s]) \in asked
      BY <1>2, <2>1 DEF OnInv, SignsWhatWasAsked
    <3> QED
      BY <1>3, <2>1, <3>1 DEF AskedOn
  <2>2. CASE req[s].command # "TA_SIGN_COIL_DATA"
    <3>1. allCoilData[s] = coilData
      BY <1>3 DEF OnInv, AllOff
    <3>2. value = 0
      BY <1>1, <3>1, OffStaysOff DEF bitNumber
    <3> QED
      BY <1>1, <2>2, <3>2, SignedDataBytes
  <2> QED
    BY <2>1, <2>2
<1> HIDE DEF signed
<1>4. ASSUME ~AskedOn PROVE AllOff'
  BY <1>2, <1>3, <1>4 DEF OnInv, AllOff
<1>5. AskedOn' = AskedOn
  BY <1>2 DEF AskedOn
<1>6. SignsWhatWasAsked' /\ PresentsWhatWasIssued'
  BY <1>2 DEF OnInv, SignsWhatWasAsked, PresentsWhatWasIssued, data
<1> QED
  BY <1>4, <1>5, <1>6 DEF OnInv

\* The image that a set writes back is off as long as no "on" was asked for.
LEMMA CloseObjectOn ==
    ASSUME TypeInv, OnInv, NEW s \in Sessions, CloseObject(s)
    PROVE  OnInv'
<1> USE DEF TypeInv, TypeOK, Goto, Return
<1>1. req[s].address \in Nat
  BY DEF Request
<1>2. /\ pc[s] = "close"
      /\ pc'[s] \notin {"verify", "open", "read", "close"}
      /\ pc'[s] = "sign" => req[s].command # "TA_SIGN_COIL_DATA"
      /\ \A t \in Sessions \ {s} :
            pc'[t] = pc[t] /\ allCoilData'[t] = allCoilData[t]
      /\ UNCHANGED <<object, req, asked, issued>>
  BY DEF CloseObject
<1>3. ASSUME ~AskedOn PROVE AllOff'
  <2>1. AllOff
    BY <1>3 DEF OnInv
  <2>2. CASE req[s].command # "TA_SET_DATA_BY_COIL_ADDRESS"
    <3>1. allCoilData' = allCoilData
      BY <2>2 DEF CloseObject
    <3> QED
      BY <1>2, <2>1, <3>1 DEF AllOff
  <2>3. CASE req[s].command = "TA_SET_DATA_BY_COIL_ADDRESS"
    <3>1. req[s].value = 0 /\ allCoilData[s] = coilData
      BY <1>2, <2>1, <2>3 DEF AllOff
    <3>2. allCoilData'[s] = ta_updateCoilData(bitNumber(req[s]), 0, coilData)
      BY <2>3, <3>1 DEF CloseObject
    <3>3. allCoilData'[s] = coilData
      BY <1>1, <3>2, OffStaysOff DEF bitNumber
    <3> QED
      BY <1>2, <2>1, <3>3 DEF AllOff
  <2> QED
    BY <2>2, <2>3
<1>4. AskedOn' = AskedOn
  BY <1>2 DEF AskedOn
<1>5. SignsWhatWasAsked' /\ PresentsWhatWasIssued'
  BY <1>2 DEF OnInv, SignsWhatWasAsked, PresentsWhatWasIssued, data
<1> QED
  BY <1>3, <1>4, <1>5 DEF OnInv

\* The other calls move images between the object and the handlers.
LEMMA StepOn ==
    ASSUME TypeInv, OnInv, NEW s \in Sessions, Step(s)
    PROVE  OnInv'
<1> USE DEF TypeInv, TypeOK, Goto, Return
<1>1. CASE OpenObject(s)
  BY <1>1 DEF OpenObject, OnInv, AskedOn, AllOff, SignsWhatWasAsked,
     PresentsWhatWasIssued, data
<1>2. CASE ReadObject(s)
  <2>1. object # NoObject
    BY <1>2 DEF ReadObject, HeldObjectExists
  <2> QED
    BY <1>2, <2>1 DEF ReadObject, OnInv, AskedOn, AllOff, SignsWhatWasAsked,
       PresentsWhatWasIssued, data
<1>3. CASE CreateObject(s)
  BY <1>3 DEF CreateObject, OnInv, AskedOn, AllOff, SignsWhatWasAsked,
     PresentsWhatWasIssued, data
<1>4. CASE CloseCreated(s)
  BY <1>4 DEF CloseCreated, OnInv, AskedOn, AllOff, SignsWhatWasAsked,
     PresentsWhatWasIssued, data
<1>5. CASE CryptoPanics(s) \/ ReadPanics(s) \/ CloseCreatedPanics(s)
  <2>1. Panic(s)
    BY <1>5 DEF CryptoPanics, ReadPanics, CloseCreatedPanics
  <2> QED
    BY <2>1 DEF Panic, OnInv, AskedOn, AllOff, SignsWhatWasAsked,
       PresentsWhatWasIssued, data
<1>6. CASE CloseSession(s)
  BY <1>6 DEF CloseSession, OnInv, AskedOn, AllOff, SignsWhatWasAsked,
     PresentsWhatWasIssued, data
<1> QED
  BY <1>1, <1>2, <1>3, <1>4, <1>5, <1>6, VerifyOn, SignOn, CloseObjectOn DEF Step

\* The invariant holds in every behaviour.
LEMMA OnInvariant == Spec => []OnInv
<1>1. Init => OnInv
  BY DEF Init, OnInv, AllOff, SignsWhatWasAsked, PresentsWhatWasIssued
<1>2. TypeInv /\ OnInv /\ [Next]_vars => OnInv'
  <2> SUFFICES ASSUME TypeInv, OnInv, [Next]_vars PROVE OnInv'
    OBVIOUS
  <2>1. ASSUME NEW s \in Sessions, TA_InvokeCommandEntryPoint(s)
        PROVE  OnInv'
    BY <2>1, EntryOn
  <2>2. ASSUME NEW s \in Sessions, Step(s) PROVE OnInv'
    BY <2>2, StepOn
  <2>3. CASE Restart
    BY <2>3 DEF Restart, OnInv, AskedOn, AllOff, SignsWhatWasAsked,
       PresentsWhatWasIssued
  <2>4. CASE UNCHANGED vars
    BY <2>4 DEF vars, OnInv, AskedOn, AllOff, SignsWhatWasAsked,
       PresentsWhatWasIssued, data
  <2> QED
    BY <2>1, <2>2, <2>3, <2>4 DEF Next
<1> QED
  BY <1>1, <1>2, TypeInvariant, PTL DEF Spec

\* The stored inverter status is on only if some program asked the TA to sign
\* an "on", whatever the sessions, their races, conflicts, faults and restarts.
THEOREM OnlyAskedFor == Spec => []OnOnlyIfAsked
<1>1. OnInv => OnOnlyIfAsked
  <2> SUFFICES ASSUME AllOff, object # NoObject PROVE ~(object[0] >= 128)
    BY DEF OnInv, OnOnlyIfAsked, StatusOn
  <2> QED
    BY DEF AllOff, coilData, ARRAY_SIZE
<1> QED
  BY <1>1, OnInvariant, PTL

(***************************************************************************)
(* Sessions and the object.  A handle is live only while its session is    *)
(* between the open and the close, and the object changes only while no    *)
(* handle is live.                                                         *)
(***************************************************************************)
LEMMA ReleasedStep ==
    TypeOK /\ ObjectIsReleased /\ [Next]_vars => ObjectIsReleased'
<1> SUFFICES ASSUME TypeOK, ObjectIsReleased, [Next]_vars
             PROVE  ObjectIsReleased'
  OBVIOUS
<1> USE DEF TypeOK, ObjectIsReleased, Goto, Return
<1>1. ASSUME NEW s \in Sessions, TA_InvokeCommandEntryPoint(s)
      PROVE  ObjectIsReleased'
  <2>1. PICK r \in Request, first \in PCs : EntersAt(s, r, first)
    BY <1>1, EntryArgs
  <2> QED
    BY <2>1 DEF EntersAt, Enter
<1>2. ASSUME NEW s \in Sessions, Step(s) PROVE ObjectIsReleased'
  <2>1. CASE Verify(s) \/ Sign(s) \/ CloseSession(s)
    BY <2>1 DEF Verify, Sign, CloseSession
  <2>2. CASE CryptoPanics(s) \/ ReadPanics(s) \/ CloseCreatedPanics(s)
    BY <2>2 DEF CryptoPanics, ReadPanics, CloseCreatedPanics, Panic
  <2>3. CASE OpenObject(s) \/ ReadObject(s) \/ CreateObject(s)
    BY <2>3 DEF OpenObject, ReadObject, CreateObject
  <2>4. CASE CloseObject(s) \/ CloseCreated(s)
    BY <2>4 DEF CloseObject, CloseCreated
  <2> QED
    BY <1>2, <2>1, <2>2, <2>3, <2>4 DEF Step
<1>3. CASE Restart
  BY <1>3 DEF Restart
<1>4. CASE UNCHANGED vars
  BY <1>4 DEF vars
<1> QED
  BY <1>1, <1>2, <1>3, <1>4 DEF Next

\* Whatever fails, a session that signs, updates, answers or is gone does not
\* hold the object.
THEOREM ObjectReleased == Spec => []ObjectIsReleased
<1>1. Init => ObjectIsReleased
  BY DEF Init, ObjectIsReleased
<1> QED
  BY <1>1, ReleasedStep, TypeCorrect, PTL DEF Spec

\* A handler works on zeros until it reads: a new instance starts with them.
ZerosBeforeRead ==
    \A s \in Sessions :
        pc[s] \in {"idle", "verify", "open", "read"} => allCoilData[s] = coilData

LEMMA ZerosStep == TypeOK /\ ZerosBeforeRead /\ [Next]_vars => ZerosBeforeRead'
<1> SUFFICES ASSUME TypeOK, ZerosBeforeRead, [Next]_vars
             PROVE  ZerosBeforeRead'
  OBVIOUS
<1> USE DEF TypeOK, ZerosBeforeRead, Goto, Return
<1>1. ASSUME NEW s \in Sessions, TA_InvokeCommandEntryPoint(s)
      PROVE  ZerosBeforeRead'
  <2>1. PICK r \in Request, first \in PCs : EntersAt(s, r, first)
    BY <1>1, EntryArgs
  <2> QED
    BY <2>1 DEF EntersAt, Enter
<1>2. ASSUME NEW s \in Sessions, Step(s) PROVE ZerosBeforeRead'
  <2>1. CASE Verify(s) \/ Sign(s) \/ CloseSession(s)
    BY <2>1 DEF Verify, Sign, CloseSession
  <2>2. CASE CryptoPanics(s) \/ ReadPanics(s) \/ CloseCreatedPanics(s)
    BY <2>2 DEF CryptoPanics, ReadPanics, CloseCreatedPanics, Panic
  <2>3. CASE OpenObject(s) \/ ReadObject(s) \/ CreateObject(s)
    BY <2>3 DEF OpenObject, ReadObject, CreateObject
  <2>4. CASE CloseObject(s) \/ CloseCreated(s)
    BY <2>4 DEF CloseObject, CloseCreated
  <2> QED
    BY <1>2, <2>1, <2>2, <2>3, <2>4 DEF Step
<1>3. CASE Restart
  BY <1>3 DEF Restart
<1>4. CASE UNCHANGED vars
  BY <1>4 DEF vars
<1> QED
  BY <1>1, <1>2, <1>3, <1>4 DEF Next

LEMMA HeldImageStep ==
    TypeOK /\ ObjectIsReleased /\ ZerosBeforeRead /\ HeldImageIsCurrent /\ [Next]_vars
        => HeldImageIsCurrent'
<1> SUFFICES ASSUME TypeOK, ObjectIsReleased, ZerosBeforeRead, HeldImageIsCurrent,
                    [Next]_vars
             PROVE  HeldImageIsCurrent'
  OBVIOUS
<1> USE DEF TypeOK, HeldImageIsCurrent, Goto, Return
<1>1. ASSUME NEW s \in Sessions, TA_InvokeCommandEntryPoint(s)
      PROVE  HeldImageIsCurrent'
  <2>1. PICK r \in Request, first \in PCs : EntersAt(s, r, first)
    BY <1>1, EntryArgs
  <2> QED
    BY <2>1 DEF EntersAt, Enter, ObjectIsReleased
<1>2. ASSUME NEW s \in Sessions, Step(s) PROVE HeldImageIsCurrent'
  <2>1. CASE Verify(s) \/ Sign(s) \/ CloseSession(s)
    BY <2>1 DEF Verify, Sign, CloseSession
  <2>2. CASE CryptoPanics(s) \/ ReadPanics(s) \/ CloseCreatedPanics(s)
    BY <2>2 DEF CryptoPanics, ReadPanics, CloseCreatedPanics, Panic
  <2>3. CASE OpenObject(s) \/ ReadObject(s)
    BY <2>3 DEF OpenObject, ReadObject, ZerosBeforeRead
  <2>4. CASE CreateObject(s)
    BY <2>4 DEF CreateObject, Free
  <2>5. CASE CloseObject(s) \/ CloseCreated(s)
    BY <2>5 DEF CloseObject, CloseCreated
  <2> QED
    BY <1>2, <2>1, <2>2, <2>3, <2>4, <2>5 DEF Step
<1>3. CASE Restart
  BY <1>3 DEF Restart
<1>4. CASE UNCHANGED vars
  BY <1>4 DEF vars
<1> QED
  BY <1>1, <1>2, <1>3, <1>4 DEF Next

\* While a session holds the object open, what it read from it or wrote to it
\* is what is stored, or the zeros that a failed read left.
THEOREM NoWriteUnderAnOpenHandle == Spec => []HeldImageIsCurrent
<1>1. Init => HeldImageIsCurrent /\ ZerosBeforeRead
  BY DEF Init, HeldImageIsCurrent, ZerosBeforeRead
<1> QED
  BY <1>1, HeldImageStep, ZerosStep, ObjectReleased, TypeCorrect, PTL DEF Spec

(***************************************************************************)
(* What is written.  The commands keep to their calls; a set that got past *)
(* ta_verify keeps a signature over its own bytes, and what it is about to *)
(* create shows its value at its address.                                  *)
(***************************************************************************)
GetAll == "TA_GET_ALL_COIL_DATA"
Get == "TA_GET_DATA_BY_COIL_ADDRESS"
Set == "TA_SET_DATA_BY_COIL_ADDRESS"

\* The commands of each TEE API call.
Place(call, command) ==
    \/ call = "verify" /\ command \in {Set, "TA_VERIFY_COIL_DATA"}
    \/ call \in {"open", "read", "close"} /\ command \in {GetAll, Get, Set}
    \/ call \in {"create", "closeCreated"} /\ command \in {"TA_SEED_COIL", Set}
    \/ call = "sign" /\ command \in {Get, "TA_SIGN_COIL_DATA"}
    \/ call = "done" /\ command \in Commands

\* Where a session can be, and that a set got past its verification.
PlaceInv ==
    \A s \in Sessions :
        pc[s] # "idle" =>
            /\ Place(pc[s], req[s].command)
            /\ req[s].command \in CommandsOf[s]
            /\ req[s].command = Set /\ pc[s] \notin {"verify", "done"} =>
                  req[s].signature = data(req[s])

\* A command enters at its own first call, and leaves the other sessions alone.
LEMMA EntryPlace ==
    ASSUME TypeOK, NEW s \in Sessions, TA_InvokeCommandEntryPoint(s)
    PROVE  /\ Place(pc'[s], req'[s].command)
           /\ req'[s].command \in CommandsOf[s] /\ pc'[s] \in {"verify", "open", "create", "sign"}
           /\ req'[s].command = Set => pc'[s] = "verify"
           /\ pc'[s] = "sign" => req'[s].command = "TA_SIGN_COIL_DATA"
           /\ pc[s] = "idle" /\ pc'[s] # "idle"
           /\ \A t \in Sessions \ {s} : pc'[t] = pc[t] /\ req'[t] = req[t]
           /\ UNCHANGED <<object, allCoilData, handle, reply>>
<1>1. ASSUME NEW r, NEW first, Enter(s, r, first)
      PROVE  /\ pc'[s] = first /\ req'[s] = r /\ r.command \in CommandsOf[s]
             /\ pc[s] = "idle"
             /\ \A t \in Sessions \ {s} : pc'[t] = pc[t] /\ req'[t] = req[t]
             /\ UNCHANGED <<object, allCoilData, handle, reply>>
  BY <1>1 DEF Enter, TypeOK
<1>2. \A c, a, v, t, g : Args(c, a, v, t, g).command = c
  BY DEF Args
<1> USE <1>1, <1>2 DEF Place, GetAll, Get, Set
<1>3. CASE ta_seedCoil(s)
  BY <1>3 DEF ta_seedCoil
<1>4. CASE ta_getAllCoilData(s)
  BY <1>4 DEF ta_getAllCoilData
<1>5. CASE ta_getDataByCoilAddress(s)
  BY <1>5 DEF ta_getDataByCoilAddress
<1>6. CASE ta_setDataByCoilAddress(s)
  BY <1>6 DEF ta_setDataByCoilAddress
<1>7. CASE ta_verifyCoilDAta(s)
  BY <1>7 DEF ta_verifyCoilDAta
<1>8. CASE ta_signCoilData(s)
  BY <1>8 DEF ta_signCoilData
<1> QED
  BY <1>3, <1>4, <1>5, <1>6, <1>7, <1>8 DEF TA_InvokeCommandEntryPoint

\* Every call goes on to a call of the same command.
LEMMA PlaceStep ==
    ASSUME TypeOK, PlaceInv, [Next]_vars
    PROVE  PlaceInv'
<1> USE DEF TypeOK, Goto, Return
<1>1. ASSUME NEW s \in Sessions, TA_InvokeCommandEntryPoint(s) PROVE PlaceInv'
  <2>1. /\ req'[s].command \in CommandsOf[s] /\ Place(pc'[s], req'[s].command)
        /\ req'[s].command = Set => pc'[s] = "verify"
        /\ \A t \in Sessions \ {s} : pc'[t] = pc[t] /\ req'[t] = req[t]
    <3>1. /\ req'[s].command \in CommandsOf[s] /\ Place(pc'[s], req'[s].command)
          /\ pc'[s] \in {"verify", "open", "create", "sign"}
          /\ req'[s].command = Set => pc'[s] = "verify"
          /\ \A t \in Sessions \ {s} : pc'[t] = pc[t] /\ req'[t] = req[t]
      BY <1>1, EntryPlace
    <3> QED
      BY <3>1
  <2> QED
    BY <2>1 DEF PlaceInv, data
<1>2. ASSUME NEW s \in Sessions, Step(s) PROVE PlaceInv'
  <2>1. \A t \in Sessions \ {s} : pc'[t] = pc[t] /\ req'[t] = req[t]
    BY <1>2 DEF Step, Verify, Sign, CryptoPanics, OpenObject, ReadObject, ReadPanics,
       CloseObject, CreateObject, CloseCreated, CloseCreatedPanics, CloseSession, Panic
  <2>2. \/ pc'[s] = "idle"
        \/ /\ req'[s] = req[s] /\ pc[s] # "idle"
           /\ Place(pc'[s], req[s].command)
           /\ req[s].command = Set /\ pc'[s] \notin {"verify", "done"} =>
                 req[s].signature = data(req[s])
    <3>0. /\ pc[s] \in PCs /\ req[s].command \in Commands
          /\ pc[s] # "idle" =>
                /\ Place(pc[s], req[s].command)
                /\ req[s].command = Set /\ pc[s] \notin {"verify", "done"} =>
                      req[s].signature = data(req[s])
      BY DEF PlaceInv, TypeOK, Request
    <3> USE <3>0 DEF Place, GetAll, Get, Set, PCs
    <3>1. CASE Verify(s)
      BY <3>1 DEF Verify, Commands
    <3>2. CASE Sign(s) \/ CryptoPanics(s) \/ ReadPanics(s)
      BY <3>2 DEF Sign, CryptoPanics, ReadPanics, Panic, Request
    <3>3. CASE OpenObject(s) \/ ReadObject(s)
      BY <3>3 DEF OpenObject, ReadObject
    <3>4. CASE CloseObject(s)
      BY <3>4 DEF CloseObject, Commands, StorageCommands
    <3>5. CASE CreateObject(s)
      BY <3>5 DEF CreateObject
    <3>6. CASE CloseCreated(s) \/ CloseCreatedPanics(s)
      BY <3>6 DEF CloseCreated, CloseCreatedPanics, Panic, Request
    <3>7. CASE CloseSession(s)
      BY <3>7 DEF CloseSession
    <3> QED
      BY <1>2, <3>1, <3>2, <3>3, <3>4, <3>5, <3>6, <3>7 DEF Step
  <2> QED
    BY <2>1, <2>2 DEF PlaceInv, data
<1>3. CASE Restart
  BY <1>3 DEF Restart, PlaceInv
<1>4. CASE UNCHANGED vars
  BY <1>4 DEF vars, PlaceInv, data
<1> QED
  BY <1>1, <1>2, <1>3, <1>4 DEF Next

\* The image at the create, and the signature of a set after its verification.
WriteAt(s) ==
    /\ req[s].command = Set /\ pc[s] \in {"open", "read", "close", "create"} =>
          data(req[s]) \in issued
    /\ pc[s] = "create" =>
          /\ req[s].command = "TA_SEED_COIL" => allCoilData[s] = coilData
          /\ req[s].command = Set /\ req[s].address = COIL_ADDRESS_INVERTER_STATUS =>
                (StatusOn(allCoilData[s]) <=> req[s].value # 0)

WriteInv == \A s \in Sessions : WriteAt(s)

ImagesInv == /\ TypeInv /\ ObjectIsReleased /\ ZerosBeforeRead /\ OnInv
             /\ PlaceInv /\ WriteInv

\* An image is not the missing object.
LEMMA StoredIsNotNothing ==
    ASSUME NEW image \in CoilImage
    PROVE  image # NoObject
<1>1. DOMAIN image = 0..ARRAY_SIZE-1 /\ DOMAIN NoObject = {}
  BY DEF CoilImage, NoObject
<1>2. 0 \in 0..ARRAY_SIZE-1
  BY DEF ARRAY_SIZE
<1> QED
  BY <1>1, <1>2

\* A TEE API call of s leaves the other sessions where they were, and no
\* signature is taken back.
LEMMA OthersStay ==
    ASSUME TypeOK, NEW s \in Sessions, Step(s)
    PROVE  /\ issued \subseteq issued'
           /\ \A t \in Sessions \ {s} :
                 /\ pc'[t] = pc[t] /\ req'[t] = req[t]
                 /\ allCoilData'[t] = allCoilData[t]
<1> USE DEF TypeOK, Goto, Return
<1>1. CASE Verify(s) \/ Sign(s) \/ CloseSession(s)
  BY <1>1 DEF Verify, Sign, CloseSession
<1>2. CASE CryptoPanics(s) \/ ReadPanics(s) \/ CloseCreatedPanics(s)
  BY <1>2 DEF CryptoPanics, ReadPanics, CloseCreatedPanics, Panic
<1>3. CASE OpenObject(s) \/ ReadObject(s) \/ CloseObject(s)
  BY <1>3 DEF OpenObject, ReadObject, CloseObject
<1>4. CASE CreateObject(s) \/ CloseCreated(s)
  BY <1>4 DEF CreateObject, CloseCreated
<1> QED
  BY <1>1, <1>2, <1>3, <1>4 DEF Step

\* What a set is about to write is what was verified, whatever the others do.
LEMMA WriteStep ==
    ASSUME ImagesInv, [Next]_vars
    PROVE  WriteInv'
<1>0. /\ TypeOK /\ ZerosBeforeRead /\ PlaceInv /\ WriteInv
      /\ PresentsWhatWasIssued
  BY DEF ImagesInv, TypeInv, OnInv
<1>1. ASSUME NEW s \in Sessions, TA_InvokeCommandEntryPoint(s) PROVE WriteInv'
  <2>1. /\ req'[s].command = Set => pc'[s] = "verify"
        /\ pc[s] = "idle"
        /\ \A t \in Sessions \ {s} : pc'[t] = pc[t] /\ req'[t] = req[t]
        /\ UNCHANGED allCoilData
    BY <1>0, <1>1, EntryPlace
  <2>2. UNCHANGED issued
    BY <1>0, <1>1, EntryArgs DEF EntersAt, Enter
  <2>3. WriteAt(s)'
    BY <1>0, <2>1 DEF WriteAt, ZerosBeforeRead
  <2>4. \A t \in Sessions \ {s} : WriteAt(t)'
    BY <1>0, <2>1, <2>2 DEF WriteInv, WriteAt, data, StatusOn
  <2> QED
    BY <2>3, <2>4 DEF WriteInv
<1>2. ASSUME NEW s \in Sessions, Step(s) PROVE WriteInv'
  <2>1. /\ issued \subseteq issued'
        /\ \A t \in Sessions \ {s} :
              /\ pc'[t] = pc[t] /\ req'[t] = req[t]
              /\ allCoilData'[t] = allCoilData[t]
    BY <1>0, <1>2, OthersStay
  <2>2. \A t \in Sessions \ {s} : WriteAt(t)'
    BY <1>0, <2>1 DEF WriteInv, WriteAt, data, StatusOn
  <2>3. /\ req[s] \in Request /\ req[s].address \in Nat /\ req[s].value \in Byte
        /\ allCoilData[s] \in CoilImage /\ WriteAt(s) /\ pc[s] \in PCs
    BY <1>0 DEF TypeOK, Request, WriteInv
  <2> SUFFICES WriteAt(s)'
    BY <2>2 DEF WriteInv
  <2>4. CASE Verify(s)
    <3>1. /\ req' = req /\ issued' = issued /\ pc'[s] \in {"open", "done"}
          /\ pc'[s] = "open" => req[s].signature = data(req[s])
          /\ pc[s] = "verify"
      BY <1>0, <2>4 DEF Verify, TypeOK, Goto, Return
    <3>2. req[s].signature = data(req[s]) => data(req[s]) \in issued
      BY <1>0, <2>3, <3>1, DataIsNotBad DEF PresentsWhatWasIssued
    <3> QED
      BY <3>1, <3>2 DEF WriteAt, data
  <2>5. CASE CloseObject(s)
    <3> DEFINE after == ta_updateCoilData(bitNumber(req[s]), req[s].value, allCoilData[s])
    <3>1. /\ req' = req /\ issued' = issued /\ pc[s] = "close"
          /\ \/ pc'[s] \in {"done", "sign"}
             \/ /\ pc'[s] = "create" /\ req[s].command = Set
                /\ allCoilData'[s] = after
      BY <1>0, <2>5 DEF CloseObject, TypeOK, Goto, Return, Set
    <3>2. /\ after \in CoilImage
          /\ req[s].address = COIL_ADDRESS_INVERTER_STATUS =>
                (after[0] >= 128 <=> req[s].value # 0)
      BY <2>3, UpdatedImage DEF bitNumber
    <3> HIDE DEF after
    <3>3. after # NoObject
      BY <3>2, StoredIsNotNothing
    <3> QED
      BY <2>3, <3>1, <3>2, <3>3 DEF WriteAt, StatusOn, data, Set
  <2>6. CASE OpenObject(s) \/ ReadObject(s)
    <3>1. /\ req' = req /\ issued' = issued /\ pc[s] \in {"open", "read"}
          /\ pc'[s] \in {"read", "close"}
      BY <1>0, <2>6 DEF OpenObject, ReadObject, TypeOK, Goto
    <3> QED
      BY <2>3, <3>1 DEF WriteAt, data
  <2>7. CASE \/ Sign(s) \/ CryptoPanics(s) \/ ReadPanics(s) \/ CreateObject(s)
             \/ CloseCreated(s) \/ CloseCreatedPanics(s) \/ CloseSession(s)
    <3>1. pc'[s] \in {"idle", "done", "closeCreated"}
      BY <1>0, <2>7 DEF Sign, CryptoPanics, ReadPanics, CloseCreatedPanics, Panic,
         CreateObject, CloseCreated, CloseSession, TypeOK, Goto, Return
    <3> QED
      BY <3>1 DEF WriteAt
  <2> QED
    BY <1>2, <2>4, <2>5, <2>6, <2>7 DEF Step
<1>3. CASE Restart
  BY <1>3 DEF Restart, WriteInv, WriteAt
<1>4. CASE UNCHANGED vars
  BY <1>0, <1>4 DEF vars, WriteInv, WriteAt, data, StatusOn
<1> QED
  BY <1>1, <1>2, <1>3, <1>4 DEF Next

\* Only TEE_CreatePersistentObject changes what is stored, and it stores the
\* handler's image.
LEMMA OnlyCreateWrites ==
    ASSUME TypeOK, [Next]_vars, object' # object
    PROVE  \E s \in Sessions : pc[s] = "create" /\ object' = allCoilData[s]
<1>1. PICK s \in Sessions : TA_InvokeCommandEntryPoint(s) \/ Step(s)
  BY DEF Next, Restart, vars
<1>2. ~TA_InvokeCommandEntryPoint(s)
  BY EntryPlace
<1>3. CreateObject(s)
  BY <1>1, <1>2 DEF Step, Verify, Sign, CryptoPanics, ReadPanics,
     CloseCreatedPanics, Panic, OpenObject, ReadObject, CloseObject, CloseCreated,
     CloseSession
<1> QED
  BY <1>3 DEF CreateObject

\* Whatever happens between the verification of a set and its create - other
\* sessions' commands, conflicts, failed reads - an image gets into the store
\* only as the seed's or as a set's whose value and transaction id were signed,
\* and at the status address it shows that value.
THEOREM WritesAreSigned == Spec => OnlySignedWrites
<1> DEFINE Written(s) ==
       /\ pc[s] = "create"
       /\ \/ req[s].command = "TA_SEED_COIL" /\ object' = coilData
          \/ /\ req[s].command = "TA_SET_DATA_BY_COIL_ADDRESS"
             /\ data(req[s]) \in issued
             /\ req[s].address = COIL_ADDRESS_INVERTER_STATUS =>
                   (StatusOn(object') <=> req[s].value # 0)
<1>1. Init => PlaceInv /\ WriteInv /\ ZerosBeforeRead
  BY DEF Init, PlaceInv, WriteInv, WriteAt, ZerosBeforeRead
<1>2. ImagesInv /\ [Next]_vars => (PlaceInv /\ WriteInv /\ ZerosBeforeRead)'
  BY PlaceStep, WriteStep, ZerosStep DEF ImagesInv, TypeInv
<1>3. ImagesInv /\ [Next]_vars
         => [object' # object => \E s \in Sessions : Written(s)]_vars
  <2> SUFFICES ASSUME ImagesInv, [Next]_vars, object' # object
               PROVE  \E s \in Sessions : Written(s)
    OBVIOUS
  <2>1. TypeOK /\ PlaceInv /\ WriteInv
    BY DEF ImagesInv, TypeInv
  <2>2. PICK s \in Sessions : pc[s] = "create" /\ object' = allCoilData[s]
    BY <2>1, OnlyCreateWrites
  <2>3. req[s].command \in {"TA_SEED_COIL", "TA_SET_DATA_BY_COIL_ADDRESS"}
    BY <2>1, <2>2 DEF PlaceInv, Place, Set
  <2>4. WriteAt(s)
    BY <2>1 DEF WriteInv
  <2>5. Written(s)
    BY <2>2, <2>3, <2>4 DEF WriteAt, Set, StatusOn
  <2> QED
    BY <2>5
<1> QED
  BY <1>1, <1>2, <1>3, TypeInvariant, ObjectReleased, OnInvariant, PTL
     DEF Spec, ImagesInv, OnlySignedWrites

=============================================================================
