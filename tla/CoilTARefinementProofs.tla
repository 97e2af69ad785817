----------------------- MODULE CoilTARefinementProofs -----------------------
(***************************************************************************)
(* CoilTA implements SignedCoil for any sessions of which at most one uses *)
(* the stored object, any addresses, values and transaction ids.           *)
(***************************************************************************)
EXTENDS CoilTARefinement, CoilTAProofs

StoragePCs == {"open", "read", "close", "create", "closeCreated"}

\* A session at a storage call uses the object; there is only one.
LEMMA OneInStorage ==
    ASSUME PlaceInv, NEW s \in Sessions, NEW t \in Sessions,
           pc[s] \in StoragePCs, pc[t] \in StoragePCs
    PROVE  s = t
<1>1. \A u \in Sessions : pc[u] \in StoragePCs =>
          CommandsOf[u] \cap StorageCommands # {}
  BY DEF PlaceInv, Place, StoragePCs, StorageCommands, GetAll, Get, Set
<1> QED
  BY <1>1, OneStorageUser

(***************************************************************************)
(* The image.  Its seven other bits stay 0; what a session has read is     *)
(* what is stored, or zeros if its read failed, and what it creates is the *)
(* image it read with its own coil written: nobody else creates.           *)
(***************************************************************************)
Low(image) == image[0] % 128 = 0

\* What a read of the object may have left, now that nobody else writes it.
MayHaveRead(image) ==
    image = object \/ (StorageFaults /\ image = coilData)

\* The image s works on, at its place in the command.
ImageAt(s) ==
    /\ Low(allCoilData[s])
    /\ pc[s] = "close" => object # NoObject /\ MayHaveRead(allCoilData[s])
    /\ pc[s] = "create" =>
          \/ req[s].command = "TA_SEED_COIL" /\ allCoilData[s] = coilData
          \/ /\ req[s].command = Set /\ object # NoObject
             /\ \E image \in CoilImage :
                   /\ MayHaveRead(image)
                   /\ allCoilData[s] =
                         ta_updateCoilData(bitNumber(req[s]), req[s].value, image)
    /\ pc[s] = "closeCreated" =>
          /\ handle[s] = "live" \/ StorageFaults
          /\ req[s].command = Set => object # NoObject

ImageInv ==
    /\ object # NoObject => Low(object)
    /\ \A s \in Sessions : ImageAt(s)

SeqInv == /\ TypeInv /\ ObjectIsReleased /\ ZerosBeforeRead
          /\ PlaceInv /\ ImageInv

LEMMA FreeForItsUser ==
    ASSUME SeqInv, NEW s \in Sessions, pc[s] \in {"open", "create"}
    PROVE  Free
<1>1. \A t \in Sessions : handle[t] = "live" => t = s
  BY OneInStorage DEF SeqInv, ObjectIsReleased, StoragePCs
<1> QED
  BY <1>1 DEF SeqInv, ObjectIsReleased, Free

LEMMA ZerosAreLow == Low(coilData)
BY DEF Low, coilData, ARRAY_SIZE

\* Whatever the set's address, a Low image stays one.
LEMMA UpdatedIsLow ==
    ASSUME NEW a \in Nat, NEW v \in Byte, NEW image \in CoilImage, Low(image)
    PROVE  Low(ta_updateCoilData(ta_getBitNumberForCoil(a), v, image))
<1> DEFINE after == ta_updateCoilData(ta_getBitNumberForCoil(a), v, image)
<1>1. /\ a # COIL_ADDRESS_INVERTER_STATUS => after = image
      /\ a = COIL_ADDRESS_INVERTER_STATUS => after[0] % 128 = image[0] % 128
  BY UpdatedImage
<1> HIDE DEF after
<1>2. Low(after)
  BY <1>1 DEF Low
<1> QED
  BY <1>2 DEF after

\* A step of s leaves what the others work on, unless it creates the object.
LEMMA OthersKeep ==
    ASSUME SeqInv, NEW s \in Sessions, Step(s), NEW t \in Sessions \ {s}
    PROVE  /\ pc'[t] = pc[t] /\ req'[t] = req[t] /\ handle'[t] = handle[t]
           /\ allCoilData'[t] = allCoilData[t] /\ reply'[t] = reply[t]
BY DEF Step, Verify, Sign, CryptoPanics, OpenObject, ReadObject, ReadPanics,
   CloseObject, CreateObject, CloseCreated, CloseCreatedPanics, CloseSession, Panic,
   SeqInv, TypeInv, TypeOK, Goto, Return

LEMMA ImageAtKept ==
    ASSUME NEW s \in Sessions, ImageAt(s), object' = object, pc'[s] = pc[s],
           req'[s] = req[s], handle'[s] = handle[s], allCoilData'[s] = allCoilData[s]
    PROVE  ImageAt(s)'
<1>1. \A image : MayHaveRead(image)' <=> MayHaveRead(image)
  BY DEF MayHaveRead
<1> QED
  BY <1>1 DEF ImageAt, bitNumber

LEMMA ImageStep ==
    ASSUME SeqInv, [Next]_vars
    PROVE  ImageInv'
<1>0. /\ TypeOK /\ TypeInv /\ ObjectIsReleased /\ ZerosBeforeRead /\ PlaceInv /\ ImageInv
      /\ HeldObjectExists
  BY DEF SeqInv, TypeInv
<1>1. ASSUME NEW s \in Sessions, TA_InvokeCommandEntryPoint(s) PROVE ImageInv'
  <2>1. /\ pc'[s] \in {"verify", "open", "create", "sign"} /\ Place(pc'[s], req'[s].command)
        /\ req'[s].command = Set => pc'[s] = "verify"
        /\ pc[s] = "idle"
        /\ \A t \in Sessions \ {s} : pc'[t] = pc[t] /\ req'[t] = req[t]
        /\ UNCHANGED <<object, allCoilData, handle, reply>>
    BY <1>0, <1>1, EntryPlace
  <2>2. ImageAt(s)'
    BY <1>0, <2>1 DEF ImageInv, ImageAt, ZerosBeforeRead, Place
  <2>3. \A t \in Sessions \ {s} : ImageAt(t)'
    BY <1>0, <2>1, ImageAtKept DEF ImageInv
  <2> QED
    BY <1>0, <2>1, <2>2, <2>3 DEF ImageInv
<1>2. ASSUME NEW s \in Sessions, Step(s) PROVE ImageInv'
  <2>0. /\ req[s].address \in Nat /\ req[s].value \in Byte
        /\ allCoilData[s] \in CoilImage /\ Low(allCoilData[s])
        /\ pc[s] \in PCs /\ object \in CoilImage \cup {NoObject} /\ ImageAt(s)
    BY <1>0 DEF TypeOK, Request, ImageInv, ImageAt
  <2>1. \A t \in Sessions \ {s} :
           /\ pc'[t] = pc[t] /\ req'[t] = req[t] /\ handle'[t] = handle[t]
           /\ allCoilData'[t] = allCoilData[t]
    BY <1>2, OthersKeep
  <2>2. ASSUME object' = object, ImageAt(s)' PROVE ImageInv'
    BY <1>0, <2>1, <2>2, ImageAtKept DEF ImageInv
  <2>3. CASE Verify(s) \/ Sign(s) \/ CloseSession(s)
    <3>1. /\ object' = object /\ pc'[s] \notin {"close", "closeCreated", "create"}
          /\ allCoilData'[s] \in {allCoilData[s], coilData}
      BY <1>0, <2>3 DEF Verify, Sign, CloseSession, TypeOK, Goto, Return
    <3> QED
      BY <2>0, <2>2, <3>1, ZerosAreLow DEF ImageAt
  <2>4. CASE CryptoPanics(s) \/ ReadPanics(s) \/ CloseCreatedPanics(s) \/ CloseCreated(s)
    <3>1. /\ object' = object /\ pc'[s] = "done" /\ allCoilData' = allCoilData
      BY <1>0, <2>4 DEF CryptoPanics, ReadPanics, CloseCreatedPanics, CloseCreated, Panic,
         TypeOK, Goto, Return
    <3> QED
      BY <2>0, <2>2, <3>1 DEF ImageAt
  <2>5. CASE OpenObject(s)
    <3>1. /\ object' = object /\ pc'[s] = "read" /\ allCoilData' = allCoilData
      BY <1>0, <2>5 DEF OpenObject, TypeOK, Goto
    <3> QED
      BY <2>0, <2>2, <3>1 DEF ImageAt
  <2>6. CASE ReadObject(s)
    <3>1. /\ object' = object /\ pc'[s] = "close" /\ object # NoObject
          /\ \/ allCoilData'[s] = object
             \/ StorageFaults /\ allCoilData'[s] = coilData
      BY <1>0, <2>6 DEF ReadObject, TypeOK, Goto, HeldObjectExists, ZerosBeforeRead
    <3>2. Low(object) /\ Low(coilData)
      BY <1>0, <3>1, ZerosAreLow DEF ImageInv
    <3>3. ImageAt(s)'
      BY <3>1, <3>2 DEF ImageAt, MayHaveRead
    <3> QED
      BY <2>2, <3>1, <3>3
  <2>7. CASE CloseObject(s)
    <3> DEFINE after == ta_updateCoilData(bitNumber(req[s]), req[s].value, allCoilData[s])
    <3>1. /\ object' = object /\ pc[s] = "close" /\ req' = req
          /\ \/ pc'[s] \in {"done", "sign"} /\ allCoilData'[s] = allCoilData[s]
             \/ /\ pc'[s] = "create" /\ allCoilData'[s] = after
                /\ req[s].command = Set
      BY <1>0, <2>7 DEF CloseObject, TypeOK, Goto, Return, Set
    <3>2. Low(after)
      BY <2>0, UpdatedIsLow DEF bitNumber
    <3>3. object # NoObject /\ MayHaveRead(allCoilData[s])
      BY <2>0, <3>1 DEF ImageAt
    <3> HIDE DEF after
    <3>4. pc'[s] = "create" =>
             \E image \in CoilImage :
                /\ MayHaveRead(image)'
                /\ allCoilData'[s] =
                      ta_updateCoilData(bitNumber(req'[s]), req'[s].value, image)
      BY <2>0, <3>1, <3>3 DEF after, MayHaveRead
    <3> QED
      BY <2>0, <2>2, <3>1, <3>2, <3>3, <3>4 DEF ImageAt
  <2>8. CASE CreateObject(s)
    <3>1. /\ pc[s] = "create" /\ object' \in {object, allCoilData[s]}
          /\ pc'[s] = "closeCreated" /\ allCoilData' = allCoilData /\ req' = req
          /\ handle'[s] = "live" \/ StorageFaults
      BY <1>0, <2>8, FreeForItsUser DEF CreateObject, TypeOK, Goto
    <3>2. object' = NoObject => object = NoObject
      BY <2>0, <3>1, StoredIsNotNothing
    <3>3. ImageAt(s)'
      BY <2>0, <3>1, <3>2 DEF ImageAt, Set
    <3>4. \A t \in Sessions \ {s} : pc[t] \notin {"close", "create", "closeCreated"}
      BY <1>0, <3>1, OneInStorage DEF StoragePCs
    <3>5. \A t \in Sessions \ {s} : ImageAt(t)'
      BY <1>0, <2>1, <3>4 DEF ImageInv, ImageAt
    <3>6. object' # NoObject => Low(object')
      BY <1>0, <2>0, <3>1 DEF ImageInv
    <3> QED
      BY <3>3, <3>5, <3>6 DEF ImageInv
  <2> QED
    BY <1>2, <2>3, <2>4, <2>5, <2>6, <2>7, <2>8 DEF Step
<1>3. CASE Restart
  BY <1>0, <1>3, ZerosAreLow DEF Restart, ImageInv, ImageAt
<1>4. CASE UNCHANGED vars
  BY <1>0, <1>4, ImageAtKept DEF vars, ImageInv
<1> QED
  BY <1>1, <1>2, <1>3, <1>4 DEF Next

LEMMA SequentialInvariant == Spec => []SeqInv
<1>1. Init => ZerosBeforeRead /\ PlaceInv /\ ImageInv
  <2> SUFFICES ASSUME Init PROVE ZerosBeforeRead /\ PlaceInv /\ ImageInv
    OBVIOUS
  <2> QED
    BY ZerosAreLow DEF Init, ZerosBeforeRead, PlaceInv, ImageInv, ImageAt
<1>2. SeqInv /\ [Next]_vars => (ZerosBeforeRead /\ PlaceInv /\ ImageInv)'
  BY ZerosStep, PlaceStep, ImageStep DEF SeqInv, TypeInv
<1> QED
  BY <1>1, <1>2, TypeInvariant, ObjectReleased, PTL DEF Spec, SeqInv

(***************************************************************************)
(* The mapping, session by session.                                        *)
(***************************************************************************)
PhaseOf(call, h, r) ==
    IF call = "idle" THEN "idle"
    ELSE IF call = "done" THEN "answered"
    ELSE IF \/ call = "closeCreated" /\ h = "live"
            \/ call \in {"close", "sign"} /\ r.command \in {Get, GetAll}
    THEN "effected"
    ELSE "called"

OpOf(call, r) ==
    IF call = "idle" THEN Service!NoOp
    ELSE [kind |-> KindOf[r.command],
          mapped |-> r.address = COIL_ADDRESS_INVERTER_STATUS,
          on |-> r.value # 0, authentic |-> r.signature = data(r)]

BoundOf(call, r, image) ==
    [dead |-> FALSE, verified |-> IF r.command = Set THEN 1 ELSE 0,
     on |-> /\ call # "closeCreated"
            /\ StatusOn(image)
            /\ r.command = Get => r.address = COIL_ADDRESS_INVERTER_STATUS,
     attested |-> r.command = Get]

ReceivedOf(r, answer) ==
    [dead |-> answer.res = "TEE_ERROR_TARGET_DEAD", verified |-> answer.verified,
     on |-> answer.value # 0,
     attested |-> answer.signature =
         SignedData(IF r.command = "TA_SIGN_COIL_DATA" THEN r.value ELSE answer.value,
                    r.transactionId)]

OutcomeOf(call, h, r, image, answer) ==
    IF PhaseOf(call, h, r) = "effected" THEN BoundOf(call, r, image)
    ELSE IF PhaseOf(call, h, r) = "answered" THEN ReceivedOf(r, answer)
    ELSE Service!NoOutcome

Mapped ==
    /\ phase = [s \in Sessions |-> PhaseOf(pc[s], handle[s], req[s])]
    /\ op = [s \in Sessions |-> OpOf(pc[s], req[s])]
    /\ outcome = [s \in Sessions |-> OutcomeOf(pc[s], handle[s], req[s], allCoilData[s], reply[s])]

LEMMA Mapping == Mapped
<1>1. phase = [s \in Sessions |-> PhaseOf(pc[s], handle[s], req[s])]
  BY DEF phase, PhaseOf, Get, GetAll
<1>2. op = [s \in Sessions |-> OpOf(pc[s], req[s])]
  BY Zenon DEF op, OpOf, Service!NoOp
<1>3. \A s \in Sessions : phase[s] = PhaseOf(pc[s], handle[s], req[s])
  BY <1>1
<1>4. \A s \in Sessions : Bound(s) = BoundOf(pc[s], req[s], allCoilData[s])
  BY Zenon DEF Bound, BoundOf, Set, Get
<1>5. \A s \in Sessions : Received(s) = ReceivedOf(req[s], reply[s])
  BY Zenon DEF Received, ReceivedOf
<1>6. Service!NoOutcome = [dead |-> FALSE, verified |-> 0, on |-> FALSE, attested |-> FALSE]
  BY DEF Service!NoOutcome, Service!Outcome
<1>7. outcome = [s \in Sessions |-> OutcomeOf(pc[s], handle[s], req[s], allCoilData[s], reply[s])]
  <2> HIDE DEF phase, PhaseOf, Bound, BoundOf, Received, ReceivedOf, Service!NoOutcome
  <2> QED
    BY <1>3, <1>4, <1>5, <1>6 DEF outcome, OutcomeOf
<1> QED
  BY <1>1, <1>2, <1>7 DEF Mapped

LEMMA MappingNext == Mapped'
BY Mapping, PTL

LEMMA StatusKept == object' = object => status' = status
BY DEF status, StatusOn

Moves(s) == \A t \in Sessions \ {s} :
    /\ pc'[t] = pc[t] /\ req'[t] = req[t] /\ handle'[t] = handle[t]
    /\ allCoilData'[t] = allCoilData[t] /\ reply'[t] = reply[t]

LEMMA SessionMoves ==
    ASSUME NEW s \in Sessions, Moves(s)
    PROVE  /\ phase' = [phase EXCEPT ![s] = PhaseOf(pc'[s], handle'[s], req'[s])]
           /\ op' = [op EXCEPT ![s] = OpOf(pc'[s], req'[s])]
           /\ outcome' = [outcome EXCEPT ![s] =
                 OutcomeOf(pc'[s], handle'[s], req'[s], allCoilData'[s], reply'[s])]
<1>1. /\ phase = [t \in Sessions |-> PhaseOf(pc[t], handle[t], req[t])]
      /\ op = [t \in Sessions |-> OpOf(pc[t], req[t])]
      /\ outcome = [t \in Sessions |->
            OutcomeOf(pc[t], handle[t], req[t], allCoilData[t], reply[t])]
  BY Mapping DEF Mapped
<1>2. /\ phase' = [t \in Sessions |-> PhaseOf(pc'[t], handle'[t], req'[t])]
      /\ op' = [t \in Sessions |-> OpOf(pc'[t], req'[t])]
      /\ outcome' = [t \in Sessions |->
            OutcomeOf(pc'[t], handle'[t], req'[t], allCoilData'[t], reply'[t])]
  BY MappingNext DEF Mapped
<1> QED
  BY <1>1, <1>2 DEF Moves

LEMMA SessionStands ==
    ASSUME NEW s \in Sessions, pc[s] # "idle"
    PROVE  /\ phase[s] = PhaseOf(pc[s], handle[s], req[s])
           /\ op[s] = OpOf(pc[s], req[s])
           /\ outcome[s] = OutcomeOf(pc[s], handle[s], req[s], allCoilData[s], reply[s])
BY Mapping DEF Mapped

LEMMA KindOfCommand ==
    /\ KindOf["TA_SEED_COIL"] = "seed" /\ KindOf[GetAll] = "readAll"
    /\ KindOf[Get] = "read" /\ KindOf[Set] = "write"
    /\ KindOf["TA_VERIFY_COIL_DATA"] = "verify" /\ KindOf["TA_SIGN_COIL_DATA"] = "sign"
BY DEF KindOf, GetAll, Get, Set

LEMMA OpFieldsOf ==
    ASSUME NEW s \in Sessions, pc[s] # "idle"
    PROVE  /\ op[s].kind = KindOf[req[s].command]
           /\ op[s].mapped <=> req[s].address = COIL_ADDRESS_INVERTER_STATUS
           /\ op[s].on <=> req[s].value # 0
           /\ op[s].authentic <=> req[s].signature = data(req[s])
<1> DEFINE o == [kind |-> KindOf[req[s].command],
                 mapped |-> req[s].address = COIL_ADDRESS_INVERTER_STATUS,
                 on |-> req[s].value # 0, authentic |-> req[s].signature = data(req[s])]
<1>1. op[s] = o
  BY SessionStands, Zenon DEF OpOf
<1>2. /\ o.kind = KindOf[req[s].command]
      /\ o.mapped <=> req[s].address = COIL_ADDRESS_INVERTER_STATUS
      /\ o.on <=> req[s].value # 0
      /\ o.authentic <=> req[s].signature = data(req[s])
  BY Zenon
<1> HIDE DEF o
<1> QED
  BY <1>1, <1>2

\* A step within a command settles its phase and its outcome.
LEMMA Settled ==
    ASSUME SeqInv, NEW s \in Sessions, Step(s), req' = req, pc[s] # "idle",
           pc'[s] # "idle"
    PROVE  Service!Settle(s, PhaseOf(pc'[s], handle'[s], req[s]),
                          OutcomeOf(pc'[s], handle'[s], req[s], allCoilData'[s], reply'[s]))
<1>1. Moves(s)
  BY OthersKeep DEF Moves
<1>2. /\ phase' = [phase EXCEPT ![s] = PhaseOf(pc'[s], handle'[s], req[s])]
      /\ op' = [op EXCEPT ![s] = OpOf(pc'[s], req[s])]
      /\ outcome' = [outcome EXCEPT ![s] =
            OutcomeOf(pc'[s], handle'[s], req[s], allCoilData'[s], reply'[s])]
  BY <1>1, SessionMoves
<1>3. OpOf(pc'[s], req[s]) = OpOf(pc[s], req[s])
  BY Zenon DEF OpOf
<1>4. op[s] = OpOf(pc[s], req[s]) /\ op = [t \in Sessions |-> op[t]]
  BY SessionStands, Mapping DEF Mapped
<1>5. op' = op
  BY <1>2, <1>3, <1>4
<1> QED
  BY <1>2, <1>5 DEF Service!Settle

\* It is a stutter if phase and outcome stay.
LEMMA Stutters ==
    ASSUME SeqInv, NEW s \in Sessions, Step(s), req' = req, pc[s] # "idle",
           pc'[s] # "idle", object' = object,
           PhaseOf(pc'[s], handle'[s], req[s]) = PhaseOf(pc[s], handle[s], req[s]),
           OutcomeOf(pc'[s], handle'[s], req[s], allCoilData'[s], reply'[s])
               = OutcomeOf(pc[s], handle[s], req[s], allCoilData[s], reply[s])
    PROVE  UNCHANGED <<status, op, phase, outcome>>
<1>1. /\ phase[s] = PhaseOf(pc[s], handle[s], req[s])
      /\ outcome[s] = OutcomeOf(pc[s], handle[s], req[s], allCoilData[s], reply[s])
      /\ phase = [t \in Sessions |-> phase[t]]
      /\ outcome = [t \in Sessions |-> outcome[t]]
  BY SessionStands, Mapping DEF Mapped
<1>2. /\ phase' = [phase EXCEPT ![s] = phase[s]] /\ op' = op
      /\ outcome' = [outcome EXCEPT ![s] = outcome[s]]
  BY <1>1, Settled DEF Service!Settle
<1> QED
  BY <1>1, <1>2, StatusKept

(***************************************************************************)
(* Answers                                                                 *)
(***************************************************************************)
LEMMA BytesAreNotBad ==
    ASSUME NEW v, NEW t
    PROVE  SignedData(v, t) # BadSignature
BY DEF SignedData, BadSignature

\* An answer without a signature, one with the signature of what it is about,
\* and that of a panic.
LEMMA PlainAnswer ==
    ASSUME NEW r, NEW n, NEW v, NEW on \in BOOLEAN, on <=> v # 0
    PROVE  ReceivedOf(r, Success(n, v, BadSignature)) = Service!Outcome(n, on, FALSE)
<1> DEFINE answer == Success(n, v, BadSignature)
           on1 == answer.value # 0
           att1 == answer.signature =
                      SignedData(IF r.command = "TA_SIGN_COIL_DATA" THEN r.value
                                 ELSE answer.value, r.transactionId)
           dead1 == answer.res = "TEE_ERROR_TARGET_DEAD"
<1>1. /\ answer.res = "TEE_SUCCESS" /\ answer.verified = n
      /\ answer.value = v /\ answer.signature = BadSignature
  BY DEF Success
<1>2. on1 \in BOOLEAN /\ att1 \in BOOLEAN /\ dead1 \in BOOLEAN
  OBVIOUS
<1>3. (on1 <=> on) /\ ~att1 /\ ~dead1
  BY <1>1, BytesAreNotBad
<1>4. ReceivedOf(r, answer) = [dead |-> dead1, verified |-> n, on |-> on1, attested |-> att1]
  BY <1>1, Zenon DEF ReceivedOf
<1> HIDE DEF answer, on1, att1, dead1
<1>5. dead1 = FALSE /\ on1 = on /\ att1 = FALSE
  BY <1>2, <1>3
<1> QED
  BY <1>4, <1>5, Zenon DEF Service!Outcome, answer

LEMMA SignedAnswer ==
    ASSUME NEW r, NEW v, NEW g, NEW on \in BOOLEAN, on <=> v # 0,
           g = SignedData(IF r.command = "TA_SIGN_COIL_DATA" THEN r.value ELSE v,
                          r.transactionId)
    PROVE  ReceivedOf(r, Success(0, v, g)) = Service!Outcome(0, on, TRUE)
<1> DEFINE answer == Success(0, v, g)
           on1 == answer.value # 0
           att1 == answer.signature =
                      SignedData(IF r.command = "TA_SIGN_COIL_DATA" THEN r.value
                                 ELSE answer.value, r.transactionId)
           dead1 == answer.res = "TEE_ERROR_TARGET_DEAD"
<1>1. /\ answer.res = "TEE_SUCCESS" /\ answer.verified = 0
      /\ answer.value = v /\ answer.signature = g
  BY DEF Success
<1>2. on1 \in BOOLEAN /\ att1 \in BOOLEAN /\ dead1 \in BOOLEAN
  OBVIOUS
<1>3. (on1 <=> on) /\ att1 /\ ~dead1
  BY <1>1
<1>4. ReceivedOf(r, answer) = [dead |-> dead1, verified |-> 0, on |-> on1, attested |-> att1]
  BY <1>1, Zenon DEF ReceivedOf
<1> HIDE DEF answer, on1, att1, dead1
<1>5. dead1 = FALSE /\ on1 = on /\ att1 = TRUE
  BY <1>2, <1>3
<1> QED
  BY <1>4, <1>5, Zenon DEF Service!Outcome, answer

LEMMA DeadAnswer ==
    ASSUME NEW r
    PROVE  ReceivedOf(r, TargetDead) = Service!Dead
<1> DEFINE on1 == TargetDead.value # 0
           att1 == TargetDead.signature =
                      SignedData(IF r.command = "TA_SIGN_COIL_DATA" THEN r.value
                                 ELSE TargetDead.value, r.transactionId)
           dead1 == TargetDead.res = "TEE_ERROR_TARGET_DEAD"
<1>1. /\ TargetDead.res = "TEE_ERROR_TARGET_DEAD" /\ TargetDead.verified = 0
      /\ TargetDead.value = 0 /\ TargetDead.signature = BadSignature
  BY DEF TargetDead
<1>2. on1 \in BOOLEAN /\ att1 \in BOOLEAN /\ dead1 \in BOOLEAN
  OBVIOUS
<1>3. ~on1 /\ ~att1 /\ dead1
  BY <1>1, BytesAreNotBad
<1>4. ReceivedOf(r, TargetDead)
         = [dead |-> dead1, verified |-> 0, on |-> on1, attested |-> att1]
  BY <1>1, Zenon DEF ReceivedOf
<1> HIDE DEF on1, att1, dead1
<1>5. dead1 = TRUE /\ on1 = FALSE /\ att1 = FALSE
  BY <1>2, <1>3
<1>6. Service!Dead = [dead |-> TRUE, verified |-> 0, on |-> FALSE, attested |-> FALSE]
  BY DEF Service!Dead
<1> QED
  BY <1>4, <1>5, <1>6

\* What a call that took effect is bound to answer.
LEMMA BoundAnswer ==
    ASSUME NEW call, NEW r, NEW image, NEW on \in BOOLEAN, NEW attested \in BOOLEAN,
           attested <=> r.command = Get,
           on <=> /\ call # "closeCreated" /\ StatusOn(image)
                  /\ r.command = Get => r.address = COIL_ADDRESS_INVERTER_STATUS
    PROVE  BoundOf(call, r, image)
              = Service!Outcome(IF r.command = Set THEN 1 ELSE 0, on, attested)
<1> DEFINE on1 == /\ call # "closeCreated" /\ StatusOn(image)
                  /\ r.command = Get => r.address = COIL_ADDRESS_INVERTER_STATUS
           att1 == r.command = Get
           n == IF r.command = Set THEN 1 ELSE 0
<1>1. on1 \in BOOLEAN /\ att1 \in BOOLEAN /\ (on1 <=> on) /\ (att1 <=> attested)
  OBVIOUS
<1>2. BoundOf(call, r, image) = [dead |-> FALSE, verified |-> n, on |-> on1, attested |-> att1]
  BY Zenon DEF BoundOf
<1> HIDE DEF on1, att1, n
<1>3. on1 = on /\ att1 = attested
  BY <1>1
<1>4. BoundOf(call, r, image) = Service!Outcome(n, on, attested)
  BY <1>2, <1>3, Zenon DEF Service!Outcome
<1> QED
  BY <1>4 DEF n

(***************************************************************************)
(* Every step of the trusted application is one of the service, or none.   *)
(***************************************************************************)
\* What a session's request and image are, at any call of a command.
LEMMA Facts ==
    ASSUME SeqInv, NEW s \in Sessions
    PROVE  /\ req[s].address \in Nat /\ req[s].value \in Byte
           /\ req[s].transactionId \in Nat /\ req[s].command \in Commands
           /\ allCoilData[s] \in CoilImage /\ Low(allCoilData[s]) /\ ImageAt(s)
           /\ object \in CoilImage \cup {NoObject}
           /\ pc[s] # "idle" => Place(pc[s], req[s].command)
           /\ req[s].command = Set /\ pc[s] \notin {"idle", "verify", "done"} =>
                  req[s].signature = data(req[s])
BY DEF SeqInv, TypeInv, TypeOK, Request, ImageInv, ImageAt, PlaceInv

LEMMA AnswerSettled ==
    ASSUME SeqInv, NEW s \in Sessions, Step(s), req' = req, pc[s] # "idle",
           pc'[s] = "done"
    PROVE  Service!Settle(s, "answered", ReceivedOf(req[s], reply'[s]))
<1>1. PhaseOf(pc'[s], handle'[s], req[s]) = "answered"
  BY DEF PhaseOf
<1>2. OutcomeOf(pc'[s], handle'[s], req[s], allCoilData'[s], reply'[s])
         = ReceivedOf(req[s], reply'[s])
  BY <1>1 DEF OutcomeOf
<1> QED
  BY <1>1, <1>2, Settled

\* A step before the effect is a stutter.
LEMMA StillCalled ==
    ASSUME SeqInv, NEW s \in Sessions, Step(s), req' = req, pc[s] # "idle",
           pc'[s] # "idle", object' = object, PhaseOf(pc[s], handle[s], req[s]) = "called",
           PhaseOf(pc'[s], handle'[s], req[s]) = "called"
    PROVE  UNCHANGED Service!svars
<1>1. OutcomeOf(pc'[s], handle'[s], req[s], allCoilData'[s], reply'[s])
         = OutcomeOf(pc[s], handle[s], req[s], allCoilData[s], reply[s])
  BY DEF OutcomeOf
<1> QED
  BY <1>1, Stutters DEF Service!svars

LEMMA VerifyMaps ==
    ASSUME SeqInv, NEW s \in Sessions, Verify(s)
    PROVE  Service!Judge(s) \/ UNCHANGED Service!svars
<1> DEFINE verified == IF req[s].signature = data(req[s]) THEN 1 ELSE -1
<1>1. /\ Step(s) /\ pc[s] = "verify" /\ req' = req /\ object' = object
      /\ \/ pc'[s] = "open" /\ req[s].command = Set
         \/ /\ req[s].command = "TA_VERIFY_COIL_DATA" \/ verified = -1
            /\ pc'[s] = "done" /\ reply'[s] = Success(verified, 0, BadSignature)
  BY DEF Verify, Step, Goto, Return, SeqInv, TypeInv, TypeOK, Set
<1>2. phase[s] = "called" /\ PhaseOf("verify", handle[s], req[s]) = "called"
  BY <1>1, SessionStands DEF PhaseOf
<1>3. CASE pc'[s] = "open"
  <2>1. PhaseOf("open", handle'[s], req[s]) = "called"
    BY DEF PhaseOf
  <2> QED
    BY <1>1, <1>2, <1>3, <2>1, StillCalled
<1>4. CASE pc'[s] = "done"
  <2>1. Service!Settle(s, "answered", ReceivedOf(req[s], reply'[s]))
    BY <1>1, <1>4, AnswerSettled
  <2>2. ReceivedOf(req[s], Success(verified, 0, BadSignature))
           = Service!Outcome(verified, FALSE, FALSE)
    BY PlainAnswer
  <2>3. /\ op[s].kind = KindOf[req[s].command]
        /\ op[s].authentic <=> verified = 1
    BY <1>1, OpFieldsOf
  <2>4. Service!Settle(s, "answered",
            Service!Outcome(IF op[s].authentic THEN 1 ELSE -1, FALSE, FALSE))
    BY <1>1, <1>4, <2>1, <2>2, <2>3
  <2>5. req[s].command \in {Set, "TA_VERIFY_COIL_DATA"}
    BY <1>1, Facts DEF Place
  <2>6. op[s].kind = "verify" \/ (op[s].kind = "write" /\ ~op[s].authentic)
    BY <1>1, <1>4, <2>3, <2>5, KindOfCommand
  <2> QED
    BY <1>1, <1>2, <2>4, <2>6, StatusKept DEF Service!Judge
<1> QED
  BY <1>1, <1>3, <1>4

LEMMA SignMaps ==
    ASSUME SeqInv, NEW s \in Sessions, Sign(s)
    PROVE  Service!Judge(s) \/ Service!Answer(s)
<1> DEFINE value == ta_getCoilValue(bitNumber(req[s]), allCoilData[s])
<1>1. /\ Step(s) /\ pc[s] = "sign" /\ req' = req /\ object' = object /\ pc'[s] = "done"
      /\ req[s].command \in {Get, "TA_SIGN_COIL_DATA"}
  BY Facts DEF Sign, Step, Goto, Return, SeqInv, TypeInv, TypeOK, Place
<1>2. Service!Settle(s, "answered", ReceivedOf(req[s], reply'[s]))
  BY <1>1, AnswerSettled
<1>3. CASE req[s].command = "TA_SIGN_COIL_DATA"
  <2>1. reply'[s] = Success(0, 0, data(req[s]))
    BY <1>3 DEF Sign, Return, SeqInv, TypeInv, TypeOK
  <2>2. ReceivedOf(req[s], reply'[s]) = Service!Outcome(0, FALSE, TRUE)
    BY <1>3, <2>1, SignedAnswer DEF data
  <2>3. phase[s] = "called"
    BY <1>1, <1>3, SessionStands DEF PhaseOf, Get, GetAll
  <2>4. op[s].kind = "sign"
    BY <1>1, <1>3, OpFieldsOf, KindOfCommand
  <2> QED
    BY <1>1, <1>2, <2>2, <2>3, <2>4, StatusKept DEF Service!Judge
<1>4. CASE req[s].command = Get
  <2> DEFINE on == value # 0
  <2>1. reply'[s] = Success(0, value, SignedData(value, req[s].transactionId))
    BY <1>4 DEF Sign, Return, SeqInv, TypeInv, TypeOK, Get
  <2>2. ReceivedOf(req[s], reply'[s]) = Service!Outcome(0, on, TRUE)
    <3> HIDE DEF value
    <3> DEFINE g == SignedData(value, req[s].transactionId)
    <3>1. g = SignedData(IF req[s].command = "TA_SIGN_COIL_DATA" THEN req[s].value
                         ELSE value, req[s].transactionId)
      BY <1>4 DEF Get
    <3>2. on \in BOOLEAN /\ (on <=> value # 0)
      OBVIOUS
    <3> HIDE DEF on, g
    <3>3. ReceivedOf(req[s], Success(0, value, g)) = Service!Outcome(0, on, TRUE)
      BY <3>1, <3>2, SignedAnswer
    <3> QED
      BY <2>1, <3>3 DEF g
  <2>3. phase[s] = "effected" /\ outcome[s] = BoundOf(pc[s], req[s], allCoilData[s])
    BY <1>1, <1>4, SessionStands DEF PhaseOf, OutcomeOf
  <2>4. allCoilData[s] # NoObject
    BY Facts, StoredIsNotNothing
  <2>5. on <=> req[s].address = COIL_ADDRESS_INVERTER_STATUS /\ allCoilData[s][0] >= 128
    BY Facts, CoilValueOf DEF bitNumber
  <2>6. outcome[s] = Service!Outcome(0, on, TRUE)
    <3>1. /\ on \in BOOLEAN
          /\ on <=> /\ pc[s] # "closeCreated" /\ StatusOn(allCoilData[s])
                    /\ req[s].command = Get => req[s].address = COIL_ADDRESS_INVERTER_STATUS
      BY <1>1, <1>4, <2>4, <2>5 DEF StatusOn
    <3>2. TRUE \in BOOLEAN /\ (TRUE <=> req[s].command = Get)
      BY <1>4
    <3> DEFINE call == pc[s]
               r == req[s]
               image == allCoilData[s]
    <3> HIDE DEF on, call, r, image
    <3>3. /\ on \in BOOLEAN /\ TRUE \in BOOLEAN /\ (TRUE <=> r.command = Get)
          /\ on <=> /\ call # "closeCreated" /\ StatusOn(image)
                    /\ r.command = Get => r.address = COIL_ADDRESS_INVERTER_STATUS
      BY <3>1, <3>2 DEF call, r, image
    <3>4. BoundOf(call, r, image)
             = Service!Outcome(IF r.command = Set THEN 1 ELSE 0, on, TRUE)
      BY <3>3, BoundAnswer
    <3> QED
      BY <1>4, <2>3, <3>4 DEF Get, Set, call, r, image
  <2> QED
    BY <1>1, <1>2, <2>2, <2>3, <2>6, StatusKept DEF Service!Answer
<1> QED
  BY <1>1, <1>3, <1>4

LEMMA PanicMaps ==
    ASSUME SeqInv, NEW s \in Sessions,
           CryptoPanics(s) \/ ReadPanics(s) \/ CloseCreatedPanics(s)
    PROVE  Service!Die(s)
<1>1. /\ Step(s) /\ req' = req /\ object' = object /\ pc'[s] = "done"
      /\ reply'[s] = TargetDead
      /\ \/ pc[s] \in {"verify", "sign", "read"}
         \/ pc[s] = "closeCreated" /\ handle[s] = "garbage"
  BY DEF CryptoPanics, ReadPanics, CloseCreatedPanics, Panic, Step, Goto, Return, SeqInv,
     TypeInv, TypeOK
<1>2. Service!Settle(s, "answered", Service!Dead)
  BY <1>1, AnswerSettled, DeadAnswer
<1>3. phase[s] = PhaseOf(pc[s], handle[s], req[s])
  BY <1>1, SessionStands
<1>4. pc[s] # "sign" => phase[s] = "called"
  BY <1>1, <1>3 DEF PhaseOf
<1>5. pc[s] = "sign" => req[s].command \in {Get, "TA_SIGN_COIL_DATA"}
  BY Facts DEF Place
<1>6. pc[s] = "sign" => phase[s] = "called" \/ (phase[s] = "effected" /\ op[s].kind = "read")
  BY <1>1, <1>3, <1>5, OpFieldsOf, KindOfCommand DEF PhaseOf, Get, GetAll
<1> QED
  BY <1>1, <1>2, <1>4, <1>6, StatusKept DEF Service!Die

\* The effect of a read, whatever image it got.
LEMMA ReadSettles ==
    ASSUME SeqInv, NEW s \in Sessions, ReadObject(s), req[s].command \in {Get, GetAll},
           NEW on \in BOOLEAN,
           on <=> /\ StatusOn(allCoilData'[s])
                  /\ req[s].command = Get => req[s].address = COIL_ADDRESS_INVERTER_STATUS
    PROVE  /\ phase[s] = "called" /\ op[s].kind \in {"read", "readAll"}
           /\ status # "absent" /\ status' = status
           /\ Service!Settle(s, "effected", Service!Outcome(0, on, op[s].kind = "read"))
<1> DEFINE attested == op[s].kind = "read"
           image == allCoilData'[s]
<1>1. /\ Step(s) /\ pc[s] = "read" /\ req' = req /\ object' = object /\ pc'[s] = "close"
      /\ object # NoObject
  BY DEF ReadObject, Step, Goto, SeqInv, TypeInv, TypeOK, HeldObjectExists
<1>2. phase[s] = "called" /\ status # "absent"
  BY <1>1, SessionStands DEF PhaseOf, status
<1>3. PhaseOf(pc'[s], handle'[s], req[s]) = "effected"
  BY <1>1 DEF PhaseOf
<1>4. Service!Settle(s, "effected", BoundOf(pc'[s], req[s], image))
  BY <1>1, <1>3, Settled DEF OutcomeOf
<1>5. op[s].kind \in {"read", "readAll"} /\ (attested <=> req[s].command = Get)
  BY <1>1, OpFieldsOf, KindOfCommand DEF Get, GetAll
<1>6. /\ attested \in BOOLEAN
      /\ on <=> /\ pc'[s] # "closeCreated" /\ StatusOn(image)
                /\ req[s].command = Get => req[s].address = COIL_ADDRESS_INVERTER_STATUS
  BY <1>1
<1>7. BoundOf(pc'[s], req[s], image) = Service!Outcome(0, on, attested)
  <2> HIDE DEF attested, image
  <2>1. BoundOf(pc'[s], req[s], image)
           = Service!Outcome(IF req[s].command = Set THEN 1 ELSE 0, on, attested)
    BY <1>5, <1>6, BoundAnswer
  <2> QED
    BY <2>1 DEF Get, GetAll, Set
<1>8. Service!Settle(s, "effected", Service!Outcome(0, on, attested))
  BY <1>4, <1>7
<1> QED
  BY <1>1, <1>2, <1>5, <1>8, StatusKept

LEMMA ReadMaps ==
    ASSUME SeqInv, NEW s \in Sessions, ReadObject(s)
    PROVE  Service!Read(s) \/ Service!ReadFails(s) \/ UNCHANGED Service!svars
<1>1. /\ Step(s) /\ pc[s] = "read" /\ req' = req /\ object' = object /\ pc'[s] = "close"
      /\ object # NoObject /\ req[s].command \in {GetAll, Get, Set}
      /\ \/ allCoilData'[s] = object
         \/ StorageFaults /\ allCoilData'[s] = coilData
  BY Facts DEF ReadObject, Step, Goto, SeqInv, TypeInv, TypeOK, HeldObjectExists,
     ZerosBeforeRead, Place
<1>2. PhaseOf(pc[s], handle[s], req[s]) = "called"
  BY <1>1 DEF PhaseOf
<1>3. CASE req[s].command = Set
  <2>1. PhaseOf(pc'[s], handle'[s], req[s]) = "called"
    BY <1>1, <1>3 DEF PhaseOf, Set, Get, GetAll
  <2> QED
    BY <1>1, <1>2, <2>1, StillCalled
<1>4. CASE req[s].command \in {Get, GetAll} /\ allCoilData'[s] = object
  <2> DEFINE on == status = "on" /\ (op[s].kind = "read" => op[s].mapped)
  <2>1. status = "on" <=> StatusOn(object)
    BY <1>1 DEF status
  <2>2. /\ op[s].mapped <=> req[s].address = COIL_ADDRESS_INVERTER_STATUS
        /\ op[s].kind = "read" <=> req[s].command = Get
    BY <1>1, <1>4, OpFieldsOf, KindOfCommand DEF Get, GetAll
  <2>3. /\ on \in BOOLEAN
        /\ on <=> /\ StatusOn(allCoilData'[s])
                  /\ req[s].command = Get => req[s].address = COIL_ADDRESS_INVERTER_STATUS
    BY <1>4, <2>1, <2>2
  <2>4. /\ phase[s] = "called" /\ op[s].kind \in {"read", "readAll"}
        /\ status # "absent" /\ status' = status
        /\ Service!Settle(s, "effected", Service!Outcome(0, on, op[s].kind = "read"))
    <3> HIDE DEF on
    <3> QED
      BY <1>4, <2>3, ReadSettles
  <2> QED
    BY <2>4 DEF Service!Read
<1>5. CASE req[s].command \in {Get, GetAll} /\ StorageFaults /\ allCoilData'[s] = coilData
  <2>1. ~StatusOn(allCoilData'[s])
    BY <1>5 DEF StatusOn, coilData, ARRAY_SIZE
  <2>2. /\ phase[s] = "called" /\ op[s].kind \in {"read", "readAll"}
        /\ status # "absent" /\ status' = status
        /\ Service!Settle(s, "effected", Service!Outcome(0, FALSE, op[s].kind = "read"))
    BY <1>5, <2>1, ReadSettles
  <2> QED
    BY <1>5, <2>2 DEF Service!ReadFails
<1> QED
  BY <1>1, <1>3, <1>4, <1>5

LEMMA OpenMaps ==
    ASSUME SeqInv, NEW s \in Sessions, OpenObject(s)
    PROVE  UNCHANGED Service!svars
<1>1. /\ Step(s) /\ pc[s] = "open" /\ req' = req /\ object' = object /\ pc'[s] = "read"
  BY DEF OpenObject, Step, Goto, SeqInv, TypeInv, TypeOK
<1>2. PhaseOf(pc[s], handle[s], req[s]) = "called" /\ PhaseOf(pc'[s], handle'[s], req[s]) = "called"
  BY <1>1 DEF PhaseOf
<1> QED
  BY <1>1, <1>2, StillCalled

LEMMA CloseMaps ==
    ASSUME SeqInv, NEW s \in Sessions, CloseObject(s)
    PROVE  Service!Answer(s) \/ UNCHANGED Service!svars
<1>1. Step(s) /\ pc[s] = "close" /\ req' = req /\ object' = object
  BY DEF CloseObject, Step
<1>2. CASE req[s].command = GetAll
  <2> DEFINE image == allCoilData[s]
             on == image[0] # 0
  <2>1. pc'[s] = "done" /\ reply'[s] = Success(0, image[0], BadSignature)
    BY <1>2 DEF CloseObject, Goto, Return, SeqInv, TypeInv, TypeOK, GetAll
  <2>2. Service!Settle(s, "answered", ReceivedOf(req[s], reply'[s]))
    BY <1>1, <2>1, AnswerSettled
  <2>3. image # NoObject
    BY Facts, StoredIsNotNothing
  <2>4. image[0] \in Byte /\ image[0] % 128 = 0
    BY Facts DEF CoilImage, ARRAY_SIZE, Low
  <2>5. on <=> image[0] >= 128
    BY <2>4 DEF Byte
  <2>6. /\ on \in BOOLEAN /\ FALSE \in BOOLEAN
        /\ on <=> /\ pc[s] # "closeCreated" /\ StatusOn(image)
                  /\ req[s].command = Get => req[s].address = COIL_ADDRESS_INVERTER_STATUS
    BY <1>1, <1>2, <2>3, <2>5 DEF StatusOn, Get, GetAll
  <2>7. phase[s] = "effected" /\ outcome[s] = BoundOf(pc[s], req[s], image)
    BY <1>1, <1>2, SessionStands DEF PhaseOf, OutcomeOf
  <2>8. on <=> image[0] # 0
    OBVIOUS
  <2> HIDE DEF on
  <2>9. ReceivedOf(req[s], reply'[s]) = Service!Outcome(0, on, FALSE)
    <3> DEFINE v == image[0]
    <3>1. on \in BOOLEAN /\ (on <=> v # 0) /\ reply'[s] = Success(0, v, BadSignature)
      BY <2>1, <2>6, <2>8
    <3> HIDE DEF v
    <3>2. ReceivedOf(req[s], Success(0, v, BadSignature)) = Service!Outcome(0, on, FALSE)
      BY <3>1, PlainAnswer
    <3> QED
      BY <3>1, <3>2
  <2>10. FALSE <=> req[s].command = Get
    BY <1>2 DEF Get, GetAll
  <2>11. BoundOf(pc[s], req[s], image)
            = Service!Outcome(IF req[s].command = Set THEN 1 ELSE 0, on, FALSE)
    BY <2>6, <2>10, BoundAnswer
  <2>12. outcome[s] = Service!Outcome(0, on, FALSE)
    BY <1>2, <2>7, <2>11 DEF GetAll, Set
  <2> QED
    BY <1>1, <2>2, <2>7, <2>9, <2>12, StatusKept DEF Service!Answer
<1>3. CASE req[s].command = Get
  <2>1. pc'[s] = "sign" /\ allCoilData' = allCoilData /\ reply' = reply
    BY <1>3 DEF CloseObject, Goto, SeqInv, TypeInv, TypeOK, Get
  <2>2. /\ PhaseOf(pc[s], handle[s], req[s]) = "effected"
        /\ PhaseOf(pc'[s], handle'[s], req[s]) = "effected"
    BY <1>1, <1>3, <2>1 DEF PhaseOf
  <2>3. BoundOf(pc[s], req[s], allCoilData[s]) = BoundOf(pc'[s], req[s], allCoilData[s])
    <3> DEFINE on1 == /\ pc[s] # "closeCreated" /\ StatusOn(allCoilData[s])
                      /\ req[s].command = Get =>
                            req[s].address = COIL_ADDRESS_INVERTER_STATUS
               on2 == /\ pc'[s] # "closeCreated" /\ StatusOn(allCoilData[s])
                      /\ req[s].command = Get =>
                            req[s].address = COIL_ADDRESS_INVERTER_STATUS
               attested == req[s].command = Get
               n == IF req[s].command = Set THEN 1 ELSE 0
    <3>1. on1 \in BOOLEAN /\ on2 \in BOOLEAN /\ (on1 <=> on2)
      BY <1>1, <2>1
    <3>2. /\ BoundOf(pc[s], req[s], allCoilData[s]) = [dead |-> FALSE, verified |-> n,
                on |-> on1, attested |-> attested]
          /\ BoundOf(pc'[s], req[s], allCoilData[s]) = [dead |-> FALSE, verified |-> n,
                on |-> on2, attested |-> attested]
      BY Zenon DEF BoundOf
    <3> HIDE DEF on1, on2, attested, n
    <3>3. on1 = on2
      BY <3>1
    <3> QED
      BY <3>2, <3>3
  <2>4. OutcomeOf(pc'[s], handle'[s], req[s], allCoilData'[s], reply'[s])
           = OutcomeOf(pc[s], handle[s], req[s], allCoilData[s], reply[s])
    BY <2>1, <2>2, <2>3 DEF OutcomeOf
  <2> QED
    BY <1>1, <2>1, <2>2, <2>4, Stutters DEF Service!svars
<1>4. CASE req[s].command = Set
  <2>1. pc'[s] = "create"
    BY <1>4 DEF CloseObject, Goto, SeqInv, TypeInv, TypeOK, Set
  <2>2. /\ PhaseOf(pc[s], handle[s], req[s]) = "called"
        /\ PhaseOf(pc'[s], handle'[s], req[s]) = "called"
    BY <1>1, <1>4, <2>1 DEF PhaseOf, Set, Get, GetAll
  <2> QED
    BY <1>1, <2>1, <2>2, StillCalled
<1> QED
  BY <1>1, <1>2, <1>3, <1>4, Facts DEF Place

\* A seed or set that stores its image.
LEMMA StoreMaps ==
    ASSUME SeqInv, NEW s \in Sessions, CreateObject(s), object' = allCoilData[s],
           handle'[s] = "live"
    PROVE  Service!Seed(s) \/ Service!Write(s) \/ Service!WriteAfterFailedRead(s)
<1>1. Step(s) /\ pc[s] = "create" /\ req' = req /\ pc'[s] = "closeCreated"
  BY DEF CreateObject, Step, Goto, SeqInv, TypeInv, TypeOK
<1>2. phase[s] = "called"
  BY <1>1, SessionStands DEF PhaseOf
<1>3. Service!Settle(s, "effected", BoundOf(pc'[s], req[s], allCoilData'[s]))
  BY <1>1, Settled DEF PhaseOf, OutcomeOf
<1>4. req[s].command \in {"TA_SEED_COIL", Set}
  BY <1>1, Facts DEF Place
<1>5. BoundOf(pc'[s], req[s], allCoilData'[s])
         = Service!Outcome(IF req[s].command = Set THEN 1 ELSE 0, FALSE, FALSE)
  <2>1. /\ FALSE \in BOOLEAN /\ (FALSE <=> req[s].command = Get)
        /\ FALSE <=> /\ pc'[s] # "closeCreated" /\ StatusOn(allCoilData'[s])
                     /\ req[s].command = Get =>
                           req[s].address = COIL_ADDRESS_INVERTER_STATUS
    BY <1>1, <1>4 DEF Get, Set
  <2> QED
    BY <2>1, BoundAnswer
<1>6. allCoilData[s] # NoObject
  BY Facts, StoredIsNotNothing
<1>7. status' = IF allCoilData[s][0] >= 128 THEN "on" ELSE "off"
  BY <1>1, <1>6 DEF status, StatusOn, NoObject
<1>8. CASE req[s].command = "TA_SEED_COIL"
  <2>1. allCoilData[s] = coilData
    BY <1>1, <1>8, Facts DEF ImageAt, Set
  <2>2. status' = "off"
    BY <1>7, <2>1 DEF coilData, ARRAY_SIZE
  <2>3. Service!Settle(s, "effected", Service!NoOutcome)
    BY <1>3, <1>5, <1>8 DEF Service!NoOutcome, Set
  <2> QED
    BY <1>1, <1>2, <1>8, <2>2, <2>3, OpFieldsOf, KindOfCommand DEF Service!Seed
<1>9. CASE req[s].command = Set
  <2>1. object # NoObject
    BY <1>1, <1>9, Facts DEF ImageAt, Set
  <2>2. PICK image \in CoilImage :
           /\ MayHaveRead(image)
           /\ allCoilData[s] = ta_updateCoilData(bitNumber(req[s]), req[s].value, image)
    BY <1>1, <1>9, Facts DEF ImageAt, Set
  <2>3. /\ ~op[s].mapped => allCoilData[s] = image
        /\ op[s].mapped => (allCoilData[s][0] >= 128 <=> op[s].on)
    BY <1>1, <2>2, Facts, OpFieldsOf, UpdatedImage DEF bitNumber
  <2>4. Service!Settle(s, "effected", Service!Outcome(1, FALSE, FALSE))
    BY <1>3, <1>5, <1>9
  <2>5. op[s].kind = "write" /\ op[s].authentic
    BY <1>1, <1>9, Facts, OpFieldsOf, KindOfCommand
  <2>6. CASE image = object
    <3>1. status = IF object[0] >= 128 THEN "on" ELSE "off"
      BY <2>1 DEF status, StatusOn
    <3>2. status' = IF ~op[s].mapped THEN status ELSE IF op[s].on THEN "on" ELSE "off"
      BY <1>7, <2>3, <2>6, <3>1
    <3> QED
      BY <1>2, <2>4, <2>5, <3>1, <3>2 DEF Service!Write
  <2>7. CASE StorageFaults /\ image = coilData
    <3>1. ~(image[0] >= 128)
      BY <2>7 DEF coilData, ARRAY_SIZE
    <3>2. status' = IF op[s].mapped /\ op[s].on THEN "on" ELSE "off"
      BY <1>7, <2>3, <3>1
    <3>3. status # "absent"
      BY <2>1 DEF status
    <3> QED
      BY <1>2, <2>4, <2>5, <2>7, <3>2, <3>3 DEF Service!WriteAfterFailedRead
  <2> QED
    BY <2>2, <2>6, <2>7 DEF MayHaveRead
<1> QED
  BY <1>4, <1>8, <1>9

LEMMA CreateMaps ==
    ASSUME SeqInv, NEW s \in Sessions, CreateObject(s)
    PROVE  \/ Service!Seed(s) \/ Service!Write(s) \/ Service!WriteAfterFailedRead(s)
           \/ UNCHANGED Service!svars
<1>1. /\ Step(s) /\ pc[s] = "create" /\ req' = req /\ pc'[s] = "closeCreated"
      /\ \/ object' = allCoilData[s] /\ handle'[s] = "live"
         \/ object' = object /\ handle'[s] = "garbage"
  BY DEF CreateObject, Step, Goto, SeqInv, TypeInv, TypeOK
<1>2. CASE object' = object /\ handle'[s] = "garbage"
  <2>1. /\ PhaseOf(pc[s], handle[s], req[s]) = "called"
        /\ PhaseOf(pc'[s], handle'[s], req[s]) = "called"
    BY <1>1, <1>2 DEF PhaseOf
  <2> QED
    BY <1>1, <1>2, <2>1, StillCalled
<1> QED
  BY <1>1, <1>2, StoreMaps

LEMMA CreatedMaps ==
    ASSUME SeqInv, NEW s \in Sessions, CloseCreated(s)
    PROVE  Service!Answer(s) \/ Service!CreateFails(s)
<1> DEFINE n == IF req[s].command = Set THEN 1 ELSE 0
<1>1. /\ Step(s) /\ pc[s] = "closeCreated" /\ req' = req /\ object' = object
      /\ pc'[s] = "done"
  BY DEF CloseCreated, Step, Goto, Return, SeqInv, TypeInv, TypeOK
<1>2. req[s].command \in {"TA_SEED_COIL", Set}
  BY <1>1, Facts DEF Place
<1>3. reply'[s] = Success(n, 0, BadSignature)
  BY <1>2 DEF CloseCreated, Return, SeqInv, TypeInv, TypeOK, Set
<1>4. Service!Settle(s, "answered", ReceivedOf(req[s], reply'[s]))
  BY <1>1, AnswerSettled
<1>5. Service!Settle(s, "answered", Service!Outcome(n, FALSE, FALSE))
  <2>1. ReceivedOf(req[s], Success(n, 0, BadSignature)) = Service!Outcome(n, FALSE, FALSE)
    BY PlainAnswer
  <2> QED
    BY <1>3, <1>4, <2>1
<1>6. CASE handle[s] = "live"
  <2>1. phase[s] = "effected" /\ outcome[s] = BoundOf(pc[s], req[s], allCoilData[s])
    BY <1>1, <1>6, SessionStands DEF PhaseOf, OutcomeOf
  <2>2. BoundOf(pc[s], req[s], allCoilData[s]) = Service!Outcome(n, FALSE, FALSE)
    <3>1. /\ FALSE \in BOOLEAN /\ (FALSE <=> req[s].command = Get)
          /\ FALSE <=> /\ pc[s] # "closeCreated" /\ StatusOn(allCoilData[s])
                       /\ req[s].command = Get =>
                             req[s].address = COIL_ADDRESS_INVERTER_STATUS
      BY <1>1, <1>2 DEF Get, Set
    <3> QED
      BY <3>1, BoundAnswer
  <2> QED
    BY <1>1, <1>5, <2>1, <2>2, StatusKept DEF Service!Answer
<1>7. CASE handle[s] # "live"
  <2>1. StorageFaults /\ (req[s].command = Set => status # "absent")
    BY <1>1, <1>7, Facts DEF ImageAt, status
  <2>2. phase[s] = "called"
    BY <1>1, <1>7, SessionStands DEF PhaseOf
  <2>3. /\ req[s].command = "TA_SEED_COIL" => op[s].kind = "seed"
        /\ req[s].command = Set => op[s].kind = "write" /\ op[s].authentic
    BY <1>1, Facts, OpFieldsOf, KindOfCommand
  <2>4. CASE req[s].command = "TA_SEED_COIL"
    <3>1. Service!Settle(s, "answered", Service!NoOutcome)
      BY <1>5, <2>4 DEF Service!NoOutcome, Set
    <3> QED
      BY <1>1, <2>1, <2>2, <2>3, <2>4, <3>1, StatusKept DEF Service!CreateFails
  <2>5. CASE req[s].command = Set
    BY <1>1, <1>5, <2>1, <2>2, <2>3, <2>5, StatusKept DEF Service!CreateFails
  <2> QED
    BY <1>2, <2>4, <2>5
<1> QED
  BY <1>6, <1>7

LEMMA CollectMaps ==
    ASSUME SeqInv, NEW s \in Sessions, CloseSession(s)
    PROVE  Service!Collect(s)
<1>1. Step(s) /\ pc[s] = "done" /\ pc'[s] = "idle" /\ object' = object
  BY DEF CloseSession, Step, Goto, SeqInv, TypeInv, TypeOK
<1>2. Moves(s)
  BY <1>1, OthersKeep DEF Moves
<1>3. phase[s] = "answered"
  BY <1>1, SessionStands DEF PhaseOf
<1>4. /\ phase' = [phase EXCEPT ![s] = PhaseOf("idle", handle'[s], req'[s])]
      /\ op' = [op EXCEPT ![s] = OpOf("idle", req'[s])]
      /\ outcome' = [outcome EXCEPT ![s] =
            OutcomeOf("idle", handle'[s], req'[s], allCoilData'[s], reply'[s])]
  BY <1>1, <1>2, SessionMoves
<1>5. /\ PhaseOf("idle", handle'[s], req'[s]) = "idle" /\ OpOf("idle", req'[s]) = Service!NoOp
      /\ OutcomeOf("idle", handle'[s], req'[s], allCoilData'[s], reply'[s]) = Service!NoOutcome
  BY DEF PhaseOf, OpOf, OutcomeOf
<1> QED
  BY <1>1, <1>3, <1>4, <1>5, StatusKept DEF Service!Collect

LEMMA CallMaps ==
    ASSUME SeqInv, NEW s \in Sessions, TA_InvokeCommandEntryPoint(s)
    PROVE  Service!Call(s)
<1>1. /\ pc[s] = "idle" /\ pc'[s] \in {"verify", "open", "create", "sign"}
      /\ pc'[s] = "sign" => req'[s].command = "TA_SIGN_COIL_DATA"
      /\ req'[s].command \in CommandsOf[s]
      /\ \A t \in Sessions \ {s} : pc'[t] = pc[t] /\ req'[t] = req[t]
      /\ UNCHANGED <<object, allCoilData, handle, reply>>
  BY EntryPlace DEF SeqInv, TypeInv
<1>2. Moves(s)
  BY <1>1 DEF Moves
<1>3. PhaseOf(pc[s], handle[s], req[s]) = "idle" /\ PhaseOf(pc'[s], handle'[s], req'[s]) = "called"
  BY <1>1 DEF PhaseOf, Get, GetAll
<1>4. /\ OutcomeOf(pc[s], handle[s], req[s], allCoilData[s], reply[s]) = Service!NoOutcome
      /\ OutcomeOf(pc'[s], handle'[s], req'[s], allCoilData'[s], reply'[s]) = Service!NoOutcome
  BY <1>3 DEF OutcomeOf
<1>5. /\ phase[s] = "idle" /\ outcome[s] = Service!NoOutcome
      /\ outcome = [t \in Sessions |-> outcome[t]]
  BY <1>3, <1>4, Mapping DEF Mapped
<1>6. /\ phase' = [phase EXCEPT ![s] = "called"]
      /\ outcome' = [outcome EXCEPT ![s] = Service!NoOutcome]
      /\ op' = [op EXCEPT ![s] = OpOf(pc'[s], req'[s])]
  BY <1>2, <1>3, <1>4, SessionMoves
<1>7. outcome' = outcome
  BY <1>5, <1>6
<1>8. OpOf(pc'[s], req'[s]) \in Service!Ops
  <2> DEFINE mapped == req'[s].address = COIL_ADDRESS_INVERTER_STATUS
             on == req'[s].value # 0
             authentic == req'[s].signature = data(req'[s])
             kind == KindOf[req'[s].command]
  <2>1. mapped \in BOOLEAN /\ on \in BOOLEAN /\ authentic \in BOOLEAN
    OBVIOUS
  <2>2. req'[s].command \in Commands
    BY <1>1, CoilTAAssumption
  <2>3. kind \in Service!Kinds
    BY <2>2, KindOfCommand DEF Service!Kinds, Commands, StorageCommands, GetAll, Get, Set
  <2>4. OpOf(pc'[s], req'[s])
           = [kind |-> kind, mapped |-> mapped, on |-> on, authentic |-> authentic]
    <3>1. pc'[s] # "idle"
      BY <1>1
    <3> QED
      BY <3>1, Zenon DEF OpOf
  <2> HIDE DEF mapped, on, authentic, kind
  <2> QED
    BY <2>1, <2>3, <2>4 DEF Service!Ops
<1> QED
  BY <1>1, <1>5, <1>6, <1>7, <1>8, StatusKept DEF Service!Call

LEMMA RestartMaps ==
    ASSUME Restart
    PROVE  Service!Restart
<1>1. \A s \in Sessions : pc'[s] = "idle"
  BY DEF Restart
<1>2. \A s \in Sessions :
         /\ PhaseOf(pc'[s], handle'[s], req'[s]) = "idle" /\ OpOf(pc'[s], req'[s]) = Service!NoOp
         /\ OutcomeOf(pc'[s], handle'[s], req'[s], allCoilData'[s], reply'[s]) = Service!NoOutcome
  BY <1>1 DEF PhaseOf, OpOf, OutcomeOf
<1> QED
  BY <1>2, MappingNext, StatusKept DEF Mapped, Restart, Service!Restart

LEMMA InitMaps ==
    ASSUME Init
    PROVE  Service!Init
<1>1. \A s \in Sessions :
         /\ PhaseOf(pc[s], handle[s], req[s]) = "idle" /\ OpOf(pc[s], req[s]) = Service!NoOp
         /\ OutcomeOf(pc[s], handle[s], req[s], allCoilData[s], reply[s]) = Service!NoOutcome
  BY DEF Init, PhaseOf, OpOf, OutcomeOf
<1>2. status = "absent"
  BY DEF Init, status
<1> QED
  BY <1>1, <1>2, Mapping DEF Mapped, Service!Init

LEMMA StandsStill ==
    ASSUME UNCHANGED vars
    PROVE  UNCHANGED Service!svars
<1>1. phase' = phase /\ op' = op /\ outcome' = outcome
  BY Mapping, MappingNext DEF Mapped, vars
<1> QED
  BY <1>1, StatusKept DEF vars, Service!svars

\* Every behaviour of the commands (TA_InvokeCommandEntryPoint and the storage
\* and signature calls of its handlers) is one of the atomic service, for any
\* number of sessions of which one uses the stored object, whether or not its
\* opens, reads and creates may fail by themselves.
THEOREM Implements == Spec => ServiceSpec
<1>1. Init => Service!Init
  BY InitMaps
<1>2. SeqInv /\ [Next]_vars => [Service!Next]_(Service!svars)
  <2> SUFFICES ASSUME SeqInv, [Next]_vars PROVE Service!Next \/ UNCHANGED Service!svars
    OBVIOUS
  <2>1. ASSUME NEW s \in Sessions, TA_InvokeCommandEntryPoint(s)
        PROVE  Service!Next
    BY <2>1, CallMaps DEF Service!Next
  <2>2. ASSUME NEW s \in Sessions, Step(s)
        PROVE  Service!Next \/ UNCHANGED Service!svars
    BY <2>2, VerifyMaps, SignMaps, PanicMaps, OpenMaps, ReadMaps, CloseMaps, CreateMaps,
       CreatedMaps, CollectMaps DEF Step, Service!Next
  <2>3. CASE Restart
    BY <2>3, RestartMaps DEF Service!Next
  <2>4. CASE UNCHANGED vars
    BY <2>4, StandsStill
  <2> QED
    BY <2>1, <2>2, <2>3, <2>4 DEF Next
<1> QED
  BY <1>1, <1>2, SequentialInvariant, PTL DEF Spec, ServiceSpec, Service!Spec

=============================================================================
