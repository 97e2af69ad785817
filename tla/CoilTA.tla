------------------------------- MODULE CoilTA -------------------------------
(***************************************************************************)
(* The trusted application: what each command of TA_InvokeCommandEntryPoint*)
(* does, one step per TEE API call, for sessions that run at the same time.*)
(*                                                                         *)
(* A session is a TA instance of its own (TA_FLAG_MULTI_SESSION without    *)
(* TA_FLAG_SINGLE_INSTANCE), so its locals are private and only the        *)
(* persistent object "coil" is shared.  The object is opened with          *)
(* TEE_DATA_FLAG_ACCESS_READ and created with TEE_DATA_FLAG_ACCESS_WRITE,  *)
(* both without a SHARE flag: while one handle on it is live every other   *)
(* open or create fails with TEE_ERROR_ACCESS_CONFLICT.  The code ignores  *)
(* that result and goes on with the handle variable it never assigned.     *)
(*                                                                         *)
(* A signature is represented by the bytes it signs, a byte string that    *)
(* signs nothing by <<>>.  The RSA operation is one step here: it gives a  *)
(* verdict or a signature, or the instance panics.                         *)
(***************************************************************************)
EXTENDS CoilBits

CONSTANTS
    Sessions,       \* sessions of the normal world's programs
    CommandsOf,     \* CommandsOf[s]: the commands the program of s sends
    Addresses,      \* coil addresses the programs ask for
    CoilValues,     \* coil values they ask to write, sign or verify
    TransactionIds, \* Modbus transaction ids
    StorageFaults   \* whether an open, read or create may fail by itself

StorageCommands == {"TA_SEED_COIL", "TA_GET_ALL_COIL_DATA",
                    "TA_GET_DATA_BY_COIL_ADDRESS", "TA_SET_DATA_BY_COIL_ADDRESS"}
Commands == StorageCommands \cup {"TA_VERIFY_COIL_DATA", "TA_SIGN_COIL_DATA"}

ASSUME CoilTAAssumption ==
    /\ CommandsOf \in [Sessions -> SUBSET Commands]
    /\ Addresses \subseteq Nat
    /\ CoilValues \subseteq Byte
    /\ TransactionIds \subseteq Nat
    /\ StorageFaults \in BOOLEAN

VARIABLES
    object,      \* the persistent object "coil"
    pc,          \* pc[s]: the TEE API call session s is about to make
    req,         \* req[s]: the command and its parameters
    allCoilData, \* allCoilData[s]: the image the handler works on
    handle,      \* handle[s]: its objectHandle: none, live, or garbage
    reply,       \* reply[s]: what the caller gets back
    asked,       \* history: the bytes programs asked the TA to sign
    issued       \* history: the bytes the TA has signed

vars == <<object, pc, req, allCoilData, handle, reply, asked, issued>>

(***************************************************************************)
(* Parameters and results                                                  *)
(***************************************************************************)
NoObject     == [i \in {} |-> 0]
BadSignature == <<>>
Signature    == SignedBytes \cup {BadSignature}

Request == [command : Commands, address : Nat, value : Byte,
            transactionId : Nat, signature : Signature]

\* The bytes that are signed and verified, params[1].  The trusted application
\* takes them and the value to store, params[0], as they come and compares them
\* nowhere: they agree because every caller is the host library, which lays out
\* the bytes from the same value.
data(r) == SignedData(r.value, r.transactionId)
bitNumber(r) == ta_getBitNumberForCoil(r.address)

Reply == [res : {"TEE_SUCCESS", "TEE_ERROR_TARGET_DEAD"},
          verified : {-1, 0, 1}, value : Byte, signature : Signature]
Success(verified, value, signature) ==
    [res |-> "TEE_SUCCESS", verified |-> verified, value |-> value,
     signature |-> signature]
\* A panic delivers none of the parameters: the caller's own zeros stay.
TargetDead == [res |-> "TEE_ERROR_TARGET_DEAD", verified |-> 0, value |-> 0,
               signature |-> BadSignature]

NoRequest == [command |-> "TA_SEED_COIL", address |-> 0, value |-> 0,
              transactionId |-> 0, signature |-> BadSignature]
NoReply   == Success(0, 0, BadSignature)

PCs == {"idle", "verify", "open", "read", "close", "create", "closeCreated",
        "sign", "done"}

TypeOK ==
    /\ object \in CoilImage \cup {NoObject}
    /\ pc \in [Sessions -> PCs]
    /\ req \in [Sessions -> Request]
    /\ allCoilData \in [Sessions -> CoilImage]
    /\ handle \in [Sessions -> {"none", "live", "garbage"}]
    /\ reply \in [Sessions -> Reply]
    /\ asked \subseteq SignedBytes
    /\ issued \subseteq SignedBytes

\* A device before its first reseed: no object, nothing signed.
Init ==
    /\ object = NoObject
    /\ pc = [s \in Sessions |-> "idle"]
    /\ req = [s \in Sessions |-> NoRequest]
    /\ allCoilData = [s \in Sessions |-> coilData]
    /\ handle = [s \in Sessions |-> "none"]
    /\ reply = [s \in Sessions |-> NoReply]
    /\ asked = {}
    /\ issued = {}

(***************************************************************************)
(* TA_InvokeCommandEntryPoint: a command arrives with its parameters.  The *)
(* handler's allCoilData starts as zeros; ta_seedCoil passes coilData.     *)
(***************************************************************************)
Enter(s, r, first) ==
    /\ pc[s] = "idle"
    /\ r.command \in CommandsOf[s]
    /\ pc' = [pc EXCEPT ![s] = first]
    /\ req' = [req EXCEPT ![s] = r]
    /\ UNCHANGED <<object, allCoilData, handle, reply, issued>>

Args(command, address, value, transactionId, signature) ==
    [command |-> command, address |-> address, value |-> value,
     transactionId |-> transactionId, signature |-> signature]

ta_seedCoil(s) ==
    /\ Enter(s, Args("TA_SEED_COIL", 0, 0, 0, BadSignature), "create")
    /\ UNCHANGED asked

ta_getAllCoilData(s) ==
    /\ Enter(s, Args("TA_GET_ALL_COIL_DATA", 0, 0, 0, BadSignature), "open")
    /\ UNCHANGED asked

ta_getDataByCoilAddress(s) ==
    /\ \E a \in Addresses, t \in TransactionIds :
          Enter(s, Args("TA_GET_DATA_BY_COIL_ADDRESS", a, 0, t, BadSignature),
                "open")
    /\ UNCHANGED asked

\* The signature that comes with a set or a verify is one the TA has made,
\* or bytes that sign nothing.
ta_setDataByCoilAddress(s) ==
    /\ \E a \in Addresses, v \in CoilValues, t \in TransactionIds,
          g \in issued \cup {BadSignature} :
          Enter(s, Args("TA_SET_DATA_BY_COIL_ADDRESS", a, v, t, g), "verify")
    /\ UNCHANGED asked

ta_verifyCoilDAta(s) ==
    /\ \E v \in CoilValues, t \in TransactionIds,
          g \in issued \cup {BadSignature} :
          Enter(s, Args("TA_VERIFY_COIL_DATA", 0, v, t, g), "verify")
    /\ UNCHANGED asked

ta_signCoilData(s) ==
    \E v \in CoilValues, t \in TransactionIds :
        /\ Enter(s, Args("TA_SIGN_COIL_DATA", 0, v, t, BadSignature), "sign")
        /\ asked' = asked \cup {SignedData(v, t)}

(***************************************************************************)
(* The TEE API calls of the handlers                                       *)
(***************************************************************************)
Goto(s, next) == pc' = [pc EXCEPT ![s] = next]

Return(s, r) ==
    /\ Goto(s, "done")
    /\ reply' = [reply EXCEPT ![s] = r]

\* The instance is destroyed, and with it the handle it held.
Panic(s) ==
    /\ Return(s, TargetDead)
    /\ handle' = [handle EXCEPT ![s] = "none"]
    /\ UNCHANGED <<object, req, allCoilData, asked, issued>>

Free == \A s \in Sessions : handle[s] # "live"

\* Mutant of Verify: the early return on a verdict of -1 is missing.
VerifyGoesOn(s) ==
    /\ pc[s] = "verify"
    /\ LET verified == IF req[s].signature = data(req[s]) THEN 1 ELSE -1
       IN  \/ /\ req[s].command = "TA_SET_DATA_BY_COIL_ADDRESS"
              /\ Goto(s, "open")
              /\ UNCHANGED reply
           \/ /\ req[s].command = "TA_VERIFY_COIL_DATA"
              /\ Return(s, Success(verified, 0, BadSignature))
    /\ UNCHANGED <<object, req, allCoilData, handle, asked, issued>>

\* ta_verify: an unverified set returns at once.
Verify(s) ==
    /\ pc[s] = "verify"
    /\ LET verified == IF req[s].signature = data(req[s]) THEN 1 ELSE -1
       IN  \/ /\ req[s].command = "TA_SET_DATA_BY_COIL_ADDRESS"
              /\ verified = 1
              /\ Goto(s, "open")
              /\ UNCHANGED reply
           \/ /\ req[s].command = "TA_VERIFY_COIL_DATA" \/ verified = -1
              /\ Return(s, Success(verified, 0, BadSignature))
    /\ UNCHANGED <<object, req, allCoilData, handle, asked, issued>>

\* ta_sign: over the caller's bytes, or over the coil value just read.
Sign(s) ==
    /\ pc[s] = "sign"
    /\ LET value  == ta_getCoilValue(bitNumber(req[s]), allCoilData[s])
           signed == IF req[s].command = "TA_SIGN_COIL_DATA"
                     THEN data(req[s])
                     ELSE SignedData(value, req[s].transactionId)
       IN  /\ issued' = issued \cup {signed}
           /\ Return(s, Success(0,
                  IF req[s].command = "TA_SIGN_COIL_DATA" THEN 0 ELSE value,
                  signed))
    /\ UNCHANGED <<object, req, allCoilData, handle, asked>>

\* An allocation that fails on the way to the RSA operation is a panic: the
\* next call gets a null or a digest operation handle.
CryptoPanics(s) ==
    /\ pc[s] \in {"verify", "sign"}
    /\ Panic(s)

\* Mutant of OpenObject: it is retried until it succeeds.
OpenObjectRetries(s) ==
    /\ pc[s] = "open"
    /\ object # NoObject
    /\ Free
    /\ handle' = [handle EXCEPT ![s] = "live"]
    /\ Goto(s, "read")
    /\ UNCHANGED <<object, req, allCoilData, reply, asked, issued>>

OpenObject(s) ==
    /\ pc[s] = "open"
    /\ \/ /\ object # NoObject
          /\ Free
          /\ handle' = [handle EXCEPT ![s] = "live"]
       \/ /\ object = NoObject \/ ~Free \/ StorageFaults
          /\ handle' = [handle EXCEPT ![s] = "garbage"]
    /\ Goto(s, "read")
    /\ UNCHANGED <<object, req, allCoilData, reply, asked, issued>>

\* An error other than a bad handle leaves the buffer as it was.
ReadObject(s) ==
    /\ pc[s] = "read"
    /\ handle[s] = "live"
    /\ \/ allCoilData' = [allCoilData EXCEPT ![s] = object]
       \/ StorageFaults /\ UNCHANGED allCoilData
    /\ Goto(s, "close")
    /\ UNCHANGED <<object, req, handle, reply, asked, issued>>

ReadPanics(s) ==
    /\ pc[s] = "read"
    /\ handle[s] = "garbage"
    /\ Panic(s)

\* Mutant of CloseObject: a get does not close the object.
CloseObjectForgotten(s) ==
    /\ pc[s] = "close"
    /\ \/ /\ req[s].command # "TA_SET_DATA_BY_COIL_ADDRESS"
          /\ Goto(s, "sign")
          /\ UNCHANGED <<allCoilData, handle>>
       \/ /\ req[s].command = "TA_SET_DATA_BY_COIL_ADDRESS"
          /\ handle' = [handle EXCEPT ![s] = "none"]
          /\ allCoilData' = [allCoilData EXCEPT ![s] =
                ta_updateCoilData(bitNumber(req[s]), req[s].value, @)]
          /\ Goto(s, "create")
    /\ UNCHANGED <<object, req, reply, asked, issued>>

\* TEE_CloseObject after the read, and the handler's work on the image.
CloseObject(s) ==
    /\ pc[s] = "close"
    /\ handle' = [handle EXCEPT ![s] = "none"]
    /\ \/ /\ req[s].command = "TA_GET_ALL_COIL_DATA"
          /\ Return(s, Success(0, allCoilData[s][0], BadSignature))
          /\ UNCHANGED allCoilData
       \/ /\ req[s].command = "TA_GET_DATA_BY_COIL_ADDRESS"
          /\ Goto(s, "sign")
          /\ UNCHANGED <<allCoilData, reply>>
       \/ /\ req[s].command = "TA_SET_DATA_BY_COIL_ADDRESS"
          /\ allCoilData' = [allCoilData EXCEPT ![s] =
                ta_updateCoilData(bitNumber(req[s]), req[s].value, @)]
          /\ Goto(s, "create")
          /\ UNCHANGED reply
    /\ UNCHANGED <<object, req, asked, issued>>

\* Mutant of CreateObject: the object is opened and created with SHARE flags.
CreateObjectShared(s) ==
    /\ pc[s] = "create"
    /\ object' = allCoilData[s]
    /\ handle' = [handle EXCEPT ![s] = "live"]
    /\ Goto(s, "closeCreated")
    /\ UNCHANGED <<req, allCoilData, reply, asked, issued>>

\* TEE_CreatePersistentObject with TEE_DATA_FLAG_OVERWRITE.
CreateObject(s) ==
    /\ pc[s] = "create"
    /\ \/ /\ Free
          /\ object' = allCoilData[s]
          /\ handle' = [handle EXCEPT ![s] = "live"]
       \/ /\ ~Free \/ StorageFaults
          /\ handle' = [handle EXCEPT ![s] = "garbage"]
          /\ UNCHANGED object
    /\ Goto(s, "closeCreated")
    /\ UNCHANGED <<req, allCoilData, reply, asked, issued>>

\* Closing a handle that was never assigned: a null one is accepted and the
\* handler reports success.
CloseCreated(s) ==
    /\ pc[s] = "closeCreated"
    /\ handle' = [handle EXCEPT ![s] = "none"]
    /\ Return(s, Success(IF req[s].command = "TA_SEED_COIL" THEN 0 ELSE 1,
                         0, BadSignature))
    /\ UNCHANGED <<object, req, allCoilData, asked, issued>>

CloseCreatedPanics(s) ==
    /\ pc[s] = "closeCreated"
    /\ handle[s] = "garbage"
    /\ Panic(s)

\* The caller takes the results and closes the session; its next session is
\* a new instance, without the handles of this one.
CloseSession(s) ==
    /\ pc[s] = "done"
    /\ Goto(s, "idle")
    /\ handle' = [handle EXCEPT ![s] = "none"]
    /\ req' = [req EXCEPT ![s] = NoRequest]
    /\ allCoilData' = [allCoilData EXCEPT ![s] = coilData]
    /\ reply' = [reply EXCEPT ![s] = NoReply]
    /\ UNCHANGED <<object, asked, issued>>

\* The device restarts: every instance is gone, the object stays.
Restart ==
    /\ pc' = [s \in Sessions |-> "idle"]
    /\ req' = [s \in Sessions |-> NoRequest]
    /\ allCoilData' = [s \in Sessions |-> coilData]
    /\ handle' = [s \in Sessions |-> "none"]
    /\ reply' = [s \in Sessions |-> NoReply]
    /\ UNCHANGED <<object, asked, issued>>

TA_InvokeCommandEntryPoint(s) ==
    \/ ta_seedCoil(s) \/ ta_getAllCoilData(s) \/ ta_getDataByCoilAddress(s)
    \/ ta_setDataByCoilAddress(s) \/ ta_verifyCoilDAta(s) \/ ta_signCoilData(s)

Step(s) ==
    \/ Verify(s) \/ Sign(s) \/ CryptoPanics(s)
    \/ OpenObject(s) \/ ReadObject(s) \/ ReadPanics(s) \/ CloseObject(s)
    \/ CreateObject(s) \/ CloseCreated(s) \/ CloseCreatedPanics(s)
    \/ CloseSession(s)

Next ==
    \/ \E s \in Sessions : TA_InvokeCommandEntryPoint(s) \/ Step(s)
    \/ Restart

Spec == Init /\ [][Next]_vars

\* OP-TEE runs every instance that is not waiting, and no call here waits;
\* nothing makes a program send a command.
FairSpec == Spec /\ \A s \in Sessions : WF_vars(Step(s))

(***************************************************************************)
(* Properties                                                              *)
(***************************************************************************)
\* The inverter status bit is bit number 0: the top bit of byte 0.
StatusOn(image) == image # NoObject /\ image[0] >= 128

\* Some program asked the TA to sign a coil value other than 0.
AskedOn == \E d \in asked : d[1] # 0

\* The stored inverter status is on only if some program once asked the TA to
\* sign an "on": no race between sessions, conflict on the object, restart,
\* failed read, rejected signature or signed read reply turns it on.
OnOnlyIfAsked == StatusOn(object) => AskedOn

\* What a session read or wrote is still what is stored until it closes its
\* handle: no other session writes under an open handle.  Only a read that
\* failed by itself leaves something else, the zeros the handler began with.
HeldImageIsCurrent ==
    \A s \in Sessions :
        handle[s] = "live" /\ pc[s] \in {"close", "closeCreated"}
            => \/ allCoilData[s] = object
               \/ StorageFaults /\ pc[s] = "close" /\ allCoilData[s] = coilData

\* A session holds the object only between an open or create and the close
\* after it, never while it signs, works on the image or answers: a second
\* handle is refused and not queued, so a handle kept longer would make other
\* sessions' commands fail.
ObjectIsReleased ==
    \A s \in Sessions :
        handle[s] = "live" => pc[s] \in {"read", "close", "closeCreated"}

\* The stored image changes only when a seed writes the initial one, or a set
\* whose value and transaction id the TA has signed writes back its image; at
\* the status address the status becomes what was signed.  What was verified
\* is still what is written after the open, the read and the close between.
OnlySignedWrites ==
    [][object' # object =>
           \E s \in Sessions :
              /\ pc[s] = "create"
              /\ \/ req[s].command = "TA_SEED_COIL" /\ object' = coilData
                 \/ /\ req[s].command = "TA_SET_DATA_BY_COIL_ADDRESS"
                    /\ data(req[s]) \in issued
                    /\ req[s].address = COIL_ADDRESS_INVERTER_STATUS =>
                          (StatusOn(object') <=> req[s].value # 0)]_vars

\* Every command comes back to its caller, with an answer or as a dead target:
\* a conflict on the object never blocks a session.
CallsReturn == \A s \in Sessions : pc[s] # "idle" ~> pc[s] = "idle"

=============================================================================
