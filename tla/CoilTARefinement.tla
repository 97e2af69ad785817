-------------------------- MODULE CoilTARefinement --------------------------
(***************************************************************************)
(* The trusted application implements SignedCoil when at most one session  *)
(* uses the stored object, storage that fails included.                    *)
(*                                                                         *)
(* A seed or a set takes effect when TEE_CreatePersistentObject stores the *)
(* object, a get when TEE_ReadObjectData returns.                          *)
(***************************************************************************)
EXTENDS CoilTA

ASSUME OneStorageUser ==
    \A s, t \in Sessions :
        /\ CommandsOf[s] \cap StorageCommands # {}
        /\ CommandsOf[t] \cap StorageCommands # {}
        => s = t

KindOf == [TA_SEED_COIL |-> "seed", TA_GET_ALL_COIL_DATA |-> "readAll",
           TA_GET_DATA_BY_COIL_ADDRESS |-> "read",
           TA_SET_DATA_BY_COIL_ADDRESS |-> "write",
           TA_VERIFY_COIL_DATA |-> "verify", TA_SIGN_COIL_DATA |-> "sign"]

status == IF object = NoObject THEN "absent"
          ELSE IF StatusOn(object) THEN "on" ELSE "off"

phase == [s \in Sessions |->
    IF pc[s] = "idle" THEN "idle"
    ELSE IF pc[s] = "done" THEN "answered"
    ELSE IF \/ pc[s] = "closeCreated" /\ handle[s] = "live"
            \/ /\ pc[s] \in {"close", "sign"}
               /\ req[s].command \in {"TA_GET_DATA_BY_COIL_ADDRESS",
                                      "TA_GET_ALL_COIL_DATA"}
    THEN "effected"
    ELSE "called"]

op == [s \in Sessions |->
    IF pc[s] = "idle"
    THEN [kind |-> "none", mapped |-> FALSE, on |-> FALSE, authentic |-> FALSE]
    ELSE [kind |-> KindOf[req[s].command],
          mapped |-> req[s].address = COIL_ADDRESS_INVERTER_STATUS,
          on |-> req[s].value # 0,
          authentic |-> req[s].signature = data(req[s])]]

\* The answer a call that took effect is bound to give.
Bound(s) ==
    [dead |-> FALSE,
     verified |-> IF req[s].command = "TA_SET_DATA_BY_COIL_ADDRESS"
                  THEN 1 ELSE 0,
     on |-> /\ pc[s] # "closeCreated"
            /\ StatusOn(allCoilData[s])
            /\ req[s].command = "TA_GET_DATA_BY_COIL_ADDRESS" =>
                  req[s].address = COIL_ADDRESS_INVERTER_STATUS,
     attested |-> req[s].command = "TA_GET_DATA_BY_COIL_ADDRESS"]

\* The answer the caller received.
Received(s) ==
    [dead |-> reply[s].res = "TEE_ERROR_TARGET_DEAD",
     verified |-> reply[s].verified,
     on |-> reply[s].value # 0,
     attested |-> reply[s].signature =
         SignedData(IF req[s].command = "TA_SIGN_COIL_DATA"
                    THEN req[s].value ELSE reply[s].value,
                    req[s].transactionId)]

outcome == [s \in Sessions |->
    IF phase[s] = "effected" THEN Bound(s)
    ELSE IF phase[s] = "answered" THEN Received(s)
    ELSE [dead |-> FALSE, verified |-> 0, on |-> FALSE, attested |-> FALSE]]

Service == INSTANCE SignedCoil

\* Every command of the trusted application is one atomic step on a
\* persistent status bit: a verified set is never half done, and lost only
\* when its own create failed; a refused one never acts; a read is attested
\* with the value it read, or with "off" when its own read failed.
ServiceSpec == Service!Spec

=============================================================================
