------------------------------ MODULE MCCoilTA ------------------------------
(***************************************************************************)
(* An instance of CoilTA for TLC: the Modbus server reads and writes the   *)
(* coil, the Modbus client signs, and nothing keeps reseed from running    *)
(* beside them.                                                            *)
(***************************************************************************)
EXTENDS CoilTA, TLC

ReseedSessions == {"server", "client", "reseed"}
ReseedCommands ==
    "server" :> {"TA_GET_DATA_BY_COIL_ADDRESS", "TA_SET_DATA_BY_COIL_ADDRESS"}
    @@ "client" :> {"TA_SIGN_COIL_DATA"}
    @@ "reseed" :> {"TA_SEED_COIL", "TA_GET_ALL_COIL_DATA"}

OffOn == {0, 1}
\* The status address and the next one, which has no bit.
TwoAddresses == {COIL_ADDRESS_INVERTER_STATUS, COIL_ADDRESS_INVERTER_STATUS + 1}
OneTransaction == {1}

=============================================================================
