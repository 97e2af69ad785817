------------------------- MODULE MCCoilTARefinement -------------------------
(***************************************************************************)
(* One session that sends the four storage commands and verifies, beside   *)
(* one that signs.                                                         *)
(***************************************************************************)
EXTENDS CoilTARefinement, TLC

OneUserSessions == {"server", "client"}
OneUserCommands ==
    "server" :> StorageCommands \cup {"TA_VERIFY_COIL_DATA"}
    @@ "client" :> {"TA_SIGN_COIL_DATA"}

OffOn == {0, 1}
\* The status address and the next one, which has no bit.
TwoAddresses == {COIL_ADDRESS_INVERTER_STATUS, COIL_ADDRESS_INVERTER_STATUS + 1}
TwoTransactions == {1, 2}

=============================================================================
