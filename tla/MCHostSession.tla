--------------------------- MODULE MCHostSession ---------------------------
EXTENDS HostSession

\* main of client.c, of server.c and of reseed.c.
MCUses ==
    [p \in Programs |->
        CASE p = "client" -> {"signCoilValue1", "verifyCoilData1"}
          [] p = "server" -> {"getDataByCoilAddress", "setCoilData1"}
          [] p = "reseed" -> {"seedCoil"}]
=============================================================================
