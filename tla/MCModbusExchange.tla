-------------------------- MODULE MCModbusExchange --------------------------
EXTENDS ModbusExchange
AnyMode == 0..3
=============================================================================
