--------------------------- MODULE MCModbusClient ---------------------------
EXTENDS ModbusClient
CONSTANTS a, b, e, k
=============================================================================
