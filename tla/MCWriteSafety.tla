--------------------------- MODULE MCWriteSafety ---------------------------
(***************************************************************************)
(* Definitions of every data type and write class, canonical ones and a    *)
(* caller's own with a canonical name, and values at their boundaries.     *)
(***************************************************************************)
EXTENDS WriteSafety, TLC

Base == [name |-> "volatile", address |-> 1, datatype |-> "UCHAR", writable |-> TRUE, writeOnly |-> FALSE,
         cyclic |-> FALSE, eeprom |-> FALSE, min |-> None, max |-> None, enum |-> None,
         exclude |-> {}, multiplier |-> One, ttl |-> None]

\* hc_a_mode, a caller's own definition of it, and one with flags in conflict.
Mode == [name |-> "mode", min |-> 0, max |-> 5 * One, enum |-> 0..5, exclude |-> {255}, eeprom |-> TRUE] @@ Base
OwnMode == [name |-> "mode"] @@ Base
HeartbeatMode == [name |-> "mode", eeprom |-> TRUE, cyclic |-> TRUE] @@ Base
\* zm1_room1_temp, glt_temp_demand_heating and a heartbeat with a time to live
Room == [address |-> 2, datatype |-> "FLOAT", min |-> 15 * One, max |-> 30 * One] @@ Base
Demand == [name |-> "demand", address |-> 3, datatype |-> "FLOAT", cyclic |-> TRUE] @@ Base
ShortDemand == [ttl |-> 1, min |-> 0, max |-> 25 * One] @@ Demand
\* a bivalence point, demand_heating, error_acknowledge, a read-only register
Bivalence == [datatype |-> "INT16", min |-> -40 * One, max |-> 40 * One] @@ Base
Heating == [datatype |-> "BOOL"] @@ Base
Acknowledge == [writeOnly |-> TRUE, min |-> 0, max |-> 3 * One] @@ Base
ReadOnly == [writable |-> FALSE] @@ Base
\* callers' own definitions
Int8 == [datatype |-> "INT8", address |-> 9] @@ Base
Int16 == [datatype |-> "INT16", address |-> 9] @@ Base
Uint16 == [datatype |-> "UINT16", address |-> 9] @@ Base
Flags == [datatype |-> "BITFLAG", address |-> 9, max |-> 256 * One] @@ Base
Tens == [multiplier |-> 10 * One, min |-> 0, max |-> 35 * One] @@ Base
WholeTens == [multiplier |-> 10 * One, min |-> 0, max |-> 30 * One] @@ Base
Tenths == [datatype |-> "INT16", multiplier |-> 100, exclude |-> {3}] @@ Base
Eighths == [datatype |-> "INT16", multiplier |-> 125, max |-> 35 * One] @@ Base
FloatTenths == [datatype |-> "FLOAT", address |-> 9, multiplier |-> 100, min |-> -128 * One, max |-> 35 * One] @@ Base

Candidates == {Mode, OwnMode, HeartbeatMode, Room, Demand, ShortDemand, Bivalence, Heating, Acknowledge,
               ReadOnly, Int8, Int16, Uint16, Flags, Tens, WholeTens, Tenths,
               Eighths, FloatTenths}

MCDefinitions == {d \in Candidates : ValidDefinition(d)}
MCRegisterMaps == {{Mode, Room, Demand, Heating}}

Number(n) == [kind |-> "number", n |-> n]
MCValues ==
  {Number(n * One) : n \in {-32769, -32768, -129, -128, 0, 3, 25, 35, 127, 128, 255, 256,
                            32767, 32768, 65535, 65536}}
  \cup {Number(15010), Number(29999), Number(125), Number(-1035)}
  \cup {[kind |-> "boolean", n |-> 1], [kind |-> "nonfinite", n |-> 0], [kind |-> "text", n |-> 0]}

\* Floats of 15 bits and an exponent of six values: from 1 / 32 to 32767, with
\* gaps from 1 / 32 to 1.
MCGaps == <<1, 2, 4, 8, 16, 32>>
=============================================================================
