----------------------------- MODULE RegisterMap -----------------------------
(***************************************************************************)
(* The register catalog (registers/*.ts) and the map that a client works   *)
(* with once it knows its model (registry.ts, buildRegisterMap).           *)
(*                                                                         *)
(* A register is its name, its first word, its number of words and its     *)
(* write class; units, limits and texts are left out.  Names are tuples:   *)
(* <<"outdoor_temp">>, <<"hc", 1, "mode">> for hc_a_mode,                  *)
(* <<"zm", 1, "temp", 6>> for zm1_room6_temp.  All registers are of type   *)
(* "input".                                                                *)
(***************************************************************************)
EXTENDS Integers, FiniteSets

CONSTANTS
  ModelInfos,  \* results of a detection: [modelName, circuits, zoneModules, features]
  RoomsPerZone,
  Asked,       \* names that callers read and write by
  None         \* null

\* At most MAX_ROOMS_PER_ZONE.
ASSUME RoomsAssumption == RoomsPerZone \in 1..8

\* A detection reports the circuits, zone modules and features that it has probes for.
ASSUME InfosAssumption ==
  \A info \in ModelInfos :
    /\ info.circuits \subseteq 1..7 /\ info.zoneModules \in 0..10
    /\ info.features \subseteq {"cascade", "solar", "isc", "pv"}

\* The registers that a table of names and addresses lists.
Table(size, class, address) ==
  {[name |-> <<n>>, address |-> address[n], size |-> size, class |-> class] : n \in DOMAIN address}

\* An entry of such a table for a circuit, a zone module or a room.
Placed(entry, name, base) ==
  [name |-> name, address |-> base + entry.address, size |-> entry.size, class |-> entry.class]

-----------------------------------------------------------------------------
(* Registers that every model has *)

\* Faulty variant: the core catalog does not mark what the system table marks.
CoreRegistersUnmarked ==
  Table(2, "forbidden", [outdoor_temp |-> 1000, storage_temp |-> 1008])
  \cup Table(1, "volatile", [system_mode |-> 1005])

CoreRegisters ==
  Table(2, "forbidden", [outdoor_temp |-> 1000, storage_temp |-> 1008])
  \cup Table(1, "eeprom", [system_mode |-> 1005])
  \cup Table(1, "forbidden", [hp_operating_mode |-> 1090])
  \cup Table(1, "write_only", [error_acknowledge |-> 1999])

SystemRegisters ==
  Table(2, "forbidden", [
       outdoor_temp |-> 1000, outdoor_temp_avg |-> 1002, storage_temp |-> 1008,
       cold_storage_temp |-> 1010, dhw_temp_bottom |-> 1012, dhw_temp_top |-> 1014,
       dhw_tapping_temp |-> 1030, current_electricity_price |-> 1048, hp_flow_temp |-> 1050,
       hp_return_temp |-> 1052, hgl_flow_temp |-> 1054, heat_source_inlet_temp |-> 1056,
       heat_source_outlet_temp |-> 1058, air_intake_temp |-> 1060, air_heat_exchanger_temp |-> 1062,
       air_intake_temp_2 |-> 1064, charging_sensor_temp |-> 1066])
  \cup Table(1, "forbidden", [internal_message |-> 1004, smart_grid_status |-> 90, variable_input |-> 1006])
  \cup Table(1, "eeprom", [
       system_mode |-> 1005, dhw_setpoint |-> 1032, dhw_charge_on_temp |-> 1033,
       dhw_charge_off_temp |-> 1034])

HpStatusRegisters ==
  Table(1, "forbidden", [
       hp_operating_mode |-> 1090, heating_demand |-> 1091, cooling_demand |-> 1092,
       dhw_demand |-> 1093, evu_lock |-> 1098, hp_sum_alarm |-> 1099, compressor_status_1 |-> 1100,
       compressor_status_2 |-> 1101, compressor_status_3 |-> 1102, compressor_status_4 |-> 1103,
       charging_pump_status |-> 1104, brine_pump_status |-> 1105, heat_source_pump_status |-> 1106,
       isc_cold_storage_pump_status |-> 1108, isc_recooling_pump_status |-> 1109,
       valve_hc_heat_cool |-> 1110, valve_storage_heat_cool |-> 1111, valve_heat_dhw |-> 1112,
       valve_heat_source_heat_cool |-> 1113, valve_solar_heat_dhw |-> 1114,
       valve_solar_storage_heat_source |-> 1115, valve_isc_heat_source_cold_storage |-> 1116,
       valve_isc_storage_bypass |-> 1117, circulation_pump |-> 1118, bivalence_state |-> 1124,
       cascade_available_heating |-> 1147, cascade_available_cooling |-> 1148,
       cascade_available_dhw |-> 1149, cascade_running_heating |-> 1150,
       cascade_running_cooling |-> 1151, cascade_running_dhw |-> 1152])
  \cup Table(1, "eeprom", [
       bivalence_point_1_2nd_gen |-> 1120, bivalence_point_2_2nd_gen |-> 1121,
       bivalence_point_1_3rd_gen |-> 1122, bivalence_point_2_3rd_gen |-> 1123])

EnergyRegisters ==
  Table(2, "forbidden", [
       energy_heating |-> 1748, energy_total |-> 1750, energy_cooling |-> 1752, energy_dhw |-> 1754,
       energy_defrost |-> 1756, energy_passive_cooling |-> 1758, energy_solar |-> 1760,
       energy_electric_heater |-> 1762, current_power |-> 1790, current_power_solar |-> 1792,
       power_consumption_hp |-> 4122, firmware_version |-> 4120, thermal_power_flow_sensor |-> 4126,
       total_heat_energy |-> 4128])

-----------------------------------------------------------------------------
(* Registers of features *)

CascadeRegisters ==
  Table(2, "forbidden", [
       cascade_req_heating_temp |-> 1200, cascade_req_cooling_temp |-> 1202,
       cascade_req_dhw_temp |-> 1204, cascade_avg_flow_heating |-> 1206,
       cascade_avg_flow_cooling |-> 1208, cascade_avg_flow_dhw |-> 1210])
  \cup Table(1, "volatile", [
       cascade_min_power_heating |-> 1220, cascade_max_power_heating |-> 1221,
       cascade_min_power_cooling |-> 1222, cascade_max_power_cooling |-> 1223,
       cascade_min_power_dhw |-> 1224, cascade_max_power_dhw |-> 1225,
       cascade_bivalence_heating_parallel |-> 1226, cascade_bivalence_heating_alternative |-> 1227,
       cascade_bivalence_cooling_parallel |-> 1228, cascade_bivalence_cooling_alternative |-> 1229,
       cascade_bivalence_dhw_parallel |-> 1230, cascade_bivalence_dhw_alternative |-> 1231])

SolarRegisters ==
  Table(2, "forbidden", [
       solar_collector_temp |-> 1850, solar_return_temp |-> 1852, solar_charging_temp |-> 1854,
       solar_wq_pool_temp |-> 1857])
  \cup Table(1, "eeprom", [solar_mode |-> 1856])

IscRegisters ==
  Table(2, "forbidden", [isc_charging_temp_cooling |-> 1870, isc_recooling_temp |-> 1872])
  \cup Table(1, "forbidden", [isc_mode |-> 1874])

PvRegisters ==
  Table(2, "volatile", [
       pv_surplus |-> 74, electric_heater_power |-> 76, pv_production |-> 78, house_consumption |-> 82,
       battery_discharge |-> 84, pv_target_value |-> 88])
  \cup Table(1, "volatile", [battery_soc |-> 86])

Navigator10Registers ==
  Table(2, "forbidden", [
       heat_sink_return_temp |-> 1068, heat_sink_flow_temp |-> 1070, groundwater_inlet_temp_1 |-> 1086,
       groundwater_inlet_temp_2 |-> 1088, power_consumption_hp_smartfox |-> 4124,
       booster_a_source_inlet_temp |-> 4010, booster_a_source_outlet_temp |-> 4012,
       booster_a_storage_temp |-> 4014, booster_a_flow_temp |-> 4016, booster_a_return_temp |-> 4018,
       booster_b_source_inlet_temp |-> 4040, booster_b_source_outlet_temp |-> 4042,
       booster_b_storage_temp |-> 4044, booster_b_flow_temp |-> 4046, booster_b_return_temp |-> 4048])
  \cup Table(1, "forbidden", [
       heat_sink_flow_rate |-> 1072, heat_sink_charging_pump_signal |-> 1074,
       fault_heat_source_circuit |-> 1680, fault_heat_source_pressure_switch |-> 1681,
       fault_charging_pump_1_intermediate |-> 1682, fault_charging_pump_2_intermediate |-> 1683,
       booster_fault |-> 4001, booster_interlock |-> 4002, booster_a_source_pump |-> 4020,
       booster_a_charging_pump |-> 4021, booster_a_compressor |-> 4022, booster_b_source_pump |-> 4050,
       booster_b_charging_pump |-> 4051, booster_b_compressor |-> 4052])
  \cup Table(1, "volatile", [ext_demand_groundwater_pump_m15 |-> 1714, ext_demand_groundwater_pump_m15_sw_max |-> 1715])
  \cup Table(2, "volatile", [power_limit_hp |-> 4108, power_limit_cascade |-> 4112])

GltRegisters ==
  Table(2, "volatile", [
       ext_outdoor_temp |-> 1690, ext_humidity |-> 1692, glt_heat_storage_temp |-> 1716,
       glt_cold_storage_temp |-> 1718, glt_dhw_temp_bottom |-> 1720, glt_dhw_temp_top |-> 1722])
  \cup Table(1, "eeprom", [ext_demand_temp_heating |-> 1694, ext_demand_temp_cooling |-> 1695])
  \cup Table(2, "cyclic", [glt_temp_demand_heating |-> 1696, glt_temp_demand_cooling |-> 1698])
  \cup Table(1, "volatile", [
       demand_heating |-> 1710, demand_cooling |-> 1711, demand_dhw_charging |-> 1712,
       demand_onetime_dhw |-> 1713])

SpecialRegisters ==
  Table(1, "write_only", [error_acknowledge |-> 1999]) \cup Table(2, "forbidden", [humidity_sensor |-> 1392])

-----------------------------------------------------------------------------
(* Registers of heating circuits and zone modules *)

\* Faulty variant: flow temperatures have one word.
HeatingCircuitRegistersNarrow(c) ==
  {Placed(r, <<"hc", c, r.name[1]>>, (c - 1) * r.size) :
     r \in Table(1, "forbidden", [flow_temp |-> 1350, active_mode |-> 1498])}

\* Faulty variant: the heating curve is not marked as sensitive.
HeatingCircuitRegistersUnmarked(c) ==
  {Placed(r, <<"hc", c, r.name[1]>>, (c - 1) * r.size) :
     r \in Table(2, "forbidden", [flow_temp |-> 1350])
           \cup Table(2, "volatile", [heating_curve |-> 1429])
           \cup Table(1, "eeprom", [heating_limit |-> 1442])}

CircuitTable ==
  Table(2, "forbidden", [flow_temp |-> 1350, room_temp |-> 1364, setpoint_flow_temp |-> 1378])
  \cup Table(2, "eeprom", [
       room_setpoint_heat_normal |-> 1401, room_setpoint_heat_eco |-> 1415, heating_curve |-> 1429,
       room_setpoint_cool_normal |-> 1457, room_setpoint_cool_eco |-> 1471])
  \cup Table(1, "eeprom", [
       mode |-> 1393, heating_limit |-> 1442, setpoint_flow_constant |-> 1449,
       cooling_limit |-> 1484, setpoint_flow_cooling |-> 1491, parallel_shift |-> 1505])
  \cup Table(1, "forbidden", [active_mode |-> 1498])
  \cup Table(2, "volatile", [ext_room_temp |-> 1650])

\* A circuit's registers follow those of the circuit before, register by register.
HeatingCircuitRegisters(c) ==
  {Placed(r, <<"hc", c, r.name[1]>>, (c - 1) * r.size) : r \in CircuitTable}

ZoneBase(z) == 2000 + (z - 1) * 65

RoomTable ==
  Table(2, "volatile", [temp |-> 0, setpoint |-> 2])
  \cup Table(1, "volatile", [humidity |-> 4, mode |-> 5]) \cup Table(1, "forbidden", [relay |-> 6])

RoomRegisters(z, room) ==
  {Placed(r, <<"zm", z, r.name[1], room>>, ZoneBase(z) + 2 + (room - 1) * 7) : r \in RoomTable}

ZoneTable == Table(1, "forbidden", [mode_heat_cool |-> 0, dehumidification |-> 1])

ZoneModuleRegisters(z) ==
  {Placed(r, <<"zm", z, r.name[1]>>, ZoneBase(z)) : r \in ZoneTable}
  \cup UNION {RoomRegisters(z, room) : room \in 1..RoomsPerZone}

-----------------------------------------------------------------------------
(* Register maps *)

NamesOf(registers) == {r.name : r \in registers}

\* mergeRegisterMaps: of registers with one name, the later one stays.
Merge(first, second) ==
  LET later == NamesOf(second) IN {r \in first : r.name \notin later} \cup second

CommonRegisters == Merge(Merge(SystemRegisters, HpStatusRegisters), EnergyRegisters)

FeatureRegisters(feature) ==
  CASE feature = "cascade" -> CascadeRegisters
    [] feature = "solar" -> SolarRegisters
    [] feature = "isc" -> IscRegisters
    [] feature = "pv" -> PvRegisters

IsNavigator10(info) == info.modelName = "Navigator 10"

BuildRegisterMap(info) ==
  LET navigator == IF IsNavigator10(info) THEN Navigator10Registers ELSE {}
      features == UNION {FeatureRegisters(f) : f \in info.features}
      circuits == UNION {HeatingCircuitRegisters(c) : c \in info.circuits}
      zones == UNION {ZoneModuleRegisters(z) : z \in 1..info.zoneModules}
  IN Merge(Merge(Merge(Merge(Merge(Merge(
       CommonRegisters, navigator), features), circuits), zones), GltRegisters), SpecialRegisters)

\* The map of a client without a model: all features and circuits, no zones.
DefaultMap ==
  BuildRegisterMap([modelName |-> "Navigator 10", circuits |-> 1..7, zoneModules |-> 0,
                    features |-> {"cascade", "solar", "isc", "pv"}])

\* The register of a name, or null.
Find(registers, name) ==
  IF \E r \in registers : r.name = name THEN CHOOSE r \in registers : r.name = name ELSE None

GetRegister(name, registers) ==
  IF name \in NamesOf(CoreRegisters) THEN Find(CoreRegisters, name) ELSE Find(registers, name)

-----------------------------------------------------------------------------
(* The client *)

VARIABLES modelInfo, registerMap  \* of IdmModbusClient, null before a detection

mapVars == <<modelInfo, registerMap>>

NoMap == modelInfo = None /\ registerMap = None

\* A detection replaces both and looks at neither: one is enough.
Detect(info) ==
  /\ modelInfo = None
  /\ modelInfo' = info
  /\ registerMap' = BuildRegisterMap(info)

MapSpec == NoMap /\ [][\E info \in ModelInfos : Detect(info)]_mapVars

InUse == IF registerMap = None THEN DefaultMap ELSE registerMap

\* readRegister looks into its map first, a write plan does not.
ReadLookup(name) ==
  IF registerMap # None /\ name \in NamesOf(registerMap)
  THEN Find(registerMap, name) ELSE GetRegister(name, InUse)
WriteLookup(name) == GetRegister(name, InUse)

\* The words that a detection reads to find what it reports.
Probes ==
  {[address |-> 1350 + 2 * (c - 1), size |-> 2] : c \in modelInfo.circuits}
  \cup {[address |-> 1498 + c - 1, size |-> 1] : c \in modelInfo.circuits}
  \cup {[address |-> 2000 + 65 * (z - 1), size |-> 1] : z \in 1..modelInfo.zoneModules}
  \cup (IF "solar" \in modelInfo.features THEN {[address |-> 1850, size |-> 2]} ELSE {})
  \cup (IF "isc" \in modelInfo.features THEN {[address |-> 1870, size |-> 2]} ELSE {})
  \cup (IF "pv" \in modelInfo.features THEN {[address |-> 74, size |-> 2]} ELSE {})
  \cup (IF "cascade" \in modelInfo.features THEN {[address |-> 1147, size |-> 1]} ELSE {})
  \cup (IF IsNavigator10(modelInfo) THEN {[address |-> 4108, size |-> 2]} ELSE {})
  \cup {[address |-> 4120, size |-> 2]}

-----------------------------------------------------------------------------
(* Properties *)

\* A name means one register, whether it is read or written, before the
\* detection or after it, or none if the detected model has no such register
\* (client 708, write-safety.ts 352, registry.ts 281-301).
NamesMeanOneRegister ==
  \A name \in Asked :
    LET found == ReadLookup(name)
        before == GetRegister(name, DefaultMap)
    IN /\ WriteLookup(name) = found
       /\ found = before \/ found = None \/ before = None

\* No two registers begin at one word, so that a registry can be made of the map
\* of any model (registry.ts 61-84).  They overlap in three documented places
\* only (test/parity/register-schema.test.ts:99), and where both registers can be
\* written, both are of the EEPROM class: none of them is written without a
\* throttle of its own.  That throttle is kept by name (write-safety.ts 286, 301),
\* so that the shared word may still be written twice within one interval, once
\* through each: hc_g_heating_curve, at 1441 and 1442, and hc_a_heating_limit,
\* at 1442.
OverlapsAreDocumentedAndSensitive ==
  LET map == InUse
      starts == {r.address : r \in map}
      overlapping == {r \in map : r.size = 2 /\ r.address + 1 \in starts}
  IN /\ Cardinality(starts) = Cardinality(map)
     /\ {r.address : r \in overlapping} \subseteq {1392, 1441, 1483}
     /\ \A r \in overlapping, s \in map :
          s.address = r.address + 1 /\ r.class # "forbidden" /\ s.class # "forbidden" =>
            r.class = "eeprom" /\ s.class = "eeprom"

\* Whatever a detection takes as evidence is a register of the map that it
\* installs, as wide as it was probed (detection.ts 20-31, 96-133).
ProbesReadRegisters ==
  modelInfo # None => Probes \subseteq {[address |-> r.address, size |-> r.size] : r \in registerMap}
=============================================================================
