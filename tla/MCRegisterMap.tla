---------------------------- MODULE MCRegisterMap ----------------------------
(***************************************************************************)
(* Models with the first and the last circuits and zone modules, whose     *)
(* registers have neighbours of other kinds, and every set of features.    *)
(***************************************************************************)
EXTENDS RegisterMap

MCModelInfos ==
  [modelName : {"Unknown", "Navigator 10"}, circuits : SUBSET {1, 2, 6, 7}, zoneModules : {0, 1, 2, 10},
   features : SUBSET {"cascade", "solar", "isc", "pv"}]
\* Names of the core catalog, of every feature, and of a circuit and a zone.
MCAsked ==
  {<<"outdoor_temp">>, <<"system_mode">>, <<"storage_temp">>, <<"hp_operating_mode">>, <<"error_acknowledge">>,
   <<"solar_mode">>, <<"pv_surplus">>, <<"power_limit_hp">>, <<"cascade_min_power_dhw">>, <<"demand_heating">>,
   <<"hc", 1, "mode">>, <<"zm", 2, "temp", 6>>, <<"no_such_register">>}
=============================================================================
