--------------------------------- MODULE Tables ---------------------------------
(***************************************************************************)
(* What the library knows of a Solarfocus controller (components/): the    *)
(* registers of each kind of component, by name, and where the blocks are. *)
(***************************************************************************)
EXTENDS Registers

NotTherminator == Systems \ {Therminator}
NotEcotop == Systems \ {Ecotop}

(* The systems that have had the layout of 25.030 from the beginning.      *)
LaidOutAsOf(component, system) ==
  IF component \in {"HeatingCircuit", "Buffer"} /\ system \in {Therminator, Ecotop}
  THEN 25030 ELSE Oldest

HeatingCircuit == [
  supply_temperature |-> Celsius(At(0), Plain),
  room_temperature |-> Celsius(At(1), Plain),
  humidity |-> Percent(At(2), [per |-> 10, sentinels |-> NotWiredPercent]),
  limit_thermostat |-> Flag(At(3), Plain),
  circulator_pump |-> Flag(Moved(4, 5), Plain),
  mixer_valve |-> Percent(Moved(5, 6), [signed |-> FALSE]),
  state |-> Code(Moved(6, 7), Plain),
  target_supply_temperature |-> Celsius(At(0), Holding @@ [bounds |-> <<0, 80>>]),
  cooling |-> Enum(At(2), 0..1, HoldingSigned),
  mode |-> Enum(At(3), 0..3, HoldingSigned),
  target_room_temperature |-> Celsius(At(5), Holding @@ [bounds |-> <<0, 45>>]),
  indoor_temperature_external |-> Celsius(At(6), Holding @@ [bounds |-> <<-50, 60>>]),
  indoor_humidity_external |->
    Percent(At(7), Holding @@ [per |-> 10, writePer |-> 1, bounds |-> <<1, 100>>]),
  heating_mode |-> Enum(At(8), 0..2, HoldingSigned @@ Since(22090))]

External == Holding @@ Since(22090) @@ Only(Systems \ {Therminator, Ecotop})
Buffer == [
  top_temperature |-> Celsius(At(0), Plain),
  bottom_temperature |-> Celsius(At(1), Plain),
  x35_temperature |-> Celsius(At(2), Only({Therminator})),
  pump |-> Flag(Moved(2, 3), [signed |-> TRUE]),
  state |-> Code(Moved(3, 4), Plain),
  mode |-> Enum(Moved(4, 5), 0..2, Plain),
  external_top_temperature_x44 |-> Celsius(At(0), External),
  external_middle_temperature_x36 |-> Celsius(At(1), External),
  external_bottom_temperature_x35 |-> Celsius(At(2), External)]

Boiler == [
  temperature |-> Celsius(At(0), Plain),
  state |-> Code(At(1), Plain),
  mode |-> Enum(At(2), 0..4, Plain),
  target_temperature |-> Celsius(At(0), Holding @@ [bounds |-> <<0, 80>>]),
  single_charge |-> Flag(At(1), HoldingSigned),
  holding_mode |-> Enum(At(2), 0..4, HoldingSigned),
  circulation |-> Flag(At(3), HoldingSigned)]

HeatPump == [
  supply_temperature |-> Celsius(At(0), Plain),
  return_temperature |-> Celsius(At(1), Plain),
  flow_rate |-> Unscaled(At(2), Plain),
  compressor_speed |-> Unscaled(At(3), Plain),
  evu_lock_active |-> Flag(At(4), Plain),
  defrost_active |-> Flag(Moved(5, 6), Plain),
  boiler_charge |-> Flag(Moved(6, 7), Plain),
  thermal_energy_total |-> Energy(Moved(7, 10), Plain),
  thermal_energy_drinking_water |-> Energy(Moved(9, 12), Plain),
  thermal_energy_heating |-> Energy(Moved(11, 14), Plain),
  electrical_energy_total |-> Energy(Moved(13, 16), Plain),
  electrical_energy_drinking_water |-> Energy(Moved(15, 18), Plain),
  electrical_energy_heating |-> Energy(Moved(17, 20), Plain),
  electrical_power |-> Watts(Moved(19, 22), Plain),
  thermal_power_cooling |-> Watts(Moved(20, 23), Plain),
  thermal_power_heating |-> Watts(Moved(21, 24), Plain),
  thermal_energy_cooling |-> Energy(Moved(22, 26), Plain),
  electrical_energy_cooling |-> Energy(Moved(24, 28), Plain),
  vampair_state |-> Code(Moved(26, 30), Plain),
  outdoor_temperature |-> Celsius(At(2408), [absolute |-> TRUE]),
  evu_lock |-> Flag(At(0), HoldingSigned),
  smart_grid |-> Enum(At(1), 0..4, HoldingSigned),
  outdoor_temperature_external |->
    Celsius(At(2), Holding @@ [bounds |-> <<-50, 60>>,
                               sentinels |-> OpenChannel \cup NoExternalTemperature])]

Photovoltaic == [
  power |-> Unscaled(At(0), Wide),
  house_consumption |-> Unscaled(At(2), Wide),
  heatpump_consumption |-> Unscaled(At(4), Wide),
  grid_import |-> Unscaled(At(6), Wide),
  grid_export |-> Unscaled(At(8), Wide),
  overcharge_possible |-> Flag(At(10), [signed |-> TRUE] @@ Since(21140)),
  overcharge_active |-> Flag(At(11), [signed |-> TRUE] @@ Since(21140)),
  smart_meter |-> Watts(At(0), Holding @@ Since(21140)),
  photovoltaic |-> Watts(At(1), Holding @@ Since(21140)),
  grid_im_export |-> Watts(At(2), Holding @@ Since(21140)),
  hems_target_electrical_power |-> Watts(At(8), Holding @@ Since(26020))]

WideTenths(at) == Tenths(at, Wide @@ [signed |-> FALSE] @@ Since(23010))
BiomassBoiler == [
  temperature |-> Celsius(At(0), Plain),
  status |-> Code(At(1), Plain),
  time_of_operation_at_maintenance |-> Unscaled(At(2), Wide),
  message_number |-> Unscaled(At(4), Plain),
  door_contact |-> Flag(At(5), [signed |-> TRUE]),
  cleaning |-> Percent(At(6), [sentinels |-> NotWiredPercent]),
  ash_container |-> Percent(At(7), [sentinels |-> NotWiredPercent]),
  outdoor_temperature |-> Celsius(At(8), Plain),
  boiler_operating_mode |-> Code(At(9), [signed |-> TRUE] @@ Only({Therminator})),
  octoplus_buffer_temperature_bottom |-> Celsius(At(10), Only({Octoplus})),
  return_temperature |-> Celsius(At(10), Only({Ecotop, PelletElegance})),
  octoplus_buffer_temperature_top |-> Celsius(At(11), Only({Octoplus})),
  log_wood |-> Flag(At(12), Since(22090) @@ Only({Therminator})),
  pellet_usage_last_fill |-> WideTenths(At(14)),
  pellet_usage_total |-> WideTenths(At(16)),
  heat_energy_total |-> WideTenths(At(18)),
  sweep_almost_done |-> Flag(At(20), [signed |-> TRUE] @@ Since(23080)),
  residual_oxygen_level |-> Percent(At(21), [per |-> 10, signed |-> FALSE] @@ Since(25020)),
  return_flow_booster_pump |-> Flag(At(22), Since(25020)),
  outdoor_temperature_external |->
    Celsius(At(6), Holding @@ Since(23010) @@
      [bounds |-> <<-50, 60>>, sentinels |-> OpenChannel \cup NoExternalTemperature]),
  sweep_function_start_stop |-> Flag(At(10), HoldingSigned @@ Since(22090) @@ Only(NotEcotop)),
  sweep_function_extend |-> Flag(At(11), HoldingSigned @@ Since(22090) @@ Only(NotEcotop)),
  pellet_usage_reset |-> Flag(At(12), HoldingSigned @@ Since(23010) @@ Only(NotEcotop))]

Solar == [
  collector_temperature_1 |-> Celsius(At(0), Plain),
  collector_temperature_2 |-> Celsius(At(1), Plain),
  collector_supply_temperature |-> Celsius(At(2), Plain),
  collector_return_temperature |-> Celsius(At(3), Plain),
  flow_heat_meter |-> Unscaled(At(4), Plain),
  current_power |-> Tenths(At(5), Plain),
  current_yield_heat_meter |-> Unscaled(At(6), Wide),
  today_yield |-> Unscaled(At(8), Wide),
  buffer_sensor_1 |-> Celsius(At(10), Plain),
  buffer_sensor_2 |-> Celsius(At(11), Plain),
  buffer_sensor_3 |-> Celsius(At(12), Plain),
  state |-> Code(At(13), Plain),
  relay_o1 |-> Flag(At(14), Since(25030)),
  control_out_1 |-> Percent(At(15), [signed |-> FALSE] @@ Since(25030)),
  relay_o2 |-> Flag(At(16), Since(25030)),
  control_out_2 |-> Percent(At(17), [signed |-> FALSE] @@ Since(25030))]

FreshWaterModule == [
  state |-> Code(At(0), Plain),
  supply_temperature |-> Celsius(At(1), Since(23040)),
  flow_rate |-> Tenths(At(2), Since(23040)),
  target_temperature |-> Celsius(At(3), Since(23040)),
  valve |-> Unscaled(At(4), [signed |-> FALSE] @@ Since(23040))]

FreshWaterModuleCascade == [
  state |-> Code(At(0), Plain),
  total_flow_rate |-> Tenths(At(1), Plain),
  target_temperature |-> Celsius(At(2), Plain)]

CirculationModule == [
  dhw_supply_temperature |-> Celsius(At(0), Plain),
  dhw_flow_rate |-> Tenths(At(1), Plain)]

Circulation == [temperature |-> Celsius(At(0), Plain), pump |-> Flag(At(1), Plain)]

DifferentialModule == [
  relay_control_loop_o1 |-> Flag(At(0), Plain),
  temperature_1_control_loop_1 |-> Celsius(At(1), Plain),
  temperature_2_control_loop_1 |-> Celsius(At(2), Plain),
  relay_control_loop_o2 |-> Flag(At(3), Plain),
  temperature_1_control_loop_2 |-> Celsius(At(4), Plain),
  temperature_2_control_loop_2 |-> Celsius(At(5), Plain)]

-----------------------------------------------------------------------------
Declared == [
  HeatingCircuit |-> HeatingCircuit, Buffer |-> Buffer, Boiler |-> Boiler,
  HeatPump |-> HeatPump, Photovoltaic |-> Photovoltaic, BiomassBoiler |-> BiomassBoiler,
  Solar |-> Solar, FreshWaterModule |-> FreshWaterModule,
  FreshWaterModuleCascade |-> FreshWaterModuleCascade,
  CirculationModule |-> CirculationModule, Circulation |-> Circulation,
  DifferentialModule |-> DifferentialModule]

(* Values worked out from registers: what each depends on.                 *)
Derived(component) ==
  IF component # "HeatPump" THEN {}
  ELSE {{"thermal_power_heating", "electrical_power"},
        {"thermal_power_cooling", "electrical_power"},
        {"thermal_energy_total", "electrical_energy_total"},
        {"thermal_energy_heating", "electrical_energy_heating"},
        {"thermal_energy_drinking_water", "electrical_energy_drinking_water"}}

(* What the setters write in one call, in the order in which they do.      *)
Settings(component) ==
  CASE component = "HeatingCircuit" ->
         <<"target_supply_temperature", "cooling", "mode", "heating_mode">>
    [] component = "Buffer" ->
         <<"external_top_temperature_x44", "external_middle_temperature_x36",
           "external_bottom_temperature_x35">>
    [] OTHER -> <<>>

-----------------------------------------------------------------------------
NoBase == -1
SpecDefaults ==
  [inputBase |-> NoBase, holdingBase |-> NoBase, inputStride |-> 0, holdingStride |-> 0,
   max |-> 1, since |-> Oldest, holdingSince |-> Oldest, systems |-> Systems]
ComponentSpec(component, inputBase, kwargs) ==
  kwargs @@ [component |-> component, inputBase |-> inputBase] @@ SpecDefaults

Specs == [
  heating_circuits |-> ComponentSpec("HeatingCircuit", 1100,
    [holdingBase |-> 32600, inputStride |-> 50, holdingStride |-> 50, max |-> 8]),
  buffers |-> ComponentSpec("Buffer", 1900,
    [holdingBase |-> 34000, inputStride |-> 20, holdingStride |-> 50, max |-> 4,
     holdingSince |-> 22090]),
  boilers |-> ComponentSpec("Boiler", 500,
    [holdingBase |-> 32000, inputStride |-> 50, holdingStride |-> 50, max |-> 4]),
  fresh_water_modules |-> ComponentSpec("FreshWaterModule", 700,
    [inputStride |-> 25, max |-> 4, since |-> 23020, systems |-> NotTherminator]),
  fresh_water_module_cascade |-> ComponentSpec("FreshWaterModuleCascade", 800,
    [since |-> 23040, systems |-> NotTherminator]),
  circulation_module |-> ComponentSpec("CirculationModule", 850, Since(23040)),
  circulations |-> ComponentSpec("Circulation", 900,
    [inputStride |-> 25, max |-> 4, since |-> 25030]),
  differential_modules |-> ComponentSpec("DifferentialModule", 2200,
    [inputStride |-> 10, max |-> 4, since |-> 25030]),
  solar |-> ComponentSpec("Solar", 2100, [inputStride |-> 20, max |-> 4]),
  heat_pump |-> ComponentSpec("HeatPump", 2300,
    [holdingBase |-> 33404, systems |-> {Vampair}]),
  photovoltaic |-> ComponentSpec("Photovoltaic", 2500, [holdingBase |-> 33407]),
  biomass_boiler |-> ComponentSpec("BiomassBoiler", 2400,
    [holdingBase |-> 33400, holdingSince |-> 22090, systems |-> Systems \ {Vampair}])]
=============================================================================
