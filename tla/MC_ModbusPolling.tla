-------------------------- MODULE MC_ModbusPolling --------------------------
(* The instances on which the poller's readings are not the generator's. *)
EXTENDS ModbusPolling

WarmSensors  == {<<"temperature", 1>>, <<"temperature", 2>>}
OneSensor    == {<<"temperature", 1>>}
One          == {20}
BothSigns    == {20, -5}
=============================================================================
