------------------------------ MODULE MCSensorBus ------------------------------
(* Instance of SensorBus for TLC: the bounds are those of the code.        *)
EXTENDS SensorBus

BothSensors == {"VL6180X", "LPS22HB"}
=============================================================================
