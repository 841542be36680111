---------------------------- MODULE MCDeviceStatus ----------------------------
(* Instances of DeviceStatus with one device: no action relates two of them. *)
EXTENDS DeviceStatus
CONSTANTS d1
===============================================================================
