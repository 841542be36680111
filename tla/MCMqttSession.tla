---------------------------- MODULE MCMqttSession ----------------------------
(* MqttSession with the two filters of SUBSCRIPTIONS. *)
EXTENDS MqttSession

CONSTANTS telemetry, status
===============================================================================
