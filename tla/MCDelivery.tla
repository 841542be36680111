------------------------------ MODULE MCDelivery ------------------------------
(* Instances of Delivery for TLC: a device that publishes one reading twice  *)
(* (its own QoS 1 retry), a second reading or a status, and a rejected one.   *)
EXTENDS Delivery

CONSTANTS t1, t2, s1, b1, k1

MCKeyOf == [t \in Telemetry |-> k1]

\* Packet ids: the publications themselves when the broker never reuses one.
MCFreshMids == Msg
MCFreshMidOf == [m \in Msg |-> m]
===============================================================================
