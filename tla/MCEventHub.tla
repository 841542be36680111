------------------------------ MODULE MCEventHub ------------------------------
(* An instance of EventHub: three clients compete for two slots of a device. *)
EXTENDS EventHub

CONSTANTS a, b, other, d1

MCWants == [c \in Clients |-> d1]
===============================================================================
