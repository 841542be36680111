------------------------------ MODULE MCFirmware ------------------------------
(***************************************************************************)
(* The node on small instances, one per behaviour: its uplink, with a      *)
(* queue that overflows and a network that fails a few times, or its       *)
(* clock, in the passes around the moment millis() wraps.                  *)
(***************************************************************************)
EXTENDS FirmwareUplink, FirmwareTiming

VARIABLE part

MCVars == <<part, vars, timingVars>>

\* The inputs of the part that does not run are fixed.
MCInit ==
    /\ part \in {"uplink", "timing"}
    /\ Init /\ TimingInit
    /\ part = "uplink" => clock = 10 /\ sensor = "ready" /\ window.delay = 2

Uplink(action) == part = "uplink" /\ action /\ UNCHANGED <<part, timingVars>>

MCNext ==
    \/ Uplink(Next)
    \/ part = "timing" /\ TimingNext /\ UNCHANGED <<part, vars>>
    \/ part = "timing" /\ UNCHANGED MCVars      \* the time observed may end

MCSpec ==
    /\ MCInit /\ [][MCNext]_MCVars
    /\ WF_MCVars(Uplink(Loop))
    /\ WF_MCVars(Uplink(LinkUp))
    /\ WF_MCVars(Uplink(WifiWindowEnds))
    /\ WF_MCVars(Uplink(MqttWindowEnds))
===============================================================================
