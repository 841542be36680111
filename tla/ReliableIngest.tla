---------------------------- MODULE ReliableIngest ----------------------------
(***************************************************************************)
(* What the backend promises a device that publishes at QoS 1, without the *)
(* queue, the worker, the session or the process that may die: a delivery  *)
(* is confirmed to the broker only once its effect is durable, an effect   *)
(* never disappears, and only durable telemetry is announced to dashboards,*)
(* at most once.                                                           *)
(***************************************************************************)
CONSTANTS
    Telemetry,   \* well-formed telemetry publications
    Status,      \* well-formed status publications
    Invalid,     \* publications that validation rejects deterministically
    Keys,        \* (device_id, boot_id, seq) idempotency keys
    KeyOf        \* the key each telemetry publication carries

Msg == Telemetry \cup Status \cup Invalid

\* The durable effect a publication must have before it may be confirmed: the
\* telemetry row of its key, the device row of a status, nothing if rejected.
Effect(m) == IF m \in Telemetry THEN {KeyOf[m]}
             ELSE IF m \in Status THEN {m}
             ELSE {}

VARIABLES
    routed,      \* publications the broker holds for the backend
    db,          \* durable effects
    announced,   \* keys whose telemetry was broadcast
    released     \* publications the broker was told it may forget

vars == <<routed, db, announced, released>>

Init == /\ routed = {}
        /\ db = {}
        /\ announced = {}
        /\ released = {}

Route(m) == /\ m \notin routed
            /\ routed' = routed \cup {m}
            /\ UNCHANGED <<db, announced, released>>

Apply(m) == /\ m \in routed
            /\ db' = db \cup Effect(m)
            /\ UNCHANGED <<routed, announced, released>>

Announce(k) == /\ k \in db \cap Keys
               /\ k \notin announced
               /\ announced' = announced \cup {k}
               /\ UNCHANGED <<routed, db, released>>

Release(m) == /\ m \in routed
              /\ Effect(m) \subseteq db
              /\ released' = released \cup {m}
              /\ UNCHANGED <<routed, db, announced>>

Next == \/ \E m \in Msg : Route(m) \/ Apply(m) \/ Release(m)
        \/ \E k \in Keys : Announce(k)

Spec == Init /\ [][Next]_vars
===============================================================================
