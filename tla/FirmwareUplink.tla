--------------------------- MODULE FirmwareUplink ---------------------------
(***************************************************************************)
(* How a reading leaves the node: the telemetry queue, Wi-Fi and MQTT, in  *)
(* the order the main loop runs them.  One thread; a step is one call of   *)
(* the loop that may act, and the network changes between any two of them. *)
(*                                                                         *)
(* A reading is its sequence number.  A retry window is only elapsed or    *)
(* not: its length and its arithmetic are the subject of FirmwareTiming.   *)
(*                                                                         *)
(* External: the Wi-Fi stack, the MQTT client library and the broker.  A   *)
(* publish that succeeds has been acknowledged; one that fails may have    *)
(* reached the broker all the same.                                        *)
(***************************************************************************)
EXTENDS Naturals, Sequences, FiniteSets

CONSTANTS
    QueueCapacity,   \* kQueueCapacity
    MaxPublishes,    \* kMaxPublishesPerLoop
    MaxSeq,          \* bound: acquisition attempts
    MaxFaults        \* bound: things that go wrong outside

ASSUME SizesAssumption ==
    /\ QueueCapacity \in Nat \ {0}
    /\ MaxPublishes \in Nat \ {0}
    /\ MaxSeq \in Nat
    /\ MaxFaults \in Nat

VARIABLES
    at, sent,         \* where the pass is; publishes of this pass
  (* WifiManager *)
    wifi,             \* state_: idle, connecting, connected
    wifiDue, late,    \* its retry window, or the attempt's timeout, has elapsed
    link,             \* WiFi.status() is WL_CONNECTED
  (* MqttManager *)
    mqtt,             \* state_: waiting (for Wi-Fi), idle, connected
    mqttDue,          \* its retry window has elapsed
    statusPublished,
    tcp,              \* client_.connected()
  (* acquisition and the queue *)
    seq, lastValid,   \* attempts so far; the last that was valid, 0 if none
    lastQueuedSeq,
    queue, droppedCount,
  (* the broker *)
    told,             \* it has had online in this session
    fed,              \* it has had telemetry in this session
    delivered,        \* every reading it has had
  (* history *)
    taken,            \* every reading that was queued
    faults

loopVars == <<at, sent>>
wifiVars == <<wifi, wifiDue, late>>
mqttVars == <<mqtt, mqttDue, statusPublished>>
readVars == <<seq, lastValid>>
queueVars == <<lastQueuedSeq, queue, droppedCount, taken>>
brokerVars == <<told, fed, delivered>>
vars == <<loopVars, wifiVars, link, mqttVars, tcp, readVars, queueVars, brokerVars, faults>>

InQueue == {queue[i] : i \in 1..Len(queue)}

\* An idle manager always has its window armed: the branches of the two tick()
\* that arm one are never taken.  So "elapsed or not" is all there is to say.
TypeOK ==
    /\ at \in {"sample", "wifi", "mqtt", "enqueue", "drain"}
    /\ sent \in 0..MaxPublishes /\ (at # "drain" => sent = 0)
    /\ wifi \in {"idle", "connecting", "connected"}
    /\ mqtt \in {"waiting", "idle", "connected"}
    /\ {wifiDue, late, link, mqttDue, statusPublished, tcp, told, fed} \subseteq BOOLEAN
    /\ statusPublished => mqtt = "connected"
    /\ tcp => mqtt = "connected"
    /\ seq \in 0..MaxSeq /\ lastValid \in 0..seq /\ lastQueuedSeq \in 0..lastValid
    /\ queue \in Seq(1..MaxSeq) /\ Len(queue) <= QueueCapacity
    /\ \A i, j \in 1..Len(queue) : queue[i] = queue[j] => i = j
    /\ droppedCount \in Nat
    /\ delivered \subseteq taken /\ taken \subseteq 1..lastQueuedSeq
    /\ faults \in 0..MaxFaults

\* After setup(): the Wi-Fi window is armed, MQTT waits for the link.
Init ==
    /\ at = "sample" /\ sent = 0
    /\ wifi = "idle" /\ wifiDue = FALSE /\ late = FALSE /\ link = FALSE
    /\ mqtt = "waiting" /\ mqttDue = FALSE /\ statusPublished = FALSE /\ tcp = FALSE
    /\ seq = 0 /\ lastValid = 0
    /\ lastQueuedSeq = 0 /\ queue = <<>> /\ droppedCount = 0 /\ taken = {}
    /\ told = FALSE /\ fed = FALSE /\ delivered = {}
    /\ faults = 0

Fault == faults < MaxFaults /\ faults' = faults + 1

-----------------------------------------------------------------------------
(* The sample deadline *)

\* Every attempt consumes a number; only a valid one becomes lastValid.
Sample ==
    /\ at = "sample"
    /\ at' = "wifi"
    /\ \/ UNCHANGED readVars
       \/ /\ seq < MaxSeq
          /\ seq' = seq + 1
          /\ lastValid' \in {lastValid, seq + 1}
    /\ UNCHANGED <<sent, wifiVars, link, mqttVars, tcp, queueVars, brokerVars, faults>>

-----------------------------------------------------------------------------
(* WifiManager::tick *)

WifiIs(state) == wifi' = state /\ wifiDue' = FALSE /\ late' = FALSE

WifiTick ==
    /\ at = "wifi"
    /\ at' = "mqtt"
    /\ \/ /\ link /\ wifi # "connected"
          /\ WifiIs("connected")
       \/ /\ ~link
          /\ \/ wifi = "connected" /\ WifiIs("idle")
             \/ wifi = "connecting" /\ late /\ WifiIs("idle")
             \/ wifi = "idle" /\ wifiDue /\ WifiIs("connecting")
       \/ /\ IF link THEN wifi = "connected"
             ELSE \/ wifi = "connecting" /\ ~late
                  \/ wifi = "idle" /\ ~wifiDue
          /\ UNCHANGED wifiVars
    /\ UNCHANGED <<sent, link, mqttVars, tcp, readVars, queueVars, brokerVars, faults>>

-----------------------------------------------------------------------------
(* MqttManager::tick *)

MqttCall ==
    /\ at = "mqtt"
    /\ at' = "enqueue"
    /\ UNCHANGED <<sent, wifiVars, link, readVars, queueVars, delivered>>

\* The broker hears the client.
Reachable == link /\ tcp

\* stop(), back to the initial window, and wait for the link.
HoldsForWifi ==
    /\ mqtt' = "waiting" /\ mqttDue' = FALSE /\ tcp' = FALSE
    /\ statusPublished' = FALSE

\* enterIdle: a new window is armed.
EntersIdle ==
    /\ mqtt' = "idle" /\ mqttDue' = FALSE /\ tcp' = FALSE
    /\ statusPublished' = FALSE

WifiIsDown ==
    /\ wifi # "connected"
    /\ MqttCall
    /\ HoldsForWifi
    /\ UNCHANGED <<told, fed, faults>>

ConnectionNoticedLost ==
    /\ wifi = "connected" /\ mqtt = "connected" /\ ~tcp
    /\ MqttCall
    /\ EntersIdle
    /\ UNCHANGED <<told, fed, faults>>

\* A status publish fails, and may have arrived.
StatusFails(before) ==
    /\ statusPublished' = FALSE
    /\ told' \in {before, link \/ before}

\* MUTANT: one attempt is made to publish the status, when connecting.
RetriesStatusNever == FALSE

RetriesStatus == ~statusPublished

StatusRetried ==
    /\ wifi = "connected" /\ mqtt = "connected" /\ tcp /\ RetriesStatus
    /\ MqttCall
    /\ \/ /\ link
          /\ statusPublished' = TRUE /\ told' = TRUE
          /\ UNCHANGED faults
       \/ /\ StatusFails(told)
          /\ IF link THEN Fault ELSE UNCHANGED faults
    /\ UNCHANGED <<mqtt, mqttDue, tcp, fed>>

\* Connected and announced, or idle inside the window: nothing to do.
MqttRests ==
    /\ wifi = "connected"
    /\ \/ mqtt = "connected" /\ tcp /\ ~RetriesStatus
       \/ mqtt = "idle" /\ ~mqttDue
    /\ MqttCall
    /\ UNCHANGED <<mqttVars, tcp, told, fed, faults>>

\* Back from waiting the attempt is immediate, otherwise the window is over.
MayAttempt ==
    /\ wifi = "connected"
    /\ mqtt = "waiting" \/ (mqtt = "idle" /\ mqttDue)

\* No will, no session: a will that cannot be registered fails the attempt too.
AttemptFails ==
    /\ MayAttempt
    /\ MqttCall
    /\ IF link THEN Fault ELSE UNCHANGED faults
    /\ EntersIdle
    /\ UNCHANGED <<told, fed>>

\* A new session.  The status is published before anything else.
AttemptSucceeds ==
    /\ MayAttempt /\ link
    /\ MqttCall
    /\ mqtt' = "connected" /\ mqttDue' = FALSE /\ tcp' = TRUE
    /\ fed' = FALSE
    /\ \/ statusPublished' = TRUE /\ told' = TRUE /\ UNCHANGED faults
       \/ StatusFails(FALSE) /\ Fault

MqttTick ==
    \/ WifiIsDown \/ ConnectionNoticedLost \/ StatusRetried \/ MqttRests
    \/ AttemptFails \/ AttemptSucceeds

-----------------------------------------------------------------------------
(* The telemetry deadline and the drain *)

Full(q) == Len(q) = QueueCapacity

\* TelemetryQueue::push: never fails, may drop the head.
Push(q, item) ==
    /\ queue' = Append(IF Full(q) THEN Tail(q) ELSE q, item)
    /\ droppedCount' = IF Full(q) THEN droppedCount + 1 ELSE droppedCount

\* The deadline is not due, or the sensor has produced nothing new since.
NothingToEnqueue ==
    /\ at = "enqueue"
    /\ at' = "drain"
    /\ UNCHANGED <<sent, wifiVars, link, mqttVars, tcp, readVars, queueVars, brokerVars, faults>>

EnqueueTelemetry ==
    /\ at = "enqueue"
    /\ lastValid # 0 /\ lastValid # lastQueuedSeq
    /\ at' = "drain"
    /\ lastQueuedSeq' = lastValid
    /\ Push(queue, lastValid)
    /\ taken' = taken \cup {lastValid}
    /\ UNCHANGED <<sent, wifiVars, link, mqttVars, tcp, readVars, brokerVars, faults>>

\* MUTANT: telemetry goes as soon as the session is up.
ReadyWhenConnected == mqtt = "connected"

\* isReadyForTelemetry
Ready == mqtt = "connected" /\ statusPublished

DrainStops ==
    /\ at = "drain"
    /\ ~Ready \/ sent = MaxPublishes \/ queue = <<>>
    /\ at' = "sample" /\ sent' = 0
    /\ UNCHANGED <<wifiVars, link, mqttVars, tcp, readVars, queueVars, brokerVars, faults>>

Publishing == at = "drain" /\ Ready /\ sent < MaxPublishes /\ queue # <<>>

\* formatTelemetryJson refuses no sample that was queued: they are valid, their
\* energy is finite and not negative, and the buffer holds the longest document.
Arrives(item) == delivered' = delivered \cup {item} /\ fed' = TRUE

PublishSucceeds ==
    /\ Publishing /\ Reachable
    /\ Arrives(Head(queue))
    /\ queue' = Tail(queue)
    /\ sent' = sent + 1
    /\ UNCHANGED <<at, wifiVars, link, mqttVars, tcp, readVars>>
    /\ UNCHANGED <<lastQueuedSeq, droppedCount, taken, told, faults>>

\* MUTANT: the sample whose publish failed is gone.
PutBackNowhere(rest, item) == queue' = rest /\ UNCHANGED droppedCount

\* The sample goes to the back of what is left.
PutBack(rest, item) == Push(rest, item)

PublishFails ==
    /\ Publishing
    /\ PutBack(Tail(queue), Head(queue))
    /\ at' = "sample" /\ sent' = 0
    /\ IF Reachable
       THEN Fault /\ (Arrives(Head(queue)) \/ UNCHANGED <<delivered, fed>>)
       ELSE UNCHANGED <<delivered, fed, faults>>
    /\ UNCHANGED <<wifiVars, link, mqttVars, tcp, readVars, lastQueuedSeq, taken, told>>

Drain == DrainStops \/ PublishSucceeds \/ PublishFails

-----------------------------------------------------------------------------
(* What happens outside *)

Outside == UNCHANGED <<loopVars, wifi, mqtt, statusPublished, readVars, queueVars, brokerVars>>

LinkUp == wifi = "connecting" /\ ~link /\ link' = TRUE
          /\ Outside /\ UNCHANGED <<wifiDue, late, mqttDue, tcp, faults>>

LinkDown == link /\ link' = FALSE /\ Fault
            /\ Outside /\ UNCHANGED <<wifiDue, late, mqttDue, tcp>>

\* The broker closes the connection, or the keep-alive runs out.
ConnectionLost == tcp /\ tcp' = FALSE /\ Fault
                  /\ Outside /\ UNCHANGED <<wifiDue, late, link, mqttDue>>

\* The access point does not answer in time.
AttemptTimesOut == wifi = "connecting" /\ ~late /\ late' = TRUE /\ Fault
                   /\ Outside /\ UNCHANGED <<wifiDue, link, mqttDue, tcp>>

WifiWindowEnds == wifi = "idle" /\ ~wifiDue /\ wifiDue' = TRUE
                  /\ Outside /\ UNCHANGED <<late, link, mqttDue, tcp, faults>>

MqttWindowEnds == mqtt = "idle" /\ ~mqttDue /\ mqttDue' = TRUE
                  /\ Outside /\ UNCHANGED <<wifiDue, late, link, tcp, faults>>

Loop == Sample \/ WifiTick \/ MqttTick \/ NothingToEnqueue \/ EnqueueTelemetry \/ Drain

Next == \/ Loop
        \/ LinkUp \/ LinkDown \/ ConnectionLost \/ AttemptTimesOut
        \/ WifiWindowEnds \/ MqttWindowEnds

Spec == Init /\ [][Next]_vars

\* The loop runs, time passes, and an access point that is asked answers unless
\* the attempt times out.
Fairness ==
    /\ WF_vars(Loop)
    /\ WF_vars(LinkUp)
    /\ WF_vars(WifiWindowEnds)
    /\ WF_vars(MqttWindowEnds)

FairSpec == Spec /\ Fairness

-----------------------------------------------------------------------------
(* Properties *)

\* mqtt_manager.cpp:137 "Status before any telemetry, including anything queued
\* while offline": in every session, whatever failed in it or before it.
StatusFirst == fed => told

\* A queued reading is with the broker, still queued, or counted as dropped by
\* the overflow; a failed publish loses none.
LossIsCounted == Cardinality(taken \ (delivered \cup InQueue)) <= droppedCount

\* Nothing the network does leaves the node stuck: a queued reading reaches the
\* broker unless newer ones push it out.
Drains == \A s \in 1..MaxSeq : s \in InQueue ~> s \notin InQueue
=============================================================================
