------------------------------- MODULE Delivery -------------------------------
(***************************************************************************)
(* One QoS 1 delivery from the broker to the database and back: the paho   *)
(* callback, the callbacks it schedules on the application loop, the       *)
(* bounded ingress queue, the single drain worker, the ingestion outcome   *)
(* matrix with its two short transactions, the PUBACK, the redelivery      *)
(* request, graceful shutdown, connection loss and process death.          *)
(*                                                                         *)
(* Threads: the paho network thread (Deliver, Confirm), the application    *)
(* loop (Enqueue, Take, Resume, StopBegin ...) and one worker thread at a  *)
(* time for the blocking transaction (Persist, Flag).  A step is what one  *)
(* of them does between two awaits.                                        *)
(*                                                                         *)
(* The connection state machine (generations, SUBACK timer, retries) has a *)
(* module of its own, MqttSession; here a session is down, open (CONNACK,  *)
(* SUBACKs outstanding) or confirmed.                                      *)
(***************************************************************************)
EXTENDS Naturals, Sequences

CONSTANTS
    Telemetry, Status, Invalid,  \* publications, by what validation makes of them
    Keys, KeyOf,                 \* idempotency key of each telemetry publication
    Mids, MidOf,                 \* packet id the broker gives each publication
    QueueSize,                   \* settings.mqtt_ingress_queue_size
    MaxLives,                    \* bound: how often the process is started
    MaxDrops,                    \* bound: connections lost without a DISCONNECT
    MaxFailures                  \* bound: storage or handler failures

Msg == Telemetry \cup Status \cup Invalid

ASSUME MsgAssumption ==
    /\ Telemetry \cap Status = {}
    /\ (Telemetry \cup Status) \cap Invalid = {}
    /\ Keys \cap Status = {}
    /\ KeyOf \in [Telemetry -> Keys]
    /\ MidOf \in [Msg -> Mids]

ASSUME BoundAssumption ==
    /\ QueueSize \in Nat \ {0}
    /\ MaxLives \in Nat
    /\ MaxDrops \in Nat
    /\ MaxFailures \in Nat

\* A broker that never gives two publications of this session the same id.
FreshMids == \A m, n \in Msg : MidOf[m] = MidOf[n] => m = n

VARIABLES
  (* the broker and the wire *)
    subscription, \* the broker's filters for this client: never, active, removed
    routed,       \* publications put into the client's persistent session
    missed,       \* publications no filter matched, so nobody holds them
    inflight,     \* sent at least once and not yet confirmed by a PUBACK
    released,     \* confirmed by a PUBACK: the broker has forgotten them
    session,      \* "down", "open" (CONNACK), "confirmed" (every SUBACK)
    sent,         \* publications sent in the current session
    out,          \* PUBACKs written by the client, not yet read by the broker
    closing,      \* a DISCONNECT is queued behind out
  (* the process *)
    mode,         \* "off", "running", "draining" (stop), "leaving" (loop_stop)
    loopq,        \* _enqueue callbacks scheduled by the network thread
    queue,        \* the bounded ingress queue
    work,         \* what the drain worker is handling
    requested,    \* _redelivery_requested
  (* the database *)
    db,           \* committed telemetry keys and applied status messages
    flagged,      \* keys with a committed anomaly
  (* history and bounds *)
    events,       \* telemetry broadcasts per key
    judged,       \* anomalous verdicts per key, stored or not
    cutShort,     \* keys committed by a handler that did not get to the end
    drained,      \* publications acknowledged since stop() began
    clean,        \* the connection has been up ever since stop() began
    lives, drops, failures

brokerVars  == <<subscription, routed, missed, inflight, released>>
wireVars    == <<session, sent, out, closing>>
processVars == <<mode, loopq, queue, work, requested>>
dbVars      == <<db, flagged>>
historyVars == <<events, judged, cutShort, drained, clean>>
boundVars   == <<lives, drops, failures>>
vars == <<brokerVars, wireVars, processVars, dbVars, historyVars, boundVars>>

Effect(m) == IF m \in Telemetry THEN {KeyOf[m]}
             ELSE IF m \in Status THEN {m}
             ELSE {}

\* A delivery is decided when its effect is committed; a rejection needs none.
Decided(m) == Effect(m) \subseteq db

Idle == [msg |-> "none", phase |-> "idle"]

\* How far the handler is with a valid record.
Work == [msg : Telemetry,
         phase : {"persisting", "stored", "duplicate", "flagging", "judged", "failed"}]
        \cup [msg : Status, phase : {"persisting", "applied", "failed"}]

TypeOK ==
    /\ subscription \in {"never", "active", "removed"}
    /\ routed \subseteq Msg /\ missed \subseteq Msg /\ inflight \subseteq Msg
    /\ released \subseteq Msg /\ sent \subseteq Msg /\ drained \subseteq Msg
    /\ session \in {"down", "open", "confirmed"}
    /\ out \in Seq(Mids)
    /\ closing \in BOOLEAN /\ requested \in BOOLEAN /\ clean \in BOOLEAN
    /\ mode \in {"off", "running", "draining", "leaving"}
    /\ loopq \in Seq(Msg) /\ queue \in Seq(Msg) /\ Len(queue) <= QueueSize
    /\ work \in Work \cup {Idle}
    /\ db \subseteq Keys \cup Status
    /\ flagged \subseteq Keys
    /\ events \in [Keys -> Nat] /\ judged \in [Keys -> Nat] /\ cutShort \subseteq Keys
    /\ lives \in 0..MaxLives /\ drops \in 0..MaxDrops /\ failures \in 0..MaxFailures

Init ==
    /\ subscription = "never"
    /\ routed = {} /\ missed = {} /\ inflight = {} /\ released = {}
    /\ session = "down" /\ sent = {} /\ out = <<>> /\ closing = FALSE
    /\ mode = "off" /\ loopq = <<>> /\ queue = <<>> /\ work = Idle
    /\ requested = FALSE
    /\ db = {} /\ flagged = {}
    /\ events = [k \in Keys |-> 0] /\ judged = [k \in Keys |-> 0] /\ cutShort = {}
    /\ drained = {} /\ clean = FALSE
    /\ lives = 0 /\ drops = 0 /\ failures = 0

-------------------------------------------------------------------------------
(* The broker.  It is not part of the repository: a persistent session      *)
(* (clean_session=False) at QoS 1, as the adapter relies on it.             *)

\* A device publishes.  Only a filter that is in place routes the message
\* into the session, whether or not the client is connected.
Publish(m) ==
    /\ subscription # "never"
    /\ m \notin routed \cup missed
    /\ IF subscription = "active"
       THEN routed' = routed \cup {m} /\ UNCHANGED missed
       ELSE missed' = missed \cup {m} /\ UNCHANGED routed
    /\ UNCHANGED <<subscription, inflight, released>>
    /\ UNCHANGED <<wireVars, processVars, dbVars, historyVars, boundVars>>

\* Every unconfirmed publication is sent once per session, under the same
\* packet id each time; an id serves one unconfirmed publication at a time.
Sendable(m) ==
    /\ session # "down"
    /\ m \in routed \ (released \cup sent)
    /\ \A n \in inflight \ {m} : MidOf[n] # MidOf[m]

\* _on_message: the network thread schedules _enqueue unless stop() has begun,
\* in which case the delivery is neither queued nor acknowledged.
Deliver(m) ==
    /\ Sendable(m)
    /\ sent' = sent \cup {m}
    /\ inflight' = inflight \cup {m}
    /\ loopq' = IF mode = "running" THEN Append(loopq, m) ELSE loopq
    /\ UNCHANGED <<subscription, routed, missed, released, session, out, closing>>
    /\ UNCHANGED <<mode, queue, work, requested, dbVars, historyVars, boundVars>>

\* The broker reads the next PUBACK and forgets whatever holds that id.
BrokerReadsPuback ==
    /\ out # <<>>
    /\ LET done == {m \in inflight : MidOf[m] = Head(out)}
       IN  /\ released' = released \cup done
           /\ inflight' = inflight \ done
    /\ out' = Tail(out)
    /\ UNCHANGED <<subscription, routed, missed, session, sent, closing>>
    /\ UNCHANGED <<processVars, dbVars, historyVars, boundVars>>

\* The connection ends: PUBACKs still in the socket or in paho's outgoing
\* queue are gone, and everything unconfirmed becomes due for redelivery.
SessionEnds ==
    /\ session' = "down"
    /\ sent' = {}
    /\ out' = <<>>
    /\ closing' = FALSE

\* The DISCONNECT the client queued goes out behind its PUBACKs.
DisconnectSent ==
    /\ closing
    /\ out = <<>>
    /\ SessionEnds
    /\ UNCHANGED <<brokerVars, processVars, dbVars, historyVars, boundVars>>

ConnectionLost ==
    /\ session # "down"
    /\ drops < MaxDrops
    /\ drops' = drops + 1
    /\ SessionEnds
    /\ clean' = FALSE
    /\ UNCHANGED <<brokerVars, processVars, dbVars, events, judged, cutShort>>
    /\ UNCHANGED <<drained, lives, failures>>

-------------------------------------------------------------------------------
(* The session, as MqttSession details it. *)

\* An attempt is a task of the loop, which serves its callbacks in order: the
\* _enqueue callbacks of the session that ended have run before it.
Connect ==
    /\ mode = "running"
    /\ session = "down"
    /\ loopq = <<>>
    /\ session' = "open"
    /\ UNCHANGED <<brokerVars, sent, out, closing>>
    /\ UNCHANGED <<processVars, dbVars, historyVars, boundVars>>

\* The last SUBACK: the filters are in place and the next withheld delivery
\* may ask for a redelivery again.
Confirm ==
    /\ mode = "running"
    /\ session = "open"
    /\ session' = "confirmed"
    /\ subscription' = "active"
    /\ requested' = FALSE
    /\ UNCHANGED <<routed, missed, inflight, released, sent, out, closing>>
    /\ UNCHANGED <<mode, loopq, queue, work, dbVars, historyVars, boundVars>>

-------------------------------------------------------------------------------
(* The application loop. *)

\* client.disconnect() queues a DISCONNECT if there is a connection.
QueueDisconnect == closing' = (session # "down")

HasRoom == Len(queue) < QueueSize

\* _enqueue: refused once stop() has begun, queued if there is room, and
\* otherwise left unacknowledged with the session dropped.
Enqueue ==
    /\ mode # "leaving"
    /\ loopq # <<>>
    /\ loopq' = Tail(loopq)
    /\ \/ /\ mode = "running" /\ HasRoom
          /\ queue' = Append(queue, Head(loopq))
          /\ UNCHANGED closing
       \/ /\ mode = "running" /\ ~HasRoom
          /\ QueueDisconnect
          /\ UNCHANGED queue
       \/ /\ mode # "running"
          /\ UNCHANGED <<queue, closing>>
    /\ UNCHANGED <<brokerVars, session, sent, out>>
    /\ UNCHANGED <<mode, work, requested, dbVars, historyVars, boundVars>>

\* acknowledge(): a PUBACK for the record's packet id.  Without a connection,
\* or behind a DISCONNECT, it never reaches the broker.
Acknowledge(m) ==
    /\ out' = IF session = "down" \/ closing THEN out ELSE Append(out, MidOf[m])
    /\ drained' = IF mode = "draining" THEN drained \cup {m} ELSE drained
    /\ UNCHANGED <<closing, requested>>

\* MUTANT: the acknowledgement is withheld and nothing else happens.
WithholdPassively == UNCHANGED <<out, closing, requested, drained>>

\* _withhold(): no PUBACK, and one session drop per confirmed session.
Withhold ==
    /\ IF mode # "running" \/ requested
       THEN UNCHANGED <<closing, requested>>
       ELSE QueueDisconnect /\ requested' = TRUE
    /\ UNCHANGED <<out, drained>>

LoopRuns == mode \in {"running", "draining"}

\* The worker takes a record.  A rejected one is acknowledged on the spot; a
\* valid one goes to a worker thread for its transaction.
Take ==
    /\ LoopRuns
    /\ work = Idle
    /\ queue # <<>>
    /\ queue' = Tail(queue)
    /\ \/ /\ Head(queue) \in Invalid
          /\ Acknowledge(Head(queue))
          /\ UNCHANGED work
       \/ /\ Head(queue) \notin Invalid
          /\ work' = [msg |-> Head(queue), phase |-> "persisting"]
          /\ UNCHANGED <<out, closing, requested, drained>>
    /\ UNCHANGED <<brokerVars, session, sent, mode, loopq, dbVars>>
    /\ UNCHANGED <<events, judged, cutShort, clean, boundVars>>

InPhase(p) == work.phase = p

\* The handler has committed the reading of key k and not yet broadcast it.
Handling(k) ==
    /\ InPhase("stored") \/ InPhase("flagging") \/ InPhase("judged")
    /\ KeyOf[work.msg] = k

\* MUTANT: a duplicate is taken for a new reading.
OutcomeWithoutDuplicates(m) == IF m \in Status THEN "applied" ELSE "stored"

\* A known key resolves to the existing row.
Outcome(m) == IF m \in Status THEN "applied"
              ELSE IF Decided(m) THEN "duplicate" ELSE "stored"

\* MUTANT: the unit of work is left without a commit.
PersistUncommitted ==
    /\ InPhase("persisting")
    /\ work' = [work EXCEPT !.phase = Outcome(work.msg)]
    /\ UNCHANGED <<brokerVars, wireVars, mode, loopq, queue, requested, dbVars>>
    /\ UNCHANGED <<historyVars, boundVars>>

\* The transaction commits: the telemetry row of a new key, nothing new for a
\* known one, or the device row of a status.
Persist ==
    /\ InPhase("persisting")
    /\ work' = [work EXCEPT !.phase = Outcome(work.msg)]
    /\ db' = db \cup Effect(work.msg)
    /\ UNCHANGED <<brokerVars, wireVars, mode, loopq, queue, requested, flagged>>
    /\ UNCHANGED <<historyVars, boundVars>>

\* MUTANT: a storage error is logged and the handler goes on.
PersistFailsSilently ==
    /\ InPhase("persisting")
    /\ failures < MaxFailures
    /\ failures' = failures + 1
    /\ work' = [work EXCEPT !.phase = IF work.msg \in Status THEN "applied" ELSE "duplicate"]
    /\ UNCHANGED <<brokerVars, wireVars, mode, loopq, queue, requested, dbVars>>
    /\ UNCHANGED <<historyVars, lives, drops>>

\* A transient storage error, or any exception of the handler.  It may come
\* after the commit: closing the session is part of leaving the unit of work.
PersistFails ==
    /\ InPhase("persisting")
    /\ failures < MaxFailures
    /\ failures' = failures + 1
    /\ work' = [work EXCEPT !.phase = "failed"]
    /\ db' \in {db, db \cup Effect(work.msg)}
    /\ cutShort' = cutShort \cup (Keys \cap (db' \ db))
    /\ UNCHANGED <<brokerVars, wireVars, mode, loopq, queue, requested, flagged>>
    /\ UNCHANGED <<events, judged, drained, clean, lives, drops>>

\* MUTANT: a storage error of the anomaly fails the handler of the reading.
FlagFailsHandler ==
    /\ InPhase("flagging")
    /\ \/ /\ flagged' = flagged \cup {KeyOf[work.msg]}
          /\ work' = [work EXCEPT !.phase = "judged"]
          /\ UNCHANGED failures
       \/ /\ failures < MaxFailures
          /\ failures' = failures + 1
          /\ work' = [work EXCEPT !.phase = "failed"]
          /\ UNCHANGED flagged
    /\ UNCHANGED <<brokerVars, wireVars, mode, loopq, queue, requested, db>>
    /\ UNCHANGED <<historyVars, lives, drops>>

\* The anomaly of an accepted reading, in a second transaction that may fail,
\* after its commit too, without taking the reading with it.
Flag ==
    /\ InPhase("flagging")
    /\ work' = [work EXCEPT !.phase = "judged"]
    /\ \/ flagged' = flagged \cup {KeyOf[work.msg]} /\ UNCHANGED failures
       \/ /\ failures < MaxFailures
          /\ failures' = failures + 1
          /\ flagged' \in {flagged, flagged \cup {KeyOf[work.msg]}}
    /\ UNCHANGED <<brokerVars, wireVars, mode, loopq, queue, requested, db>>
    /\ UNCHANGED <<historyVars, lives, drops>>

\* Inference runs on the loop after the commit; an anomalous verdict goes back
\* to a worker thread.
JudgeAnomalous ==
    /\ LoopRuns
    /\ InPhase("stored")
    /\ work' = [work EXCEPT !.phase = "flagging"]
    /\ judged' = [judged EXCEPT ![KeyOf[work.msg]] = @ + 1]
    /\ UNCHANGED <<brokerVars, wireVars, mode, loopq, queue, requested>>
    /\ UNCHANGED <<dbVars, events, cutShort, drained, clean, boundVars>>

\* The loop resumes the handler with the outcome, and the worker is free.
Resume ==
    /\ LoopRuns
    /\ work' = Idle
    /\ \/ /\ InPhase("stored") \/ InPhase("judged")
          /\ events' = [events EXCEPT ![KeyOf[work.msg]] = @ + 1]
          /\ Acknowledge(work.msg)
       \/ /\ InPhase("duplicate") \/ InPhase("applied")
          /\ Acknowledge(work.msg)
          /\ UNCHANGED events
       \/ /\ InPhase("failed")
          /\ Withhold
          /\ UNCHANGED events
    /\ UNCHANGED <<brokerVars, session, sent, mode, loopq, queue, dbVars>>
    /\ UNCHANGED <<judged, cutShort, clean, boundVars>>

-------------------------------------------------------------------------------
(* Start, graceful stop and death of the process. *)

Start ==
    /\ mode = "off"
    /\ lives < MaxLives
    /\ lives' = lives + 1
    /\ mode' = "running"
    /\ requested' = FALSE
    /\ drained' = {} /\ clean' = FALSE
    /\ UNCHANGED <<brokerVars, wireVars, loopq, queue, work, dbVars>>
    /\ UNCHANGED <<events, judged, cutShort, drops, failures>>

\* MUTANT: stop() disconnects first and drains afterwards.
StopBeginByDisconnecting ==
    /\ mode = "running"
    /\ mode' = "draining"
    /\ drained' = {}
    /\ clean' = (session # "down" /\ ~closing)
    /\ QueueDisconnect
    /\ UNCHANGED <<brokerVars, session, sent, out>>
    /\ UNCHANGED <<loopq, queue, work, requested, dbVars, events, judged, cutShort>>
    /\ UNCHANGED boundVars

\* stop(): refuse intake and UNSUBSCRIBE, which only a live connection carries.
StopBegin ==
    /\ mode = "running"
    /\ mode' = "draining"
    /\ drained' = {}
    /\ clean' = (session # "down" /\ ~closing)
    /\ IF session # "down" /\ ~closing /\ subscription = "active"
       THEN subscription' = "removed"
       ELSE UNCHANGED subscription
    /\ UNCHANGED <<routed, missed, inflight, released, wireVars>>
    /\ UNCHANGED <<loopq, queue, work, requested, dbVars, events, judged, cutShort>>
    /\ UNCHANGED boundVars

\* Queue.join() returned or the grace period ran out: disconnect, and block in
\* loop_stop() until the network thread has written what is queued.
StopDisconnect ==
    /\ mode = "draining"
    /\ mode' = "leaving"
    /\ QueueDisconnect
    /\ UNCHANGED <<brokerVars, session, sent, out>>
    /\ UNCHANGED <<loopq, queue, work, requested, dbVars, historyVars, boundVars>>

ProcessEnds ==
    /\ mode' = "off"
    /\ loopq' = <<>>
    /\ queue' = <<>>
    /\ work' = Idle
    /\ requested' = FALSE
    /\ cutShort' = cutShort \cup {k \in Keys : Handling(k)}

\* The worker is cancelled.  A transaction its thread is still running commits
\* before the interpreter exits or not at all, which Persist and Flag cover.
StopFinish ==
    /\ mode = "leaving"
    /\ session = "down"
    /\ ProcessEnds
    /\ UNCHANGED <<brokerVars, wireVars, dbVars, events, judged, drained, clean, boundVars>>

Crash ==
    /\ mode # "off"
    /\ ProcessEnds
    /\ SessionEnds
    /\ clean' = FALSE
    /\ UNCHANGED <<brokerVars, dbVars, events, judged, drained, boundVars>>

-------------------------------------------------------------------------------
Network == \/ \E m \in Msg : Deliver(m)
           \/ BrokerReadsPuback \/ DisconnectSent \/ ConnectionLost
           \/ Connect \/ Confirm

Loop == Enqueue \/ Take \/ JudgeAnomalous \/ Resume

Threads == Persist \/ PersistFails \/ Flag

Lifecycle == Start \/ StopBegin \/ StopDisconnect \/ StopFinish \/ Crash

Next == (\E m \in Msg : Publish(m)) \/ Network \/ Loop \/ Threads \/ Lifecycle

\* What is scheduled runs: the event loop serves its callbacks and the worker,
\* a thread finishes its transaction, the broker and the network thread keep
\* exchanging packets, a retry is always made (MqttSession), and a stop() that
\* began completes.  Nothing obliges devices to publish, connections to break,
\* storage to fail, or an operator to start, stop or kill the process.
Fairness ==
    /\ WF_vars(Enqueue) /\ WF_vars(Take) /\ WF_vars(Resume)
    /\ WF_vars(Persist) /\ WF_vars(Flag)
    /\ \A m \in Msg : WF_vars(Deliver(m))
    /\ WF_vars(BrokerReadsPuback) /\ WF_vars(DisconnectSent)
    /\ WF_vars(Connect) /\ WF_vars(Confirm)
    /\ WF_vars(StopDisconnect) /\ WF_vars(StopFinish)

Spec == Init /\ [][Next]_vars

FairSpec == Spec /\ Fairness

-------------------------------------------------------------------------------
(* Properties *)

Occurs(m, s) == \E i \in 1..Len(s) : s[i] = m

\* The broker never forgets a publication whose effect is not committed: the
\* PUBACK of client.acknowledge follows the durable decision, across crashes,
\* redeliveries, lost PUBACKs and records that outlive their session.
ReleasedIsDecided == \A m \in released : Decided(m)

\* A reading is broadcast at most once and only when its row is committed,
\* although it may be delivered, and its transaction run, any number of times.
BroadcastOnce == \A k \in Keys : events[k] <= IF k \in db THEN 1 ELSE 0

\* Inference is isolated from delivery (ingestion.py:228).  A reading is judged
\* at most once, after its commit and before its broadcast; no redelivery,
\* crash or restart brings a second verdict, and no anomaly comes without one.
\* And whatever becomes of the anomaly's own transaction, a committed reading is
\* broadcast, unless its handler was cut short: the process ended, or the
\* session of the reading's own transaction failed to close.
VerdictIsolated ==
    \A k \in Keys :
        /\ judged[k] <= IF k \in db THEN 1 ELSE 0
        /\ k \in flagged => judged[k] = 1
        /\ k \in db => events[k] = 1 \/ Handling(k) \/ k \in cutShort
        /\ Handling(k) => events[k] = 0

\* stop() drains before it disconnects, so that every acknowledgement it gives
\* while draining reaches the broker unless the connection itself is lost.
ShutdownAcksArrive == mode = "off" /\ clean => drained \subseteq released

\* Something in this process may still lead to a PUBACK for m.
InHand(m) == \/ Occurs(m, loopq) \/ Occurs(m, queue)
             \/ work # Idle /\ work.msg = m
             \/ Occurs(MidOf[m], out)

\* m was sent in the current session and will neither be acknowledged in it
\* nor sent again by it.
Stranded(m) == /\ session = "confirmed" /\ ~closing
               /\ m \in sent \ released
               /\ ~InHand(m)

\* While the bounded queue is not saturated for ever, and no delivery is withheld
\* in a session that still awaits SUBACKs after an earlier one was withheld (see
\* WithheldRedelivered), a publication the broker holds is confirmed in the end
\* unless the process is left switched off.
Saturated == loopq # <<>> /\ Len(queue) = QueueSize

WithheldUnheard == InPhase("failed") /\ requested /\ session = "open" /\ ~closing

EventuallyReleased ==
    <>[]~Saturated /\ []~WithheldUnheard =>
        \A m \in Msg : m \in routed ~> m \in released \/ mode = "off"

\* client.py:686-688 "a withheld message must actively trigger that drop, once
\* per session": no delivery stays stranded in a session that lives on.
WithheldRedelivered == \A m \in Msg : Stranded(m) ~> ~Stranded(m)

\* client.py:216 "persistent session: QoS 1 survives a restart": once the
\* backend has subscribed, whatever a device publishes is held for it.
NothingMissed == missed = {}

\* The abstract promise, with a reading announced once it was broadcast.
Abs == INSTANCE ReliableIngest WITH
           announced <- {k \in Keys : events[k] > 0}

\* The detailed protocol keeps the promise of ReliableIngest.
Implements == Abs!Spec
===============================================================================
