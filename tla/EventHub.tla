------------------------------- MODULE EventHub -------------------------------
(***************************************************************************)
(* The WebSocket fan-out: EventHub with its bounded queue per subscription,*)
(* and the endpoint that owns a subscription from subscribe() to           *)
(* unsubscribe().  Everything runs on the application loop; a step is what *)
(* one coroutine does between two awaits.                                  *)
(*                                                                         *)
(* Events of a device are numbered from 1.  External: the ASGI server,     *)
(* whose accept(), send() and receive() end well, raise, or report that the*)
(* client has gone.                                                        *)
(***************************************************************************)
EXTENDS Naturals, Sequences, FiniteSets

CONSTANTS
    Clients,         \* connections, each made once
    Devices,         \* well-formed device ids
    Wants,           \* the id each connection asks for; malformed if not in Devices
    MaxConnections,  \* settings.ws_max_connections
    QueueSize,       \* settings.ws_queue_size
    MaxEvents        \* bound: events published per device

ASSUME ClientsAssumption == IsFiniteSet(Clients) /\ DOMAIN Wants = Clients
ASSUME SizesAssumption ==
    /\ MaxConnections \in Nat \ {0}
    /\ QueueSize \in Nat \ {0}
    /\ MaxEvents \in Nat

VARIABLES
  (* the hub *)
    registered,  \* subscriptions in _subscriptions
    queue,       \* Subscription.queue
    dropped,     \* Subscription.dropped
    closed,      \* Subscription.closed is set
    opened, closedCount,  \* HubCounters.opened and closed
  (* the endpoint *)
    phase,       \* new, lookup, rejecting, accepting, aborted, pumping, leaving, done
    sender,      \* _send_loop: idle (in next_event), sending, ended, failed
    code,        \* close code given: none, "1000", "1013", "4400", "4404"
  (* the world *)
    known,       \* devices with a row
    gone,        \* clients that went away
    published,   \* events published per device
    last         \* last event each _send_loop took from its queue

hubVars == <<registered, queue, dropped, closed, opened, closedCount>>
endpointVars == <<phase, sender, code>>
worldVars == <<known, gone, published, last>>
vars == <<hubVars, endpointVars, worldVars>>

Codes == {"none", "1000", "1013", "4400", "4404"}

TypeOK ==
    /\ registered \subseteq Clients /\ dropped \subseteq Clients
    /\ closed \subseteq Clients /\ gone \subseteq Clients
    /\ queue \in [Clients -> Seq(1..MaxEvents)]
    /\ \A c \in Clients : Len(queue[c]) <= QueueSize
    /\ opened \in Nat /\ closedCount \in Nat
    /\ phase \in [Clients -> {"new", "lookup", "rejecting", "accepting", "aborted",
                              "pumping", "leaving", "done"}]
    /\ sender \in [Clients -> {"idle", "sending", "ended", "failed"}]
    /\ code \in [Clients -> Codes]
    /\ known \subseteq Devices
    /\ published \in [Devices -> 0..MaxEvents]
    /\ last \in [Clients -> 0..MaxEvents]

Init ==
    /\ registered = {} /\ dropped = {} /\ closed = {} /\ gone = {} /\ known = {}
    /\ queue = [c \in Clients |-> <<>>]
    /\ opened = 0 /\ closedCount = 0
    /\ phase = [c \in Clients |-> "new"]
    /\ sender = [c \in Clients |-> "idle"]
    /\ code = [c \in Clients |-> "none"]
    /\ published = [d \in Devices |-> 0]
    /\ last = [c \in Clients |-> 0]

Goes(c, p) == phase' = [phase EXCEPT ![c] = p]

-------------------------------------------------------------------------------
(* Connecting *)

\* device_stream up to its first await: a malformed id is refused at once, a
\* well-formed one is looked up on a worker thread.
Connect(c) ==
    /\ phase[c] = "new"
    /\ IF Wants[c] \in Devices
       THEN Goes(c, "lookup") /\ UNCHANGED code
       ELSE Goes(c, "rejecting") /\ code' = [code EXCEPT ![c] = "4400"]
    /\ UNCHANGED <<hubVars, sender, worldVars>>

\* MUTANT: the cap was checked before the lookup, not when registering.
HasSlotAlways == TRUE

\* subscribe() enforces the cap before it registers.
HasSlot == Cardinality(registered) < MaxConnections

\* The lookup answers.  The verdict and subscribe() share one step.
LookupEnds(c) ==
    /\ phase[c] = "lookup"
    /\ \/ /\ Wants[c] \notin known
          /\ Goes(c, "rejecting") /\ code' = [code EXCEPT ![c] = "4404"]
          /\ UNCHANGED <<registered, opened, last>>
       \/ /\ Wants[c] \in known /\ ~HasSlot
          /\ Goes(c, "rejecting") /\ code' = [code EXCEPT ![c] = "1013"]
          /\ UNCHANGED <<registered, opened, last>>
       \/ /\ Wants[c] \in known /\ HasSlot
          /\ Goes(c, "accepting")
          /\ registered' = registered \cup {c}
          /\ opened' = opened + 1
          /\ last' = [last EXCEPT ![c] = published[Wants[c]]]
          /\ UNCHANGED code
    /\ UNCHANGED <<queue, dropped, closed, closedCount, sender, known, gone, published>>

\* The lookup raises, or the handshake of a rejection ends one way or another.
GivesUp(c) ==
    /\ phase[c] \in {"lookup", "rejecting"}
    /\ Goes(c, "done")
    /\ UNCHANGED <<hubVars, sender, code, worldVars>>

\* accept() returns and the pump starts.
Accepted(c) ==
    /\ phase[c] = "accepting"
    /\ Goes(c, "pumping")
    /\ UNCHANGED <<hubVars, sender, code, worldVars>>

\* accept() raises, or is cancelled, before the try block is entered.
AcceptFails(c) ==
    /\ phase[c] = "accepting"
    /\ Goes(c, "aborted")
    /\ UNCHANGED <<hubVars, sender, code, worldVars>>

-------------------------------------------------------------------------------
(* The pump: _send_loop and _watch_client race. *)

\* next_event(): a buffered event first, and only then the close.
NextEvent(c) ==
    /\ phase[c] = "pumping" /\ sender[c] = "idle"
    /\ \/ /\ queue[c] # <<>>
          /\ sender' = [sender EXCEPT ![c] = "sending"]
          /\ queue' = [queue EXCEPT ![c] = Tail(@)]
          /\ last' = [last EXCEPT ![c] = Head(queue[c])]
       \/ /\ queue[c] = <<>> /\ c \in closed
          /\ sender' = [sender EXCEPT ![c] = "ended"]
          /\ UNCHANGED <<queue, last>>
    /\ UNCHANGED <<registered, dropped, closed, opened, closedCount>>
    /\ UNCHANGED <<phase, code, known, gone, published>>

\* send_json() returns, or raises because the peer is gone or too slow to answer
\* a ping.
SendEnds(c) ==
    /\ sender[c] = "sending" /\ phase[c] = "pumping"
    /\ \E outcome \in {"idle", "failed"} : sender' = [sender EXCEPT ![c] = outcome]
    /\ UNCHANGED <<hubVars, phase, code, worldVars>>

ClientLeaves(c) ==
    /\ phase[c] \in {"accepting", "pumping"}
    /\ gone' = gone \cup {c}
    /\ UNCHANGED <<hubVars, endpointVars, known, published, last>>

\* MUTANT: nobody watches an idle client.
PumpOverWithoutWatcher(c) == sender[c] \in {"ended", "failed"}

\* The first of the two tasks to end, ends the pump.
PumpOver(c) == sender[c] \in {"ended", "failed"} \/ c \in gone

PumpEnds(c) ==
    /\ phase[c] = "pumping"
    /\ PumpOver(c)
    /\ Goes(c, "leaving")
    /\ UNCHANGED <<hubVars, sender, code, worldVars>>

\* MUTANT: a slot the overflow path released is released again.
UnsubscribeTwice(c) ==
    /\ closed' = closed \cup {c}
    /\ registered' = registered \ {c}
    /\ closedCount' = closedCount + 1

\* unsubscribe(), idempotent with the overflow path.
Unsubscribe(c) ==
    /\ closed' = closed \cup {c}
    /\ registered' = registered \ {c}
    /\ closedCount' = IF c \in registered THEN closedCount + 1 ELSE closedCount

\* The finally block of device_stream.
Leave(c) ==
    /\ phase[c] = "leaving"
    /\ Goes(c, "done")
    /\ Unsubscribe(c)
    /\ code' = [code EXCEPT ![c] = IF c \in dropped THEN "1013" ELSE "1000"]
    /\ UNCHANGED <<queue, dropped, opened, sender, worldVars>>

-------------------------------------------------------------------------------
(* Publishing *)

\* Ingestion commits the first reading or status of a device.
DeviceAppears(d) ==
    /\ known' = known \cup {d}
    /\ UNCHANGED <<hubVars, endpointVars, gone, published, last>>

Full(c) == Len(queue[c]) = QueueSize

\* MUTANT: an event that finds the queue full is skipped, its client kept.
OverflowSkips(slow) == UNCHANGED <<dropped, closed, registered, closedCount>>

\* MUTANT: the overflow marks and unregisters but wakes nobody.
OverflowSilently(slow) ==
    /\ dropped' = dropped \cup slow
    /\ registered' = registered \ slow
    /\ closedCount' = closedCount + Cardinality(slow)
    /\ UNCHANGED closed

\* A client whose queue is full is marked, unregistered and woken.
Overflow(slow) ==
    /\ dropped' = dropped \cup slow
    /\ registered' = registered \ slow
    /\ closedCount' = closedCount + Cardinality(slow)
    /\ closed' = closed \cup slow

\* _dispatch: to every subscriber of the device, without waiting for any.
Dispatch(d) ==
    /\ d \in known
    /\ published[d] < MaxEvents
    /\ published' = [published EXCEPT ![d] = @ + 1]
    /\ LET subscribers == {c \in registered : Wants[c] = d}
           slow == {c \in subscribers : Full(c)}
       IN  /\ queue' = [c \in Clients |->
                           IF c \in subscribers \ slow
                           THEN Append(queue[c], published[d] + 1) ELSE queue[c]]
           /\ Overflow(slow)
    /\ UNCHANGED <<opened, endpointVars, known, gone, last>>

-------------------------------------------------------------------------------
Next == \/ \E c \in Clients :
              \/ Connect(c) \/ LookupEnds(c) \/ GivesUp(c)
              \/ Accepted(c) \/ AcceptFails(c)
              \/ NextEvent(c) \/ SendEnds(c) \/ ClientLeaves(c)
              \/ PumpEnds(c) \/ Leave(c)
        \/ \E d \in Devices : DeviceAppears(d) \/ Dispatch(d)

Spec == Init /\ [][Next]_vars

\* Coroutines that are ready run, and the server ends every handshake and every
\* send: a peer that answers no ping is dropped by it.  Nobody has to publish,
\* to connect or to leave.
Fairness ==
    \A c \in Clients :
        /\ WF_vars(LookupEnds(c) \/ GivesUp(c))
        /\ WF_vars(Accepted(c) \/ AcceptFails(c))
        /\ WF_vars(NextEvent(c)) /\ WF_vars(SendEnds(c))
        /\ WF_vars(PumpEnds(c)) /\ WF_vars(Leave(c))

FairSpec == Spec /\ Fairness

-------------------------------------------------------------------------------
(* Properties *)

\* The cap holds although the lookup lies between the request and subscribe().
CapHeld == Cardinality(registered) <= MaxConnections

\* opened - closed is the number of slots in use, although a slot may be
\* released by the overflow path, by the endpoint, or by both in either order.
CountedOnce == opened = closedCount + Cardinality(registered)

\* A subscriber misses nothing: what it took and what its queue holds are all
\* the events since it subscribed, in order.  A client that is too slow loses
\* its connection, never an event in the middle, and costs nobody else one.
NothingSkipped ==
    \A c \in Clients :
        /\ \A i \in 1..Len(queue[c]) : queue[c][i] = last[c] + i
        /\ c \in registered => last[c] + Len(queue[c]) = published[Wants[c]]

\* hub.py "it would stay parked on an empty-queue await": a dropped client is
\* sent its close frame, whatever its pump was waiting for.
DroppedIsClosed ==
    \A c \in Clients : c \in dropped /\ phase[c] = "pumping" ~> phase[c] = "done"

\* A client that goes away while idle gives its slot back.
GoneIsReleased ==
    \A c \in Clients : c \in gone /\ phase[c] = "pumping" ~> c \notin registered

\* hub.py:118 "Always called from a finally block, so a slot is never leaked":
\* no slot outlives the endpoint that took it.
SlotsReleased ==
    \A c \in Clients : phase[c] \in {"aborted", "done"} => c \notin registered
===============================================================================
