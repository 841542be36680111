---------------------------- MODULE EventHubProofs ----------------------------
(***************************************************************************)
(* Proofs about EventHub, for any number of connections, devices and       *)
(* events and any size of the queues: type correctness, the cap on         *)
(* connections, that a slot is released once, and that no subscriber       *)
(* misses an event.                                                        *)
(*                                                                         *)
(* The properties need each other.  A slot is counted once only because an *)
(* endpoint holds it in the phases between subscribe() and unsubscribe();  *)
(* a subscriber starts level with what is published only because nothing   *)
(* was queued for it before; and its queue never hides a hole only because *)
(* the dispatch that finds it full unregisters it in the same step.        *)
(***************************************************************************)
EXTENDS EventHub, FiniteSetTheorems, SequenceTheorems, TLAPS

\* The phases between subscribe() and unsubscribe().
Holding == {"accepting", "aborted", "pumping", "leaving"}

\* A slot belongs to an endpoint that still has to give it back.
SlotsHeld == \A c \in registered : phase[c] \in Holding /\ Wants[c] \in known

\* Nothing is queued before subscribe().
QuietBefore == \A c \in Clients : phase[c] \in {"new", "lookup"} => queue[c] = <<>>

Inv ==
    /\ TypeOK
    /\ IsFiniteSet(registered)
    /\ CapHeld
    /\ CountedOnce
    /\ SlotsHeld
    /\ QuietBefore
    /\ NothingSkipped

-------------------------------------------------------------------------------
(* The steps that leave the slots and the queues alone *)

LEMMA InitInv == Init => Inv
<1> SUFFICES ASSUME Init PROVE Inv
  OBVIOUS
<1>1. IsFiniteSet(registered) /\ Cardinality(registered) = 0
  BY FS_EmptySet DEF Init
<1>2. TypeOK
  <2>1. \A c \in Clients : <<>> \in Seq(1..MaxEvents) /\ Len(<<>>) = 0
    OBVIOUS
  <2>2. queue \in [Clients -> Seq(1..MaxEvents)] /\ \A c \in Clients : Len(queue[c]) <= QueueSize
    BY <2>1, SizesAssumption DEF Init
  <2> QED
    BY <2>2, SizesAssumption DEF Init, TypeOK, Codes
<1>3. CapHeld /\ CountedOnce
  BY <1>1, SizesAssumption DEF Init, CapHeld, CountedOnce
<1>4. SlotsHeld /\ QuietBefore /\ NothingSkipped
  BY DEF Init, SlotsHeld, QuietBefore, NothingSkipped
<1> QED
  BY <1>1, <1>2, <1>3, <1>4 DEF Inv

\* The endpoint moves on; hub, queues and devices stay.
Steps(c) == Connect(c) \/ GivesUp(c) \/ Accepted(c) \/ AcceptFails(c)
              \/ SendEnds(c) \/ ClientLeaves(c) \/ PumpEnds(c)

LEMMA EndpointInv == ASSUME Inv, NEW c \in Clients, Steps(c) PROVE Inv'
<1>1. UNCHANGED <<registered, queue, opened, closedCount, known, published, last>>
  BY DEF Steps, Connect, GivesUp, Accepted, AcceptFails, SendEnds, ClientLeaves, PumpEnds,
         hubVars, endpointVars, worldVars
<1>2. TypeOK'
  BY DEF Inv, TypeOK, Codes, Steps, Connect, GivesUp, Accepted, AcceptFails, SendEnds,
         ClientLeaves, PumpEnds, Goes, hubVars, endpointVars, worldVars
<1>3. /\ \A d \in Clients \ {c} : phase'[d] = phase[d]
      /\ phase[c] \in Holding => phase'[c] \in Holding
      /\ phase[c] \notin {"new", "lookup"} => phase'[c] \notin {"new", "lookup"}
  BY DEF Inv, TypeOK, Holding, Steps, Connect, GivesUp, Accepted, AcceptFails, SendEnds,
         ClientLeaves, PumpEnds, Goes, endpointVars
<1>4. SlotsHeld'
  BY <1>1, <1>3 DEF Inv, TypeOK, SlotsHeld
<1>5. QuietBefore'
  BY <1>1, <1>3 DEF Inv, QuietBefore
<1>6. CapHeld' /\ CountedOnce' /\ NothingSkipped' /\ IsFiniteSet(registered')
  BY <1>1 DEF Inv, CapHeld, CountedOnce, NothingSkipped
<1> QED
  BY <1>2, <1>4, <1>5, <1>6 DEF Inv

LEMMA AppearsInv == ASSUME Inv, NEW d \in Devices, DeviceAppears(d) PROVE Inv'
<1>1. UNCHANGED <<hubVars, endpointVars, gone, published, last>> /\ known' = known \cup {d}
  BY DEF DeviceAppears
<1>2. TypeOK'
  BY <1>1 DEF Inv, TypeOK, hubVars, endpointVars
<1> QED
  BY <1>1, <1>2 DEF Inv, CapHeld, CountedOnce, SlotsHeld, QuietBefore, NothingSkipped, hubVars,
                    endpointVars

-------------------------------------------------------------------------------
(* The steps of the hub *)

\* subscribe() takes a slot that was free and starts level with the device.
LEMMA LookupInv == ASSUME Inv, NEW c \in Clients, LookupEnds(c) PROVE Inv'
<1>1. UNCHANGED <<queue, dropped, closed, closedCount, sender, known, gone, published>>
  BY DEF LookupEnds
<1>2. phase[c] = "lookup" /\ c \notin registered /\ queue[c] = <<>>
  BY DEF LookupEnds, Inv, SlotsHeld, QuietBefore, Holding
<1>3. CASE UNCHANGED <<registered, opened, last>> /\ Goes(c, "rejecting")
           /\ code' \in [Clients -> Codes]
  <2>1. TypeOK'
    BY <1>1, <1>3 DEF Inv, TypeOK, Goes
  <2> QED
    BY <1>1, <1>2, <1>3, <2>1
       DEF Inv, TypeOK, CapHeld, CountedOnce, SlotsHeld, QuietBefore, NothingSkipped, Goes, Holding
<1>4. CASE /\ Wants[c] \in known /\ HasSlot /\ Goes(c, "accepting")
           /\ registered' = registered \cup {c}
           /\ opened' = opened + 1
           /\ last' = [last EXCEPT ![c] = published[Wants[c]]]
           /\ UNCHANGED code
  <2>1. /\ IsFiniteSet(registered')
        /\ Cardinality(registered') = Cardinality(registered) + 1
        /\ Cardinality(registered) \in Nat
    BY <1>2, <1>4, FS_AddElement, FS_CardinalityType DEF Inv
  <2>2. CapHeld' /\ CountedOnce'
    BY <1>1, <1>4, <2>1, SizesAssumption DEF Inv, TypeOK, CapHeld, CountedOnce, HasSlot
  <2>3. TypeOK'
    BY <1>1, <1>4 DEF Inv, TypeOK, Goes
  <2>4. SlotsHeld' /\ QuietBefore'
    BY <1>1, <1>2, <1>4 DEF Inv, TypeOK, SlotsHeld, QuietBefore, Goes, Holding
  <2>5. ASSUME NEW e \in Clients
        PROVE  /\ \A i \in 1..Len(queue'[e]) : queue'[e][i] = last'[e] + i
               /\ e \in registered' => last'[e] + Len(queue'[e]) = published'[Wants[e]]
    <3>1. CASE e = c
      <4>1. queue'[e] = <<>> /\ last'[e] = published[Wants[c]] /\ published[Wants[c]] \in Nat
        BY <1>1, <1>2, <1>4, <3>1 DEF Inv, TypeOK
      <4> QED
        BY <1>1, <3>1, <4>1
    <3>2. CASE e # c
      BY <1>1, <1>4, <3>2 DEF Inv, TypeOK, NothingSkipped
    <3> QED
      BY <3>1, <3>2
  <2> QED
    BY <2>1, <2>2, <2>3, <2>4, <2>5 DEF Inv, NothingSkipped
<1> QED
  BY <1>3, <1>4 DEF LookupEnds, Inv, TypeOK, Codes

\* Taking an event moves the border between what was taken and what is queued.
LEMMA NextEventInv == ASSUME Inv, NEW c \in Clients, NextEvent(c) PROVE Inv'
<1>1. /\ UNCHANGED <<registered, dropped, closed, opened, closedCount>>
      /\ UNCHANGED <<phase, code, known, gone, published>>
  BY DEF NextEvent
<1>2. CASE UNCHANGED <<queue, last>> /\ sender' = [sender EXCEPT ![c] = "ended"]
  BY <1>1, <1>2
     DEF Inv, TypeOK, CapHeld, CountedOnce, SlotsHeld, QuietBefore, NothingSkipped
<1>3. CASE /\ queue[c] # <<>> /\ phase[c] = "pumping"
           /\ sender' = [sender EXCEPT ![c] = "sending"]
           /\ queue' = [queue EXCEPT ![c] = Tail(@)]
           /\ last' = [last EXCEPT ![c] = Head(queue[c])]
  <2> DEFINE q == queue[c]
  <2>1. q \in Seq(1..MaxEvents) /\ q # <<>> /\ Len(q) <= QueueSize
    BY <1>3 DEF Inv, TypeOK
  <2>2. \A i \in 1..Len(q) : q[i] = last[c] + i
    BY DEF Inv, NothingSkipped
  <2>3. /\ queue'[c] = Tail(q) /\ last'[c] = Head(q)
        /\ \A e \in Clients \ {c} : queue'[e] = queue[e] /\ last'[e] = last[e]
    BY <1>3 DEF Inv, TypeOK
  <2> HIDE DEF q
  <2>4. /\ Head(q) \in 1..MaxEvents /\ Tail(q) \in Seq(1..MaxEvents)
        /\ Len(Tail(q)) = Len(q) - 1 /\ Head(q) = q[1] /\ Len(q) \in Nat \ {0}
        /\ \A i \in 1..Len(Tail(q)) : Tail(q)[i] = q[i + 1]
    <3>1. /\ Head(q) \in 1..MaxEvents /\ Tail(q) \in Seq(1..MaxEvents)
          /\ Len(Tail(q)) = Len(q) - 1
          /\ \A i \in 1..Len(Tail(q)) : Tail(q)[i] = q[i + 1]
      BY <2>1, HeadTailProperties
    <3>2. Len(q) \in Nat \ {0} /\ Head(q) = q[1]
      BY <2>1, EmptySeq, LenProperties
    <3> QED
      BY <3>1, <3>2
  <2>5. last[c] \in Nat
    BY DEF Inv, TypeOK
  <2>6. Head(q) = last[c] + 1
    BY <2>4, <2>2
  <2>7. TypeOK'
    <3>1. queue' \in [Clients -> Seq(1..MaxEvents)] /\ last' \in [Clients -> 0..MaxEvents]
      BY <1>3, <2>4 DEF Inv, TypeOK, q
    <3>2. ASSUME NEW e \in Clients PROVE Len(queue'[e]) <= QueueSize
      <4>1. CASE e = c
        BY <2>1, <2>4, <2>3, <4>1, SizesAssumption
      <4>2. CASE e # c
        BY <2>3, <4>2 DEF Inv, TypeOK
      <4> QED
        BY <4>1, <4>2
    <3> QED
      BY <1>1, <1>3, <3>1, <3>2 DEF Inv, TypeOK
  <2>8. ASSUME NEW e \in Clients
        PROVE  /\ \A i \in 1..Len(queue'[e]) : queue'[e][i] = last'[e] + i
               /\ e \in registered' => last'[e] + Len(queue'[e]) = published'[Wants[e]]
    <3>1. CASE e = c
      <4>1. \A i \in 1..Len(Tail(q)) : Tail(q)[i] = Head(q) + i
        BY <2>4, <2>2, <2>5, <2>6
      <4>2. Head(q) + Len(Tail(q)) = last[c] + Len(q)
        BY <2>4, <2>5, <2>6
      <4>3. c \in registered => last[c] + Len(q) = published[Wants[c]]
        BY DEF Inv, NothingSkipped, q
      <4> QED
        BY <1>1, <2>3, <3>1, <4>1, <4>2, <4>3
    <3>2. CASE e # c
      BY <1>1, <2>3, <3>2 DEF Inv, NothingSkipped
    <3> QED
      BY <3>1, <3>2
  <2>9. QuietBefore'
    BY <1>1, <1>3, <2>3 DEF Inv, QuietBefore
  <2> QED
    BY <1>1, <2>7, <2>8, <2>9 DEF Inv, CapHeld, CountedOnce, SlotsHeld, NothingSkipped
<1> QED
  BY <1>2, <1>3 DEF NextEvent

\* unsubscribe() gives back the slot, unless the overflow path already has.
LEMMA LeaveInv == ASSUME Inv, NEW c \in Clients, Leave(c) PROVE Inv'
<1>1. /\ UNCHANGED <<queue, dropped, opened, sender, known, gone, published, last>>
      /\ phase' = [phase EXCEPT ![c] = "done"]
      /\ registered' = registered \ {c}
      /\ closedCount' = IF c \in registered THEN closedCount + 1 ELSE closedCount
  BY DEF Leave, Unsubscribe, Goes, worldVars
<1>2. /\ IsFiniteSet(registered')
      /\ Cardinality(registered') =
            IF c \in registered THEN Cardinality(registered) - 1 ELSE Cardinality(registered)
      /\ Cardinality(registered) \in Nat
  BY <1>1, FS_RemoveElement, FS_CardinalityType DEF Inv
<1>3. CapHeld' /\ CountedOnce'
  <2>1. /\ Cardinality(registered) \in Nat /\ Cardinality(registered) <= MaxConnections
        /\ opened = closedCount + Cardinality(registered) /\ opened' = opened
        /\ opened \in Nat /\ closedCount \in Nat /\ MaxConnections \in Nat
    BY <1>1, <1>2, SizesAssumption DEF Inv, TypeOK, CapHeld, CountedOnce
  <2>2. CASE c \in registered
    BY <1>1, <1>2, <2>1, <2>2 DEF CapHeld, CountedOnce
  <2>3. CASE c \notin registered
    BY <1>1, <1>2, <2>1, <2>3 DEF CapHeld, CountedOnce
  <2> QED
    BY <2>2, <2>3
<1>4. TypeOK'
  BY <1>1 DEF Leave, Unsubscribe, Inv, TypeOK, Codes
<1>5. SlotsHeld' /\ QuietBefore' /\ NothingSkipped'
  BY <1>1 DEF Inv, TypeOK, SlotsHeld, QuietBefore, NothingSkipped
<1> QED
  BY <1>2, <1>3, <1>4, <1>5 DEF Inv

\* An event reaches every subscriber's queue, or costs a full one its slot.
LEMMA DispatchInv == ASSUME Inv, NEW d \in Devices, Dispatch(d) PROVE Inv'
<1> DEFINE subscribers == {c \in registered : Wants[c] = d}
           slow == {c \in subscribers : Full(c)}
<1>1. /\ d \in known /\ published[d] < MaxEvents
      /\ published' = [published EXCEPT ![d] = @ + 1]
      /\ queue' = [c \in Clients |-> IF c \in subscribers \ slow
                                     THEN Append(queue[c], published[d] + 1) ELSE queue[c]]
      /\ dropped' = dropped \cup slow /\ registered' = registered \ slow
      /\ closedCount' = closedCount + Cardinality(slow) /\ closed' = closed \cup slow
      /\ UNCHANGED <<opened, phase, sender, code, known, gone, last>>
  BY DEF Dispatch, Overflow, endpointVars
<1>2. slow \subseteq registered /\ registered \subseteq Clients
  BY DEF Inv, TypeOK
<1>3. /\ published[d] + 1 \in 1..MaxEvents /\ published[d] \in Nat
      /\ published' \in [Devices -> 0..MaxEvents]
      /\ published'[d] = published[d] + 1
  BY <1>1, SizesAssumption DEF Inv, TypeOK
<1>4. /\ IsFiniteSet(registered') /\ IsFiniteSet(slow)
      /\ Cardinality(registered') = Cardinality(registered) - Cardinality(slow)
      /\ Cardinality(registered) \in Nat /\ Cardinality(slow) \in Nat
  <2>1. IsFiniteSet(slow)
    BY <1>2, FS_Subset DEF Inv
  <2>2. registered \cap slow = slow
    BY <1>2
  <2> HIDE DEF slow
  <2>3. IsFiniteSet(registered)
    BY DEF Inv
  <2>4. /\ IsFiniteSet(registered \ slow)
        /\ Cardinality(registered \ slow)
              = Cardinality(registered) - Cardinality(registered \cap slow)
    BY <2>3, FS_Difference
  <2>5. Cardinality(registered) \in Nat /\ Cardinality(slow) \in Nat
    BY <2>1, <2>3, FS_CardinalityType
  <2> QED
    BY <1>1, <2>1, <2>2, <2>4, <2>5
<1>5. CapHeld' /\ CountedOnce'
  <2> HIDE DEF slow
  <2> QED
    BY <1>1, <1>4, SizesAssumption DEF Inv, TypeOK, CapHeld, CountedOnce
<1>6. ASSUME NEW c \in subscribers \ slow
      PROVE  /\ queue'[c] \in Seq(1..MaxEvents)
             /\ Len(queue'[c]) = Len(queue[c]) + 1
             /\ Len(queue'[c]) <= QueueSize
             /\ \A i \in 1..Len(queue[c]) : queue'[c][i] = queue[c][i]
             /\ queue'[c][Len(queue[c]) + 1] = published[d] + 1
  <2>1. c \in Clients /\ queue[c] \in Seq(1..MaxEvents) /\ Len(queue[c]) <= QueueSize
    BY <1>2 DEF Inv, TypeOK
  <2>2. queue'[c] = Append(queue[c], published[d] + 1)
    BY <1>1, <2>1
  <2>3. Len(queue[c]) \in Nat /\ Len(queue[c]) # QueueSize
    BY <2>1, LenProperties DEF Full
  <2>4. /\ Append(queue[c], published[d] + 1) \in Seq(1..MaxEvents)
        /\ Len(Append(queue[c], published[d] + 1)) = Len(queue[c]) + 1
        /\ \A i \in 1..Len(queue[c]) : Append(queue[c], published[d] + 1)[i] = queue[c][i]
        /\ Append(queue[c], published[d] + 1)[Len(queue[c]) + 1] = published[d] + 1
    BY <1>3, <2>1, AppendProperties
  <2> QED
    BY <2>1, <2>2, <2>3, <2>4, SizesAssumption
<1>7. ASSUME NEW c \in Clients, c \notin subscribers \ slow
      PROVE  queue'[c] = queue[c]
  BY <1>1, <1>7
<1>8. TypeOK'
  <2>1. /\ queue' \in [Clients -> Seq(1..MaxEvents)]
        /\ \A c \in Clients : Len(queue'[c]) <= QueueSize
    <3>1. \A c \in Clients : queue'[c] \in Seq(1..MaxEvents) /\ Len(queue'[c]) <= QueueSize
      BY <1>6, <1>7 DEF Inv, TypeOK
    <3>2. queue' = [c \in Clients |-> queue'[c]]
      BY <1>1
    <3> QED
      BY <3>1, <3>2
  <2>2. /\ registered' \subseteq Clients /\ dropped' \subseteq Clients /\ closed' \subseteq Clients
        /\ closedCount' \in Nat
    BY <1>1, <1>2, <1>4 DEF Inv, TypeOK
  <2> QED
    BY <1>1, <1>3, <2>1, <2>2 DEF Inv, TypeOK
<1>9. SlotsHeld'
  BY <1>1 DEF Inv, SlotsHeld
<1>10. QuietBefore'
  <2>1. \A c \in registered : phase[c] \notin {"new", "lookup"}
    BY DEF Inv, SlotsHeld, Holding
  <2> QED
    BY <1>1, <1>7, <2>1 DEF Inv, QuietBefore
<1>11. ASSUME NEW c \in Clients
       PROVE  /\ \A i \in 1..Len(queue'[c]) : queue'[c][i] = last'[c] + i
              /\ c \in registered' => last'[c] + Len(queue'[c]) = published'[Wants[c]]
  <2>1. /\ \A i \in 1..Len(queue[c]) : queue[c][i] = last[c] + i
        /\ c \in registered => last[c] + Len(queue[c]) = published[Wants[c]]
        /\ last'[c] = last[c] /\ last[c] \in Nat
        /\ Len(queue[c]) \in Nat
    BY <1>1, LenProperties DEF Inv, TypeOK, NothingSkipped
  <2>2. CASE c \in subscribers \ slow
    <3>1. c \in registered /\ Wants[c] = d
      BY <2>2
    <3>2. last[c] + (Len(queue[c]) + 1) = published[d] + 1
      BY <1>3, <2>1, <3>1
    <3>3. ASSUME NEW i \in 1..(Len(queue[c]) + 1)
          PROVE  queue'[c][i] = last[c] + i
      <4>1. CASE i \in 1..Len(queue[c])
        BY <1>6, <2>1, <2>2, <4>1
      <4>2. CASE i = Len(queue[c]) + 1
        BY <1>6, <2>2, <3>2, <4>2
      <4> QED
        BY <2>1, <4>1, <4>2
    <3> QED
      BY <1>3, <1>6, <2>1, <2>2, <3>1, <3>2, <3>3
  <2>3. CASE c \notin subscribers \ slow
    <3>1. c \in registered' => c \in registered /\ Wants[c] # d
      BY <1>1, <2>3
    <3>2. c \in registered' => published'[Wants[c]] = published[Wants[c]]
      BY <1>1, <3>1 DEF Inv, TypeOK, SlotsHeld
    <3> QED
      BY <1>7, <2>1, <2>3, <3>1, <3>2
  <2> QED
    BY <2>2, <2>3
<1> QED
  BY <1>4, <1>5, <1>8, <1>9, <1>10, <1>11 DEF Inv, NothingSkipped

LEMMA NextInv == ASSUME Inv, [Next]_vars PROVE Inv'
<1>1. CASE \E c \in Clients : Steps(c)
  BY <1>1, EndpointInv
<1>2. CASE \E c \in Clients : LookupEnds(c) \/ NextEvent(c) \/ Leave(c)
  BY <1>2, LookupInv, NextEventInv, LeaveInv
<1>3. CASE \E d \in Devices : DeviceAppears(d) \/ Dispatch(d)
  BY <1>3, AppearsInv, DispatchInv
<1>4. CASE UNCHANGED vars
  BY <1>4 DEF vars, hubVars, endpointVars, worldVars, Inv, TypeOK, CapHeld, CountedOnce,
              SlotsHeld, QuietBefore, NothingSkipped
<1> QED
  BY <1>1, <1>2, <1>3, <1>4 DEF Next, Steps

LEMMA Invariance == Spec => []Inv
  BY InitInv, NextInv, PTL DEF Spec

-------------------------------------------------------------------------------

\* Every variable of the hub and its endpoints has its type, and no queue ever
\* exceeds its size (hub.py:141).
THEOREM HubTyped == Spec => []TypeOK
<1>1. Inv => TypeOK
  BY DEF Inv
<1> QED
  BY <1>1, Invariance, PTL

\* The cap on connections holds, however many lookups were in flight together
\* (websocket.py:125).
THEOREM CapNeverExceeded == Spec => []CapHeld
<1>1. Inv => CapHeld
  BY DEF Inv
<1> QED
  BY <1>1, Invariance, PTL

\* A slot is counted as closed once, by the overflow path or by the endpoint.
THEOREM SlotReleasedOnce == Spec => []CountedOnce
<1>1. Inv => CountedOnce
  BY DEF Inv
<1> QED
  BY <1>1, Invariance, PTL

\* A subscriber sees every event from its subscription on, in order, and holds
\* the slot for exactly as long as it does (hub.py:139).
THEOREM StreamUnbroken == Spec => []NothingSkipped
<1>1. Inv => NothingSkipped
  BY DEF Inv
<1> QED
  BY <1>1, Invariance, PTL
===============================================================================
