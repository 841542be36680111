--------------------------- MODULE FirmwareProofs ---------------------------
(***************************************************************************)
(* Proofs about the firmware of the node.                                  *)
(*                                                                         *)
(* FirmwareUplink, for every capacity of the queue, any number of          *)
(* publishes per pass and any number of failures: type correctness, the    *)
(* status before any telemetry in every session, and that every reading    *)
(* that is lost was counted.  Two facts carry the argument.  The flag      *)
(* statusPublished speaks of the session the broker has: it never survives *)
(* one.  And the queue holds no reading twice, so that one leaves it       *)
(* exactly when it is delivered or dropped; a failed publish popped first, *)
(* so that putting back drops nothing.                                     *)
(*                                                                         *)
(* FirmwareTiming, for every width of millis(), every interval and every   *)
(* bounded wait that TimingAssumption admits: the energy total is what was *)
(* measured, and retries, samples and the panel keep their time.  Every    *)
(* variable that holds a reading of millis() holds the time of an event    *)
(* cut to its width, so a difference of two is right while the events are  *)
(* less than a wrap apart.  The invariant says how far apart they can be:  *)
(* each thing a pass sees to is at most the wait of the last pass late,    *)
(* until the pass has come to it.                                          *)
(***************************************************************************)
EXTENDS FirmwareUplink, FirmwareTiming, FiniteSetTheorems, SequenceTheorems, TLAPS

-------------------------------------------------------------------------------
(* The uplink *)

Elements(q) == {q[i] : i \in 1..Len(q)}

Distinct(q) == \A i, j \in 1..Len(q) : q[i] = q[j] => i = j

Readings == 1..MaxSeq

\* The flag is about the present session.
FlagTrue == statusPublished => told

Inv == /\ TypeOK
       /\ InQueue \subseteq taken
       /\ FlagTrue
       /\ StatusFirst
       /\ LossIsCounted

-----------------------------------------------------------------------------
(* What the operations of the queue do to its elements *)

LEMMA TailElements ==
  ASSUME NEW S, NEW q \in Seq(S), q # <<>>, Distinct(q)
  PROVE  /\ Head(q) \in S /\ Tail(q) \in Seq(S)
         /\ Len(q) \in Nat \ {0} /\ Len(Tail(q)) = Len(q) - 1
         /\ Distinct(Tail(q))
         /\ Elements(q) = {Head(q)} \cup Elements(Tail(q))
         /\ Head(q) \notin Elements(Tail(q))
<1>1. /\ Head(q) \in S /\ Tail(q) \in Seq(S)
      /\ Len(Tail(q)) = Len(q) - 1
      /\ \A i \in 1..Len(Tail(q)) : Tail(q)[i] = q[i + 1]
  BY HeadTailProperties
<1>2. Len(q) \in Nat \ {0} /\ Head(q) = q[1]
  BY EmptySeq, LenProperties
<1>3. Distinct(Tail(q)) /\ Head(q) \notin Elements(Tail(q))
  BY <1>1, <1>2 DEF Distinct, Elements
<1>4. ASSUME NEW i \in 1..Len(q)
      PROVE  q[i] \in {Head(q)} \cup Elements(Tail(q))
  <2>1. CASE i = 1
    BY <1>2, <2>1
  <2>2. CASE i # 1
    <3>1. i - 1 \in 1..Len(Tail(q)) /\ Tail(q)[i - 1] = q[i]
      BY <1>1, <1>2, <2>2
    <3> QED
      BY <3>1 DEF Elements
  <2> QED
    BY <2>1, <2>2
<1>5. {Head(q)} \cup Elements(Tail(q)) \subseteq Elements(q)
  BY <1>1, <1>2 DEF Elements
<1> QED
  BY <1>1, <1>2, <1>3, <1>4, <1>5 DEF Elements

LEMMA AppendElements ==
  ASSUME NEW S, NEW q \in Seq(S), NEW x \in S, Distinct(q), x \notin Elements(q)
  PROVE  /\ Append(q, x) \in Seq(S)
         /\ Len(Append(q, x)) = Len(q) + 1
         /\ Distinct(Append(q, x))
         /\ Elements(Append(q, x)) = Elements(q) \cup {x}
<1> DEFINE r == Append(q, x)
<1>1. /\ r \in Seq(S) /\ Len(r) = Len(q) + 1 /\ Len(q) \in Nat
      /\ \A i \in 1..Len(q) : r[i] = q[i]
      /\ r[Len(q) + 1] = x
  BY AppendProperties, LenProperties
<1> HIDE DEF r
<1>2. Distinct(r)
  BY <1>1 DEF Distinct, Elements
<1>3. Elements(r) = Elements(q) \cup {x}
  <2>1. Elements(r) \subseteq Elements(q) \cup {x}
    BY <1>1 DEF Elements
  <2>2. Elements(q) \subseteq Elements(r)
    BY <1>1 DEF Elements
  <2>3. x \in Elements(r)
    BY <1>1 DEF Elements
  <2> QED
    BY <2>1, <2>2, <2>3
<1> QED
  BY <1>1, <1>2, <1>3 DEF r

\* A push adds its item; on a full queue one other reading goes, and is counted.
LEMMA PushElements ==
  ASSUME NEW q \in Seq(Readings), Distinct(q), Len(q) <= QueueCapacity,
         NEW x \in Readings, x \notin Elements(q),
         droppedCount \in Nat, Push(q, x)
  PROVE  /\ queue' \in Seq(Readings) /\ Distinct(queue') /\ Len(queue') <= QueueCapacity
         /\ \/ /\ Elements(queue') = Elements(q) \cup {x}
               /\ droppedCount' = droppedCount
            \/ /\ Len(q) = QueueCapacity
               /\ droppedCount' = droppedCount + 1
               /\ \E h \in Elements(q) : Elements(queue') = (Elements(q) \ {h}) \cup {x}
<1> USE SizesAssumption
<1>0. Len(q) \in Nat
  BY LenProperties
<1>1. CASE ~Full(q)
  BY <1>0, <1>1, AppendElements DEF Push, Full
<1>2. CASE Full(q)
  <2>1. q # <<>>
    BY <1>2, EmptySeq DEF Full
  <2>2. /\ Tail(q) \in Seq(Readings) /\ Len(Tail(q)) = Len(q) - 1
        /\ Distinct(Tail(q))
        /\ Elements(q) = {Head(q)} \cup Elements(Tail(q))
        /\ Head(q) \notin Elements(Tail(q))
    BY <2>1, TailElements
  <2>3. queue' = Append(Tail(q), x) /\ droppedCount' = droppedCount + 1
    BY <1>2 DEF Push
  <2>6. x \notin Elements(Tail(q))
    BY <2>2
  <2>4. /\ queue' \in Seq(Readings) /\ Len(queue') = Len(Tail(q)) + 1
        /\ Distinct(queue') /\ Elements(queue') = Elements(Tail(q)) \cup {x}
    <3> DEFINE t == Tail(q)
    <3>1. t \in Seq(Readings) /\ Distinct(t) /\ x \notin Elements(t)
      BY <2>2, <2>6
    <3> HIDE DEF t
    <3>2. /\ Append(t, x) \in Seq(Readings) /\ Len(Append(t, x)) = Len(t) + 1
          /\ Distinct(Append(t, x)) /\ Elements(Append(t, x)) = Elements(t) \cup {x}
      BY <3>1, AppendElements
    <3> QED
      BY <2>3, <3>2 DEF t
  <2>5. Elements(queue') = (Elements(q) \ {Head(q)}) \cup {x} /\ Head(q) \in Elements(q)
    BY <2>2, <2>4
  <2> QED
    BY <1>0, <1>2, <2>2, <2>3, <2>4, <2>5 DEF Full
<1> QED
  BY <1>1, <1>2

-----------------------------------------------------------------------------
(* The invariant *)

Lost == taken \ (delivered \cup InQueue)

LEMMA TakenFinite == TypeOK => IsFiniteSet(taken) /\ IsFiniteSet(Lost)
<1>1. ASSUME TypeOK PROVE IsFiniteSet(taken)
  <2>1. taken \subseteq 1..lastQueuedSeq /\ lastQueuedSeq \in Int
    BY <1>1, SizesAssumption DEF TypeOK
  <2>2. IsFiniteSet(1..lastQueuedSeq)
    BY <2>1, FS_Interval
  <2> QED
    BY <2>1, <2>2, FS_Subset
<1> QED
  BY <1>1, FS_Subset DEF Lost

\* Losing nothing new, or one reading that was counted, keeps LossIsCounted.
LEMMA LossStep ==
  ASSUME TypeOK, LossIsCounted,
         \/ Lost' \subseteq Lost /\ droppedCount' = droppedCount
         \/ /\ \E h : Lost' \subseteq Lost \cup {h}
            /\ droppedCount' = droppedCount + 1
  PROVE  LossIsCounted'
<1>1. IsFiniteSet(Lost) /\ Cardinality(Lost) \in Nat /\ Cardinality(Lost) <= droppedCount
  BY TakenFinite, FS_CardinalityType DEF LossIsCounted, Lost
<1>2. droppedCount \in Nat
  BY DEF TypeOK
<1>3. LossIsCounted' <=> Cardinality(Lost') <= droppedCount'
  BY DEF LossIsCounted, Lost
<1>4. CASE Lost' \subseteq Lost /\ droppedCount' = droppedCount
  <2>1. Cardinality(Lost') \in Nat /\ Cardinality(Lost') <= Cardinality(Lost)
    BY <1>1, <1>4, FS_Subset, FS_CardinalityType
  <2> QED
    BY <1>1, <1>2, <1>3, <1>4, <2>1
<1>5. ASSUME NEW h, Lost' \subseteq Lost \cup {h}, droppedCount' = droppedCount + 1
      PROVE  LossIsCounted'
  <2>1. /\ IsFiniteSet(Lost \cup {h})
        /\ Cardinality(Lost \cup {h}) \in Nat
        /\ Cardinality(Lost \cup {h}) <= Cardinality(Lost) + 1
    BY <1>1, FS_AddElement, FS_CardinalityType
  <2>2. Cardinality(Lost') \in Nat /\ Cardinality(Lost') <= Cardinality(Lost \cup {h})
    BY <1>5, <2>1, FS_Subset, FS_CardinalityType
  <2> QED
    BY <1>1, <1>2, <1>3, <1>5, <2>1, <2>2
<1> QED
  BY <1>4, <1>5

\* Where the queue, what was taken and what was delivered stay, so does what is lost.
LEMMA QueueUntouched ==
  ASSUME Inv, UNCHANGED <<queueVars, delivered>>
  PROVE  InQueue' \subseteq taken' /\ LossIsCounted'
BY DEF Inv, queueVars, InQueue, LossIsCounted

LEMMA ElementsOfQueue == InQueue = Elements(queue) /\ InQueue' = Elements(queue')
BY DEF InQueue, Elements

LEMMA EnqueueKeeps == Inv /\ EnqueueTelemetry => Inv'
<1> SUFFICES ASSUME Inv, EnqueueTelemetry PROVE Inv'
  OBVIOUS
<1> USE SizesAssumption
<1>1. /\ TypeOK /\ queue \in Seq(Readings) /\ Distinct(queue) /\ Len(queue) <= QueueCapacity
      /\ droppedCount \in Nat
  BY DEF Inv, TypeOK, Readings, Distinct
<1>2. lastValid \in Readings /\ lastQueuedSeq < lastValid /\ lastQueuedSeq \in Nat
  BY DEF Inv, TypeOK, Readings, EnqueueTelemetry
<1>3. lastValid \notin taken /\ lastValid \notin Elements(queue)
  BY <1>2, ElementsOfQueue DEF Inv, TypeOK
<1>4. /\ queue' \in Seq(Readings) /\ Distinct(queue') /\ Len(queue') <= QueueCapacity
      /\ \/ /\ Elements(queue') = Elements(queue) \cup {lastValid}
            /\ droppedCount' = droppedCount
         \/ /\ droppedCount' = droppedCount + 1
            /\ \E h \in Elements(queue) :
                  Elements(queue') = (Elements(queue) \ {h}) \cup {lastValid}
  BY <1>1, <1>2, <1>3, PushElements DEF EnqueueTelemetry
<1>5. taken' = taken \cup {lastValid} /\ delivered' = delivered
  BY DEF EnqueueTelemetry, brokerVars
<1>6. InQueue' \subseteq taken'
  BY <1>4, <1>5, ElementsOfQueue DEF Inv
<1>7. TypeOK'
  <2>4. lastQueuedSeq' = lastValid /\ lastValid' = lastValid /\ lastValid \in Nat
    BY <1>2 DEF EnqueueTelemetry, readVars, Readings
  <2>5. delivered \subseteq taken /\ taken \subseteq 1..lastQueuedSeq
    BY <1>1 DEF TypeOK
  <2>1. taken' \subseteq 1..lastQueuedSeq' /\ delivered' \subseteq taken'
    BY <1>2, <1>5, <2>4, <2>5 DEF Readings
  <2>2. lastQueuedSeq' \in 0..lastValid' /\ droppedCount' \in Nat
    BY <1>1, <1>4, <2>4
  <2>3. UNCHANGED <<sent, wifiVars, link, mqttVars, tcp, readVars, brokerVars, faults>> /\ at' = "drain"
    BY DEF EnqueueTelemetry
  <2> QED
    BY <1>1, <1>4, <2>1, <2>2, <2>3
       DEF TypeOK, Distinct, Readings, wifiVars, mqttVars, readVars, brokerVars
<1>8. LossIsCounted'
  <2>1. CASE /\ Elements(queue') = Elements(queue) \cup {lastValid}
             /\ droppedCount' = droppedCount
    <3>1. Lost' \subseteq Lost
      BY <1>5, <2>1, ElementsOfQueue DEF Lost
    <3> QED
      BY <2>1, <3>1, LossStep DEF Inv
  <2>2. ASSUME NEW h \in Elements(queue), droppedCount' = droppedCount + 1,
               Elements(queue') = (Elements(queue) \ {h}) \cup {lastValid}
        PROVE  LossIsCounted'
    <3>1. Lost' \subseteq Lost \cup {h}
      BY <1>5, <2>2, ElementsOfQueue DEF Lost
    <3> QED
      BY <2>2, <3>1, LossStep DEF Inv
  <2> QED
    BY <1>4, <2>1, <2>2
<1>9. FlagTrue' /\ StatusFirst'
  BY DEF Inv, FlagTrue, StatusFirst, EnqueueTelemetry, mqttVars, brokerVars
<1> QED
  BY <1>6, <1>7, <1>8, <1>9 DEF Inv

LEMMA SuccessKeeps == Inv /\ PublishSucceeds => Inv'
<1> SUFFICES ASSUME Inv, PublishSucceeds PROVE Inv'
  OBVIOUS
<1> USE SizesAssumption
<1>1. queue \in Seq(Readings) /\ queue # <<>> /\ Distinct(queue) /\ Len(queue) <= QueueCapacity
  BY DEF Inv, TypeOK, Readings, Distinct, PublishSucceeds, Publishing
<1>2. /\ Tail(queue) \in Seq(Readings) /\ Len(Tail(queue)) = Len(queue) - 1
      /\ Len(queue) \in Nat
      /\ Distinct(Tail(queue))
      /\ Elements(queue) = {Head(queue)} \cup Elements(Tail(queue))
  BY <1>1, TailElements
<1>3. /\ queue' = Tail(queue) /\ delivered' = delivered \cup {Head(queue)}
      /\ taken' = taken /\ droppedCount' = droppedCount /\ lastQueuedSeq' = lastQueuedSeq
  BY DEF PublishSucceeds, Arrives
<1>4. InQueue' \subseteq taken' /\ delivered' \subseteq taken'
  BY <1>2, <1>3, ElementsOfQueue DEF Inv, TypeOK
<1>5. TypeOK'
  <2>1. UNCHANGED <<at, wifiVars, link, mqttVars, tcp, readVars, told, faults>> /\ fed' = TRUE
    BY DEF PublishSucceeds, Arrives
  <2>2. at = "drain" /\ sent' \in 0..MaxPublishes
    BY DEF PublishSucceeds, Publishing, Inv, TypeOK
  <2> QED
    BY <1>1, <1>2, <1>3, <1>4, <2>1, <2>2
       DEF Inv, TypeOK, Distinct, Readings, wifiVars, mqttVars, readVars
<1>6. LossIsCounted'
  <2>1. Lost' \subseteq Lost
    BY <1>2, <1>3, ElementsOfQueue DEF Lost
  <2> QED
    BY <1>3, <2>1, LossStep DEF Inv
<1>7. FlagTrue' /\ StatusFirst'
  BY DEF Inv, FlagTrue, StatusFirst, PublishSucceeds, Publishing, Ready, mqttVars
<1> QED
  BY <1>4, <1>5, <1>6, <1>7 DEF Inv

\* The pop made room: what is put back pushes nothing out.
LEMMA FailureKeeps == Inv /\ PublishFails => Inv'
<1> SUFFICES ASSUME Inv, PublishFails PROVE Inv'
  OBVIOUS
<1> USE SizesAssumption
<1>1. /\ queue \in Seq(Readings) /\ queue # <<>> /\ Distinct(queue) /\ Len(queue) <= QueueCapacity
      /\ droppedCount \in Nat
  BY DEF Inv, TypeOK, Readings, Distinct, PublishFails, Publishing
<1>2. /\ Head(queue) \in Readings
      /\ Tail(queue) \in Seq(Readings) /\ Len(Tail(queue)) = Len(queue) - 1
      /\ Len(queue) \in Nat
      /\ Distinct(Tail(queue))
      /\ Elements(queue) = {Head(queue)} \cup Elements(Tail(queue))
      /\ Head(queue) \notin Elements(Tail(queue))
  BY <1>1, TailElements
<1>3. /\ queue' \in Seq(Readings) /\ Distinct(queue') /\ Len(queue') <= QueueCapacity
      /\ Elements(queue') = Elements(queue) /\ droppedCount' = droppedCount
  <2>4. QueueCapacity \in Nat /\ Len(queue) <= QueueCapacity
    BY <1>1
  <2>5. Len(Tail(queue)) = Len(queue) - 1 /\ Len(queue) \in Nat
    BY <1>2
  <2>1. Len(Tail(queue)) <= QueueCapacity /\ Len(Tail(queue)) # QueueCapacity
    BY <2>4, <2>5
  <2>2. Push(Tail(queue), Head(queue))
    BY DEF PublishFails, PutBack
  <2>3. /\ queue' \in Seq(Readings) /\ Distinct(queue') /\ Len(queue') <= QueueCapacity
        /\ Elements(queue') = Elements(Tail(queue)) \cup {Head(queue)}
        /\ droppedCount' = droppedCount
    BY <1>1, <1>2, <2>1, <2>2, PushElements
  <2> QED
    BY <1>2, <2>3
<1>4. /\ taken' = taken /\ lastQueuedSeq' = lastQueuedSeq
      /\ delivered \subseteq delivered' /\ delivered' \subseteq delivered \cup {Head(queue)}
  BY DEF PublishFails, Arrives
<1>5. InQueue' \subseteq taken' /\ delivered' \subseteq taken'
  BY <1>2, <1>3, <1>4, ElementsOfQueue DEF Inv, TypeOK
<1>6. TypeOK'
  <2>1. UNCHANGED <<wifiVars, link, mqttVars, tcp, readVars, told>> /\ at' = "sample" /\ sent' = 0
    BY DEF PublishFails
  <2>3. fed \in BOOLEAN /\ faults \in 0..MaxFaults
    BY DEF Inv, TypeOK
  <2>4. fed' \in {TRUE, fed} /\ (faults' = faults \/ (faults < MaxFaults /\ faults' = faults + 1))
    BY DEF PublishFails, Arrives, Fault
  <2>5. fed' \in BOOLEAN
    BY <2>3, <2>4, Zenon
  <2>2. faults' \in 0..MaxFaults
    BY <2>3, <2>4
  <2> QED
    BY <1>3, <1>4, <1>5, <2>1, <2>2, <2>5
       DEF Inv, TypeOK, Distinct, Readings, wifiVars, mqttVars, readVars
<1>7. LossIsCounted'
  <2>1. Lost' \subseteq Lost
    BY <1>3, <1>4, ElementsOfQueue DEF Lost
  <2> QED
    BY <1>3, <2>1, LossStep DEF Inv
<1>8. FlagTrue' /\ StatusFirst'
  BY DEF Inv, FlagTrue, StatusFirst, PublishFails, Publishing, Ready, mqttVars, Arrives
<1> QED
  BY <1>5, <1>6, <1>7, <1>8 DEF Inv

-----------------------------------------------------------------------------
(* Everything but the queue *)

\* A step that leaves queue, counter, taken and delivered readings alone.
QueueAlone == UNCHANGED <<queueVars, delivered>>

LEMMA SampleKeeps == Inv /\ Sample => TypeOK' /\ QueueAlone /\ UNCHANGED <<statusPublished, told, fed>>
<1> SUFFICES ASSUME TypeOK, Sample
             PROVE  TypeOK' /\ QueueAlone /\ UNCHANGED <<statusPublished, told, fed>>
  BY DEF Inv
<1>1. QueueAlone /\ UNCHANGED <<sent, wifiVars, link, mqttVars, tcp, brokerVars, faults>> /\ at' = "wifi" /\ at = "sample"
  BY DEF Sample, QueueAlone, queueVars, brokerVars
<1>2. seq' \in 0..MaxSeq /\ lastValid' \in 0..seq' /\ lastQueuedSeq \in 0..lastValid'
  BY SizesAssumption DEF Sample, TypeOK, readVars
<1> QED
  BY <1>1, <1>2 DEF TypeOK, QueueAlone, queueVars, brokerVars, mqttVars, wifiVars

LEMMA WifiKeeps == Inv /\ WifiTick => TypeOK' /\ QueueAlone /\ UNCHANGED <<statusPublished, told, fed>>
<1> SUFFICES ASSUME TypeOK, WifiTick
             PROVE  TypeOK' /\ QueueAlone /\ UNCHANGED <<statusPublished, told, fed>>
  BY DEF Inv
<1>1. /\ at = "wifi" /\ at' = "mqtt"
      /\ UNCHANGED <<sent, link, mqttVars, tcp, readVars, queueVars, brokerVars, faults>>
  BY DEF WifiTick
<1>2. /\ wifi' \in {"idle", "connecting", "connected"}
      /\ wifiDue' \in BOOLEAN /\ late' \in BOOLEAN
  <2>1. UNCHANGED wifiVars \/ \E state \in {"idle", "connecting", "connected"} : WifiIs(state)
    BY DEF WifiTick
  <2>2. CASE UNCHANGED wifiVars
    BY <2>2 DEF TypeOK, wifiVars
  <2>3. CASE \E state \in {"idle", "connecting", "connected"} : WifiIs(state)
    BY <2>3 DEF WifiIs
  <2> QED
    BY <2>1, <2>2, <2>3
<1> QED
  BY <1>1, <1>2 DEF TypeOK, QueueAlone, queueVars, brokerVars, mqttVars, readVars

\* Every outcome of MqttManager::tick: the flag stands for the session, and
\* telemetry of a session is forgotten with it.
LEMMA MqttKeeps == Inv /\ MqttTick => Inv'
<1> SUFFICES ASSUME Inv, MqttTick PROVE Inv'
  OBVIOUS
<1>1. TypeOK /\ FlagTrue /\ StatusFirst
  BY DEF Inv
<1>2. /\ at = "mqtt" /\ at' = "enqueue"
      /\ UNCHANGED <<sent, wifiVars, link, readVars, queueVars, delivered>>
  BY DEF MqttTick, WifiIsDown, ConnectionNoticedLost, StatusRetried, MqttRests,
         AttemptFails, AttemptSucceeds, MqttCall
<1>3. faults' = faults \/ Fault
  BY DEF MqttTick, WifiIsDown, ConnectionNoticedLost, StatusRetried, MqttRests,
         AttemptFails, AttemptSucceeds
<1>4. faults' \in 0..MaxFaults
  BY <1>1, <1>3, SizesAssumption DEF TypeOK, Fault
<1>5. /\ mqtt' \in {"waiting", "idle", "connected"}
      /\ mqttDue' \in BOOLEAN /\ statusPublished' \in BOOLEAN /\ tcp' \in BOOLEAN
      /\ told' \in BOOLEAN /\ fed' \in BOOLEAN
      /\ statusPublished' => mqtt' = "connected"
      /\ tcp' => mqtt' = "connected"
      /\ FlagTrue' /\ StatusFirst'
  <2>1. CASE WifiIsDown
    BY <1>1, <2>1 DEF WifiIsDown, HoldsForWifi, TypeOK, FlagTrue, StatusFirst
  <2>2. CASE ConnectionNoticedLost
    BY <1>1, <2>2 DEF ConnectionNoticedLost, EntersIdle, TypeOK, FlagTrue, StatusFirst
  <2>3. CASE StatusRetried
    BY <1>1, <2>3, Zenon DEF StatusRetried, StatusFails, RetriesStatus, TypeOK, FlagTrue, StatusFirst
  <2>4. CASE MqttRests
    BY <1>1, <2>4 DEF MqttRests, mqttVars, TypeOK, FlagTrue, StatusFirst
  <2>5. CASE AttemptFails
    BY <1>1, <2>5 DEF AttemptFails, EntersIdle, TypeOK, FlagTrue, StatusFirst
  <2>6. CASE AttemptSucceeds
    BY <1>1, <2>6, Zenon DEF AttemptSucceeds, StatusFails, TypeOK, FlagTrue, StatusFirst
  <2> QED
    BY <2>1, <2>2, <2>3, <2>4, <2>5, <2>6 DEF MqttTick
<1>6. TypeOK'
  BY <1>1, <1>2, <1>4, <1>5 DEF TypeOK, wifiVars, readVars, queueVars
<1> QED
  BY <1>2, <1>5, <1>6, QueueUntouched DEF Inv

LEMMA OutsideKeeps ==
  Inv /\ (LinkUp \/ LinkDown \/ ConnectionLost \/ AttemptTimesOut \/ WifiWindowEnds \/ MqttWindowEnds)
      => TypeOK' /\ QueueAlone /\ UNCHANGED <<statusPublished, told, fed>>
<1> SUFFICES ASSUME TypeOK,
                    LinkUp \/ LinkDown \/ ConnectionLost \/ AttemptTimesOut
                           \/ WifiWindowEnds \/ MqttWindowEnds
             PROVE  TypeOK' /\ QueueAlone /\ UNCHANGED <<statusPublished, told, fed>>
  BY DEF Inv
<1>1. Outside
  BY DEF LinkUp, LinkDown, ConnectionLost, AttemptTimesOut, WifiWindowEnds, MqttWindowEnds
<1>2. QueueAlone /\ UNCHANGED <<loopVars, wifi, mqtt, statusPublished, readVars, brokerVars>>
  BY <1>1 DEF Outside, QueueAlone, queueVars, brokerVars
<1>3. faults' = faults \/ Fault
  BY DEF LinkUp, LinkDown, ConnectionLost, AttemptTimesOut, WifiWindowEnds, MqttWindowEnds
<1>4. faults' \in 0..MaxFaults
  BY <1>3, SizesAssumption DEF TypeOK, Fault
<1>5. /\ wifiDue' \in {wifiDue, TRUE} /\ late' \in {late, TRUE} /\ mqttDue' \in {mqttDue, TRUE}
      /\ link' \in {TRUE, FALSE, link} /\ tcp' \in {tcp, FALSE}
  BY Zenon DEF LinkUp, LinkDown, ConnectionLost, AttemptTimesOut, WifiWindowEnds, MqttWindowEnds
<1>6. /\ wifiDue' \in BOOLEAN /\ late' \in BOOLEAN /\ mqttDue' \in BOOLEAN
      /\ link' \in BOOLEAN /\ tcp' \in BOOLEAN /\ (tcp' => tcp)
  <2>1. /\ wifiDue \in BOOLEAN /\ late \in BOOLEAN /\ mqttDue \in BOOLEAN
        /\ link \in BOOLEAN /\ tcp \in BOOLEAN
    BY DEF TypeOK
  <2>2. wifiDue' \in BOOLEAN /\ late' \in BOOLEAN /\ mqttDue' \in BOOLEAN
    BY <1>5, <2>1, Zenon
  <2>3. link' \in BOOLEAN /\ tcp' \in BOOLEAN
    BY <1>5, <2>1, Zenon
  <2>4. tcp' => tcp
    BY <1>5, <2>1, Zenon
  <2> QED
    BY <2>2, <2>3, <2>4
<1> QED
  BY <1>2, <1>4, <1>6 DEF TypeOK, QueueAlone, queueVars, brokerVars, loopVars, readVars

LEMMA RestKeeps ==
  Inv /\ (NothingToEnqueue \/ DrainStops \/ UNCHANGED vars)
      => TypeOK' /\ QueueAlone /\ UNCHANGED <<statusPublished, told, fed>>
<1> SUFFICES ASSUME TypeOK, NothingToEnqueue \/ DrainStops \/ UNCHANGED vars
             PROVE  TypeOK' /\ QueueAlone /\ UNCHANGED <<statusPublished, told, fed>>
  BY DEF Inv
<1>1. /\ UNCHANGED <<wifiVars, link, mqttVars, tcp, readVars, queueVars, brokerVars, faults>>
      /\ \/ at = "enqueue" /\ at' = "drain" /\ sent' = sent
         \/ at' = "sample" /\ sent' = 0
         \/ UNCHANGED <<at, sent>>
  BY DEF NothingToEnqueue, DrainStops, vars, loopVars
<1> QED
  BY <1>1, SizesAssumption
     DEF TypeOK, QueueAlone, wifiVars, mqttVars, readVars, queueVars, brokerVars

THEOREM UplinkInvariant == Spec => []Inv
<1>1. Init => Inv
  <2> SUFFICES ASSUME Init PROVE Inv
    OBVIOUS
  <2>4. queue = <<>> /\ queue \in Seq(1..MaxSeq) /\ Len(queue) = 0
    BY EmptySeq DEF Init
  <2>5. \A i, j \in 1..Len(queue) : queue[i] = queue[j] => i = j
    BY <2>4
  <2>6. 0 \in 0..MaxSeq /\ 0 \in 0..MaxFaults /\ 0 \in 0..MaxPublishes /\ Len(queue) <= QueueCapacity
    BY <2>4, SizesAssumption
  <2>7. /\ seq \in 0..MaxSeq /\ lastValid \in 0..seq /\ lastQueuedSeq \in 0..lastValid
        /\ delivered \subseteq taken /\ taken \subseteq 1..lastQueuedSeq
        /\ droppedCount \in Nat
    BY <2>6 DEF Init
  <2>1. TypeOK
    BY <2>4, <2>5, <2>6, <2>7 DEF Init, TypeOK
  <2>2. InQueue = {} /\ taken = {}
    BY DEF Init, InQueue
  <2>3. LossIsCounted
    BY <2>2, FS_EmptySet DEF LossIsCounted, Init
  <2> QED
    BY <2>1, <2>2, <2>3 DEF Inv, FlagTrue, StatusFirst, Init
<1>2. Inv /\ [Next]_vars => Inv'
  <2> SUFFICES ASSUME Inv, [Next]_vars PROVE Inv'
    OBVIOUS
  <2>1. CASE MqttTick
    BY <2>1, MqttKeeps
  <2>2. CASE EnqueueTelemetry
    BY <2>2, EnqueueKeeps
  <2>3. CASE PublishSucceeds
    BY <2>3, SuccessKeeps
  <2>4. CASE PublishFails
    BY <2>4, FailureKeeps
  <2>5. ASSUME TypeOK', QueueAlone, UNCHANGED <<statusPublished, told, fed>>
        PROVE  Inv'
    BY <2>5, QueueUntouched DEF QueueAlone, Inv, FlagTrue, StatusFirst
  <2>6. CASE Sample
    BY <2>5, <2>6, SampleKeeps
  <2>7. CASE WifiTick
    BY <2>5, <2>7, WifiKeeps
  <2>8. CASE NothingToEnqueue \/ DrainStops \/ UNCHANGED vars
    BY <2>5, <2>8, RestKeeps
  <2>9. CASE LinkUp \/ LinkDown \/ ConnectionLost \/ AttemptTimesOut \/ WifiWindowEnds \/ MqttWindowEnds
    BY <2>5, <2>9, OutsideKeeps
  <2> QED
    BY <2>1, <2>2, <2>3, <2>4, <2>6, <2>7, <2>8, <2>9 DEF Next, Loop, Drain
<1> QED
  BY <1>1, <1>2, PTL DEF Spec

\* The state of the node, of its queue and of the broker's session is well
\* typed; the queue stays within its capacity and holds no reading twice.
THEOREM UplinkTyped == Spec => []TypeOK
BY UplinkInvariant, PTL DEF Inv

\* mqtt_manager.cpp:137: in every session the broker has the online status
\* before it has telemetry, however publishes fail and connections end.
THEOREM UplinkStatusFirst == Spec => []StatusFirst
BY UplinkInvariant, PTL DEF Inv

\* A reading that was queued is with the broker, still queued, or one of those
\* droppedCount has counted.
THEOREM UplinkLossIsCounted == Spec => []LossIsCounted
BY UplinkInvariant, PTL DEF Inv

-------------------------------------------------------------------------------
(* Numbers *)

LEMMA MinOfTwo ==
    ASSUME NEW a \in Int, NEW b \in Int
    PROVE  /\ Min({a, b}) \in {a, b}
           /\ Min({a, b}) <= a /\ Min({a, b}) <= b
<1>1. \E x \in {a, b} : \A y \in {a, b} : x <= y
  <2>1. CASE a <= b
    BY <2>1
  <2>2. CASE b <= a
    BY <2>2
  <2> QED
    BY <2>1, <2>2
<1> QED
  BY <1>1 DEF Min

LEMMA Segment ==
    ASSUME NEW n \in Nat
    PROVE  IsFiniteSet(1 .. n) /\ Cardinality(1 .. n) = n
BY FS_Interval

LEMMA PowerNat ==
    ASSUME NEW n \in Nat
    PROVE  2 ^ n \in Nat
BY Segment, FS_SUBSET, FS_CardinalityType

LEMMA PowerZero == 2 ^ 0 = 1
BY FS_SUBSET, FS_EmptySet, FS_Singleton

\* The subsets of a set with one member more are twice as many.
LEMMA PowerDoubles ==
    ASSUME NEW n \in Nat
    PROVE  2 ^ (n + 1) = 2 * 2 ^ n
<1> DEFINE S == 1 .. n
           x == n + 1
           U == {T \cup {x} : T \in SUBSET S}
           f == [T \in SUBSET S |-> T \cup {x}]
<1>1. IsFiniteSet(S) /\ Cardinality(S) = n
  BY Segment
<1>2. 1 .. (n + 1) = S \cup {x}
  OBVIOUS
<1>3. IsFiniteSet(S \cup {x}) /\ Cardinality(S \cup {x}) = n + 1
  BY <1>2, Segment, n + 1 \in Nat
<1>4. x \notin S
  OBVIOUS
<1> HIDE DEF S, x
<1>5. SUBSET (S \cup {x}) = (SUBSET S) \cup U
  <2>1. ASSUME NEW T \in SUBSET (S \cup {x}) PROVE T \in (SUBSET S) \cup U
    <3>1. CASE x \in T
      <4>1. T \ {x} \in SUBSET S
        OBVIOUS
      <4>2. T = (T \ {x}) \cup {x}
        BY <3>1
      <4> QED
        BY <4>1, <4>2
    <3>2. CASE x \notin T
      BY <3>2
    <3> QED
      BY <3>1, <3>2
  <2> QED
    BY <2>1
<1>6. (SUBSET S) \cap U = {}
  BY <1>4
<1>7. f \in Bijection(SUBSET S, U)
  <2>1. f \in [SUBSET S -> U] /\ DOMAIN f = SUBSET S
    OBVIOUS
  <2>2. ASSUME NEW a \in SUBSET S, NEW b \in SUBSET S, f[a] = f[b] PROVE a = b
    <3>1. a \cup {x} = b \cup {x}
      BY <2>2
    <3>2. x \notin a /\ x \notin b
      BY <1>4
    <3>3. a \subseteq b /\ b \subseteq a
      BY <3>1, <3>2
    <3> QED
      BY <3>3
  <2>3. \A u \in U : \E a \in SUBSET S : f[a] = u
    OBVIOUS
  <2> HIDE DEF f, U
  <2>4. IsInjective(f)
    BY <2>1, <2>2 DEF IsInjective
  <2> QED
    BY <2>1, <2>3, <2>4 DEF Bijection, Injection, Surjection
<1>8. ExistsBijection(SUBSET S, U)
  BY <1>7 DEF ExistsBijection
<1>9. IsFiniteSet(SUBSET S) /\ Cardinality(SUBSET S) = 2 ^ n
  BY <1>1, FS_SUBSET
<1> HIDE DEF U
<1>10. IsFiniteSet(U) /\ Cardinality(U) = 2 ^ n
  BY <1>8, <1>9, FS_Bijection
<1>11. Cardinality(SUBSET (S \cup {x})) = 2 ^ (n + 1)
  BY <1>3, FS_SUBSET
<1>12. Cardinality((SUBSET S) \cup U) = 2 ^ n + 2 ^ n - Cardinality((SUBSET S) \cap U)
  BY <1>9, <1>10, FS_Union
<1>13. Cardinality((SUBSET S) \cap U) = 0
  BY <1>6, FS_EmptySet
<1>14. 2 ^ (n + 1) = 2 ^ n + 2 ^ n - 0
  BY <1>5, <1>11, <1>12, <1>13
<1> QED
  BY <1>14, PowerNat

LEMMA Multiples ==
    ASSUME NEW W \in Nat \ {0}, NEW k \in Int
    PROVE  /\ k <= -1 => W * k <= -W
           /\ k >= 2 => W * k >= W + W
           /\ W * 1 = W /\ W * 0 = 0 /\ W * k \in Int
OBVIOUS

LEMMA Distributes ==
    ASSUME NEW W \in Nat \ {0}, NEW k \in Int, NEW l \in Int
    PROVE  (W * k) - (W * l) = W * (k - l)
OBVIOUS

LEMMA SmallRemainder ==
    ASSUME NEW W \in Nat \ {0}, NEW d \in 0 .. W - 1
    PROVE  d % W = d /\ (d - W) % W = d
OBVIOUS

\* What is less than a wrap apart has remainders that far apart, or a wrap less.
LEMMA Remainders ==
    ASSUME NEW W \in Nat \ {0}, NEW a \in Nat, NEW b \in Nat, b <= a, a - b < W
    PROVE  /\ a % W \in Nat /\ b % W \in Nat
           /\ (a % W) - (b % W) = a - b \/ (a % W) - (b % W) = a - b - W
<1> DEFINE p == a \div W
           q == b \div W
           r == a % W
           s == b % W
<1>1. p \in Int /\ q \in Int /\ r \in 0 .. W - 1 /\ s \in 0 .. W - 1
  OBVIOUS
<1>2. a = (W * p) + r /\ b = (W * q) + s
  OBVIOUS
<1> HIDE DEF p, q, r, s
<1>3. a - b = (W * (p - q)) + (r - s)
  BY <1>1, <1>2, Distributes
<1>4. p - q \in Int /\ W * (p - q) \in Int
  BY <1>1, Multiples
<1>5. -W < W * (p - q) /\ W * (p - q) < W + W
  BY <1>1, <1>3, <1>4
<1>6. p - q = 0 \/ p - q = 1
  BY <1>4, <1>5, Multiples
<1>7. W * (p - q) = 0 \/ W * (p - q) = W
  BY <1>6, Multiples
<1>8. r - s = a - b \/ r - s = a - b - W
  BY <1>1, <1>3, <1>7
<1> QED
  BY <1>1, <1>8 DEF r, s

\* The width alone, for the arithmetic that needs no more.
LEMMA WrapPositive == Wrap \in Nat \ {0}
BY TimingAssumption

\* Unsigned subtraction gives the time between two readings of millis() that
\* are less than a wrap apart, whether or not it wrapped between them.
LEMMA ElapsedIsTrue ==
    ASSUME NEW a \in Nat, NEW b \in Nat, b <= a, a - b < Wrap
    PROVE  Elapsed(a % Wrap, b % Wrap) = a - b
<1>1. (a % Wrap) - (b % Wrap) = a - b \/ (a % Wrap) - (b % Wrap) = a - b - Wrap
  BY WrapPositive, Remainders
<1>2. a - b \in 0 .. Wrap - 1
  BY WrapPositive
<1> QED
  BY <1>1, <1>2, WrapPositive, SmallRemainder DEF Elapsed

\* A reading that is ahead by some ms seems to be a whole wrap old but for those.
LEMMA ElapsedOfAhead ==
    ASSUME NEW a \in Nat, NEW b \in Nat, a < b, b - a < Wrap
    PROVE  Elapsed(a % Wrap, b % Wrap) = Wrap - (b - a)
<1> DEFINE e == Wrap - (b - a)
<1>1. /\ a % Wrap \in Nat /\ b % Wrap \in Nat
      /\ (b % Wrap) - (a % Wrap) = b - a \/ (b % Wrap) - (a % Wrap) = b - a - Wrap
  <2>1. a <= b /\ Wrap \in Nat \ {0}
    BY WrapPositive
  <2> HIDE DEF e
  <2> QED
    BY <2>1, Remainders
<1>2. (a % Wrap) - (b % Wrap) = e - Wrap \/ (a % Wrap) - (b % Wrap) = e
  <2> DEFINE r == a % Wrap
             s == b % Wrap
  <2>1. r \in Nat /\ s \in Nat /\ (s - r = b - a \/ s - r = b - a - Wrap)
    BY <1>1
  <2> HIDE DEF r, s
  <2>2. r - s = e - Wrap \/ r - s = e
    BY <2>1, WrapPositive
  <2> QED
    BY <2>2 DEF r, s
<1>3. e \in 0 .. Wrap - 1
  BY WrapPositive
<1> HIDE DEF e
<1>4. ((a % Wrap) - (b % Wrap)) % Wrap = e
  BY <1>2, <1>3, WrapPositive, SmallRemainder
<1> QED
  BY <1>4 DEF Elapsed, e

LEMMA JitteredBounded ==
    ASSUME NEW base \in Nat \ {0}, base <= MaxDelay, NEW delay \in Jittered(base)
    PROVE  delay \in Nat /\ base <= delay /\ delay <= MaxDelay
<1>1. PICK extra \in 0 .. (base * JitterPercent) \div 100 : delay = Min({base + extra, MaxDelay})
  BY DEF Jittered
<1>2. base * JitterPercent \in Nat
  BY TimingAssumption
<1>3. extra \in Nat
  BY <1>2
<1>4. base + extra \in Int /\ base <= base + extra /\ MaxDelay \in Int
  BY <1>3, TimingAssumption
<1>5. delay \in {base + extra, MaxDelay} /\ delay <= MaxDelay
  BY <1>1, <1>4, MinOfTwo
<1> QED
  BY <1>3, <1>4, <1>5

-------------------------------------------------------------------------------
(* The invariant *)

TimingTyped ==
    /\ step \in {"start", "sensor", "sample", "panel"}
    /\ nowMs \in Nat /\ lastMs \in Nat /\ clock \in Nat /\ passAt \in Nat
    /\ sampledAt \in Nat /\ failedAt \in Nat /\ stampedAt \in Nat /\ shownAt \in Nat
    /\ failures \in Nat /\ forward \in Nat /\ reverse \in Nat
    /\ sensor \in {"ready", "down"}
    /\ window \in [base : Nat \ {0}, delay : Nat, armedAt : Nat, failed : BOOLEAN]
    /\ sample \in [taken : BOOLEAN, at : Nat, valid : BOOLEAN]
    /\ energy \in [total : Nat, last : Nat, continuous : BOOLEAN]
    /\ panel \in [last : Nat, started : BOOLEAN, shows : {"dashes", "value"}]

\* What the pass has still to come to may be late by the wait of the last one.
Late(steps) == IF step \in steps THEN MaxWait ELSE 0

\* Every variable that holds what millis() said holds the time of its event,
\* and how long ago that was.
PassInv ==
    /\ nowMs = passAt % Wrap
    /\ passAt <= clock /\ clock <= passAt + (IF step = "start" THEN MaxWait ELSE MaxPass)

DeadlineInv ==
    /\ lastMs = sampledAt % Wrap
    /\ sampledAt <= passAt /\ passAt < sampledAt + SampleInterval + Late({"sensor", "sample"})

WindowInv ==
    /\ window.base <= window.delay /\ window.delay <= MaxDelay
    /\ failedAt <= clock
    /\ sensor = "ready" => failures = 0 /\ ~window.failed /\ window.base = Initial
    /\ sensor = "down" =>
         /\ window.armedAt = failedAt % Wrap
         /\ failures # 0 /\ window.failed
         /\ window.base = Min({Initial * 2 ^ (failures - 1), MaxDelay})
         /\ step = "sensor" => failedAt <= passAt
         /\ passAt < failedAt + window.delay + Late({"sensor"})

SampleInv ==
    /\ sample.taken => sample.at = stampedAt % Wrap
    /\ sampledAt <= stampedAt /\ stampedAt <= clock /\ stampedAt <= passAt + MaxPass

EnergyInv ==
    /\ energy.continuous <=> sample.valid
    /\ energy.continuous => energy.last = stampedAt % Wrap
    /\ EnergyHonest

PanelInv ==
    panel.started => /\ panel.last = shownAt % Wrap
                     /\ shownAt <= passAt
                     /\ passAt < shownAt + RefreshInterval + Late({"sensor", "sample", "panel"})

TimingInv ==
    /\ TimingTyped
    /\ PassInv /\ DeadlineInv /\ WindowInv /\ SampleInv /\ EnergyInv /\ PanelInv

-------------------------------------------------------------------------------
(* Windows *)

\* What TimingAssumption says, one constant at a time.
LEMMA Constants ==
    /\ Wrap \in Nat \ {0} /\ SampleInterval \in Nat \ {0} /\ Initial \in Nat \ {0}
    /\ MaxDelay \in Nat \ {0} /\ RefreshInterval \in Nat \ {0} /\ Stale \in Nat \ {0}
    /\ MaxPass \in Nat \ {0} /\ MaxWait \in Nat \ {0}
    /\ JitterPercent \in Nat /\ Boot \in Nat /\ End \in Nat
    /\ Initial <= MaxDelay /\ MaxPass <= MaxWait
    /\ SampleInterval + MaxWait + MaxPass <= Wrap
    /\ MaxDelay + MaxWait <= Wrap
    /\ RefreshInterval + MaxWait <= Wrap
    /\ Stale + MaxPass <= Wrap
BY TimingAssumption

LEMMA MillisNat ==
    ASSUME NEW t \in Nat
    PROVE  t % Wrap \in Nat
BY WrapPositive

\* The first window of an outage is the initial one.
LEMMA FirstWindow == Min({Initial * 2 ^ (1 - 1), MaxDelay}) = Initial
<1>1. Initial * 2 ^ (1 - 1) = Initial
  BY PowerZero, Constants
<1>2. Min({Initial, MaxDelay}) \in {Initial, MaxDelay} /\ Min({Initial, MaxDelay}) <= Initial
  <2>1. Initial \in Int /\ MaxDelay \in Int
    BY Constants
  <2> QED
    BY <2>1, MinOfTwo
<1> QED
  BY <1>1, <1>2, Constants

\* Doubling a capped window is capping the doubled one.
LEMMA NextWindow ==
    ASSUME NEW n \in Nat \ {0}
    PROVE  Min({2 * Min({Initial * 2 ^ (n - 1), MaxDelay}), MaxDelay})
             = Min({Initial * 2 ^ n, MaxDelay})
<1> DEFINE a == Initial * 2 ^ (n - 1)
           c == Min({a, MaxDelay})
<1>1. 2 ^ (n - 1) \in Nat /\ 2 ^ n = 2 * 2 ^ (n - 1)
  <2>1. n - 1 \in Nat /\ (n - 1) + 1 = n
    OBVIOUS
  <2> QED
    BY <2>1, PowerNat, PowerDoubles
<1>2. a \in Nat /\ Initial * 2 ^ n = 2 * a
  BY <1>1, Constants
<1> HIDE DEF a
<1>3. c \in {a, MaxDelay} /\ c <= a /\ c <= MaxDelay
  <2>1. a \in Int /\ MaxDelay \in Int
    BY <1>2, Constants
  <2> QED
    BY <2>1, MinOfTwo
<1> HIDE DEF c
<1>4. c \in Nat
  BY <1>2, <1>3, Constants
<1>5. /\ Min({2 * c, MaxDelay}) \in {2 * c, MaxDelay}
      /\ Min({2 * c, MaxDelay}) <= 2 * c /\ Min({2 * c, MaxDelay}) <= MaxDelay
  <2>1. 2 * c \in Int /\ MaxDelay \in Int
    BY <1>4, Constants
  <2> QED
    BY <2>1, MinOfTwo
<1>6. /\ Min({2 * a, MaxDelay}) \in {2 * a, MaxDelay}
      /\ Min({2 * a, MaxDelay}) <= 2 * a /\ Min({2 * a, MaxDelay}) <= MaxDelay
  <2>1. 2 * a \in Int /\ MaxDelay \in Int
    BY <1>2, Constants
  <2> QED
    BY <2>1, MinOfTwo
<1>7. Min({2 * c, MaxDelay}) = Min({2 * a, MaxDelay})
  BY <1>2, <1>3, <1>4, <1>5, <1>6, Constants
<1> QED
  BY <1>2, <1>7 DEF a, c

\* A failure arms the window of its number, from now.
LEMMA FailsArms ==
    ASSUME TimingInv, Fails
    PROVE  /\ sensor' = "down" /\ failedAt' = clock /\ failures' \in Nat \ {0}
           /\ window' \in [base : Nat \ {0}, delay : Nat, armedAt : Nat, failed : BOOLEAN]
           /\ window'.base <= window'.delay /\ window'.delay <= MaxDelay
           /\ window'.failed /\ window'.armedAt = failedAt' % Wrap
           /\ window'.base = Min({Initial * 2 ^ (failures' - 1), MaxDelay})
<1>1. sensor' = "down" /\ failedAt' = clock /\ failures' = failures + 1 /\ failures \in Nat
  BY DEF Fails, TimingInv, TimingTyped
<1>2. Millis \in Nat /\ Millis = failedAt' % Wrap
  BY <1>1, MillisNat DEF Millis, TimingInv, TimingTyped
<1>3. CASE window.failed
  <2> DEFINE base == Min({2 * window.base, MaxDelay})
  <2>1. /\ failures \in Nat \ {0}
        /\ window.base = Min({Initial * 2 ^ (failures - 1), MaxDelay})
        /\ window.base \in Nat \ {0}
    BY <1>3 DEF TimingInv, WindowInv, TimingTyped
  <2>2. base = Min({Initial * 2 ^ failures, MaxDelay})
    BY <2>1, NextWindow
  <2>3. base \in Nat \ {0} /\ base <= MaxDelay
    <3>1. /\ base \in {2 * window.base, MaxDelay} /\ base <= MaxDelay
      <4>1. 2 * window.base \in Int /\ MaxDelay \in Int
        BY <2>1, Constants
      <4> QED
        BY <4>1, MinOfTwo
    <3> QED
      BY <2>1, <3>1, Constants
  <2>4. window' \in [base : {base}, delay : Jittered(base), armedAt : {Millis}, failed : {TRUE}]
    BY <1>3 DEF Fails, ArmedAfterFailure
  <2> HIDE DEF base
  <2>5. /\ window'.base = base /\ window'.armedAt = Millis /\ window'.failed = TRUE
        /\ window'.delay \in Nat /\ base <= window'.delay /\ window'.delay <= MaxDelay
    BY <2>3, <2>4, JitteredBounded
  <2>6. window' \in [base : Nat \ {0}, delay : Nat, armedAt : Nat, failed : BOOLEAN]
    BY <2>3, <2>4, <2>5, <1>2
  <2>7. failures' - 1 = failures
    BY <1>1
  <2> QED
    BY <1>1, <1>2, <2>2, <2>3, <2>5, <2>6, <2>7
<1>4. CASE ~window.failed
  <2>1. failures = 0 /\ window.base = Initial
    BY <1>4 DEF TimingInv, WindowInv, TimingTyped
  <2>2. window' = [window EXCEPT !.armedAt = Millis, !.failed = TRUE]
    BY <1>4 DEF Fails, ArmedAfterFailure
  <2>3. /\ window'.base = Initial /\ window'.delay = window.delay
        /\ window'.armedAt = Millis /\ window'.failed = TRUE
        /\ window' \in [base : Nat \ {0}, delay : Nat, armedAt : Nat, failed : BOOLEAN]
    BY <1>2, <2>1, <2>2 DEF TimingInv, TimingTyped
  <2>4. failures' = 1
    BY <1>1, <2>1
  <2> QED
    BY <1>1, <1>2, <2>1, <2>3, <2>4, FirstWindow DEF TimingInv, WindowInv
<1> QED
  BY <1>3, <1>4

LEMMA ResetStarts ==
    ASSUME TimingTyped, window' \in Reset
    PROVE  /\ window' \in [base : Nat \ {0}, delay : Nat, armedAt : Nat, failed : BOOLEAN]
           /\ window'.base = Initial /\ ~window'.failed
           /\ window'.base <= window'.delay /\ window'.delay <= MaxDelay
<1>1. /\ window'.base = Initial /\ window'.failed = FALSE /\ window'.delay \in Jittered(Initial)
      /\ window'.armedAt = window.armedAt
      /\ window' = [base |-> window'.base, delay |-> window'.delay,
                    armedAt |-> window'.armedAt, failed |-> window'.failed]
  BY DEF Reset
<1>2. window'.delay \in Nat /\ Initial <= window'.delay /\ window'.delay <= MaxDelay
  BY <1>1, JitteredBounded, Constants
<1> QED
  BY <1>1, <1>2, Constants DEF TimingTyped

-------------------------------------------------------------------------------
(* The steps *)

LEMMA InitHolds == TimingInit => TimingInv
<1> SUFFICES ASSUME TimingInit PROVE TimingInv
  OBVIOUS
<1>1. /\ clock \in Nat /\ Boot <= clock /\ clock <= Boot + 1 /\ Boot \in Nat
      /\ Millis \in Nat /\ Boot % Wrap \in Nat
  <2>1. clock \in Nat /\ Boot <= clock /\ clock <= Boot + 1 /\ Boot \in Nat
    BY Constants DEF TimingInit
  <2> QED
    BY <2>1, MillisNat DEF Millis
<1>2. PICK delay \in Jittered(Initial) :
        window = [base |-> Initial, delay |-> delay,
                  armedAt |-> IF sensor = "down" THEN Millis ELSE 0, failed |-> sensor = "down"]
  BY DEF TimingInit
<1>3. delay \in Nat /\ Initial <= delay /\ delay <= MaxDelay
  BY JitteredBounded, Constants
<1>4. TimingTyped
  BY <1>1, <1>2, <1>3, Constants DEF TimingInit, TimingTyped
<1>5. PassInv /\ DeadlineInv /\ SampleInv /\ EnergyInv /\ PanelInv
  BY <1>1, Constants DEF TimingInit, PassInv, DeadlineInv, SampleInv, EnergyInv, PanelInv, EnergyHonest, Late
<1>6. WindowInv
  <2>1. /\ window.base = Initial /\ window.delay = delay /\ failedAt = clock /\ passAt = Boot
        /\ step = "start"
    BY <1>2 DEF TimingInit
  <2>2. CASE sensor = "down"
    <3>1. failures = 1 /\ window.failed /\ window.armedAt = failedAt % Wrap
      BY <1>2, <2>1, <2>2 DEF TimingInit, Millis
    <3>2. window.base = Min({Initial * 2 ^ (failures - 1), MaxDelay})
      BY <2>1, <3>1, FirstWindow
    <3>3. passAt < failedAt + window.delay + Late({"sensor"})
      BY <1>1, <1>3, <2>1, Constants DEF Late
    <3> QED
      BY <1>1, <1>3, <2>1, <2>2, <3>1, <3>2, <3>3 DEF WindowInv
  <2>3. CASE sensor # "down"
    <3>1. failures = 0 /\ ~window.failed
      BY <1>2, <2>3 DEF TimingInit
    <3> QED
      BY <1>1, <1>3, <2>1, <2>3, <3>1 DEF WindowInv
  <2> QED
    BY <2>2, <2>3
<1> QED
  BY <1>4, <1>5, <1>6 DEF TimingInv

LEMMA ElapseKeeps ==
    ASSUME TimingInv, Elapse
    PROVE  TimingInv'
<1>1. TimingTyped'
  BY DEF TimingInv, TimingTyped, Elapse, pacing, sensing, measuring, showing
<1>2. PassInv' /\ DeadlineInv'
  BY Constants DEF TimingInv, TimingTyped, PassInv, DeadlineInv, Late, Elapse, pacing
<1>3. WindowInv' /\ SampleInv' /\ EnergyInv' /\ PanelInv'
  BY DEF TimingInv, TimingTyped, WindowInv, SampleInv, EnergyInv, PanelInv, EnergyHonest, Late,
         Elapse, pacing, sensing, measuring, showing
<1> QED
  BY <1>1, <1>2, <1>3 DEF TimingInv

LEMMA StartKeeps ==
    ASSUME TimingInv, StartPass
    PROVE  TimingInv'
<1>1. /\ Millis \in Nat /\ step = "start" /\ step' = "sensor" /\ nowMs' = clock % Wrap
      /\ passAt' = clock /\ clock' = clock
      /\ passAt <= clock /\ clock <= passAt + MaxWait /\ clock \in Nat /\ passAt \in Nat
  BY MillisNat DEF StartPass, Millis, TimingInv, TimingTyped, PassInv
<1>2. TimingTyped'
  BY <1>1 DEF TimingInv, TimingTyped, StartPass, Millis, pacing, sensing, measuring, showing
<1>3. PassInv'
  BY <1>1, Constants DEF PassInv
<1>4. DeadlineInv'
  BY <1>1, Constants DEF TimingInv, TimingTyped, DeadlineInv, Late, StartPass, pacing
<1>5. WindowInv'
  BY <1>1, Constants DEF TimingInv, TimingTyped, WindowInv, Late, StartPass, sensing
<1>6. SampleInv' /\ EnergyInv'
  BY <1>1, Constants DEF TimingInv, TimingTyped, SampleInv, EnergyInv, EnergyHonest, StartPass, pacing, measuring
<1>7. PanelInv'
  BY <1>1, Constants DEF TimingInv, TimingTyped, PanelInv, Late, StartPass, showing
<1> QED
  BY <1>2, <1>3, <1>4, <1>5, <1>6, <1>7 DEF TimingInv

\* At the sensor's turn of a pass its window shows how long ago it failed.
LEMMA WindowIsTrue ==
    ASSUME TimingInv, step = "sensor", sensor = "down"
    PROVE  /\ Elapsed(nowMs, window.armedAt) = passAt - failedAt
           /\ failedAt <= passAt
<1>1. /\ passAt \in Nat /\ failedAt \in Nat /\ window.delay \in Nat
      /\ failedAt <= passAt /\ passAt < failedAt + window.delay + MaxWait /\ window.delay <= MaxDelay
      /\ nowMs = passAt % Wrap /\ window.armedAt = failedAt % Wrap
  BY DEF TimingInv, TimingTyped, WindowInv, PassInv, Late
<1>2. passAt - failedAt < Wrap
  BY <1>1, Constants
<1> QED
  BY <1>1, <1>2, ElapsedIsTrue

LEMMA SensorKeeps ==
    ASSUME TimingInv, TickSensor
    PROVE  TimingInv' /\ RetriesPaced
<1> DEFINE due == sensor = "down" /\ passAt - failedAt >= window.delay
<1>1. /\ step = "sensor" /\ step' = "sample" /\ clock' = clock /\ passAt' = passAt /\ nowMs' = nowMs
      /\ passAt \in Nat /\ clock \in Nat /\ failedAt \in Nat /\ window.delay \in Nat /\ window.base \in Nat \ {0}
      /\ passAt <= clock /\ sensor \in {"ready", "down"}
  BY DEF TickSensor, TimingInv, TimingTyped, PassInv
<1>2. IF due THEN Begins ELSE UNCHANGED sensing
  BY <1>1, WindowIsTrue DEF TickSensor
<1>3. /\ window' \in [base : Nat \ {0}, delay : Nat, armedAt : Nat, failed : BOOLEAN]
      /\ sensor' \in {"ready", "down"} /\ failedAt' \in Nat /\ failures' \in Nat
      /\ WindowInv'
  <2>1. CASE due /\ Fails
    <3>1. /\ sensor' = "down" /\ failedAt' = clock /\ failures' \in Nat \ {0}
          /\ window' \in [base : Nat \ {0}, delay : Nat, armedAt : Nat, failed : BOOLEAN]
          /\ window'.base <= window'.delay /\ window'.delay <= MaxDelay
          /\ window'.failed /\ window'.armedAt = failedAt' % Wrap
          /\ window'.base = Min({Initial * 2 ^ (failures' - 1), MaxDelay})
      BY <2>1, FailsArms
    <3>2. window'.base \in Nat \ {0} /\ window'.delay \in Nat
      BY <3>1
    <3>3. passAt' < failedAt' + window'.delay
      BY <1>1, <3>1, <3>2
    <3> QED
      BY <1>1, <3>1, <3>3 DEF WindowInv, Late
  <2>2. CASE due /\ ~Fails
    <3>1. sensor' = "ready" /\ window' \in Reset /\ failures' = 0 /\ failedAt' = failedAt
      BY <1>2, <2>2 DEF Begins
    <3>2. /\ window' \in [base : Nat \ {0}, delay : Nat, armedAt : Nat, failed : BOOLEAN]
          /\ window'.base = Initial /\ ~window'.failed
          /\ window'.base <= window'.delay /\ window'.delay <= MaxDelay
      BY <3>1, ResetStarts DEF TimingInv
    <3> QED
      BY <1>1, <3>1, <3>2 DEF WindowInv, TimingInv
  <2>3. CASE ~due
    <3>1. UNCHANGED <<sensor, window, failedAt, failures>>
      BY <1>2, <2>3 DEF sensing
    <3>2. sensor = "down" => passAt' < failedAt' + window'.delay
      BY <1>1, <2>3, <3>1
    <3> QED
      BY <1>1, <3>1, <3>2 DEF WindowInv, TimingInv, TimingTyped, Late
  <2> QED
    BY <2>1, <2>2, <2>3
<1>4. TimingTyped'
  BY <1>1, <1>3 DEF TimingInv, TimingTyped, TickSensor, pacing, measuring, showing
<1>5. PassInv' /\ DeadlineInv' /\ SampleInv' /\ EnergyInv' /\ PanelInv'
  BY <1>1 DEF TimingInv, PassInv, DeadlineInv, SampleInv, EnergyInv, EnergyHonest, PanelInv, Late,
              TickSensor, pacing, measuring, showing
<1>6. RetriesPaced
  <2> SUFFICES ASSUME sensor = "down"
               PROVE  /\ sensor' # sensor \/ failedAt' # failedAt =>
                           passAt - failedAt >= Min({Initial * 2 ^ (failures - 1), MaxDelay})
                      /\ passAt - failedAt >= MaxDelay => sensor' # sensor \/ failedAt' # failedAt
    BY DEF RetriesPaced
  <2>1. /\ window.base = Min({Initial * 2 ^ (failures - 1), MaxDelay})
        /\ window.base <= window.delay /\ window.delay <= MaxDelay
    BY DEF TimingInv, WindowInv
  <2>2. CASE due
    <3>1. failedAt < clock
      BY <1>1, <2>1, <2>2
    <3>2. sensor' # sensor \/ failedAt' # failedAt
      BY <1>1, <1>2, <2>2, <3>1 DEF Begins, Fails
    <3> QED
      BY <1>1, <2>1, <2>2, <3>2
  <2>3. CASE ~due
    <3>1. sensor' = sensor /\ failedAt' = failedAt
      BY <1>2, <2>3 DEF sensing
    <3> QED
      BY <1>1, <2>1, <2>3, <3>1, Constants
  <2> QED
    BY <2>2, <2>3
<1> QED
  BY <1>3, <1>4, <1>5, <1>6 DEF TimingInv

\* At the sampling turn of a pass the deadline shows how long ago the last
\* sample was due.
LEMMA DeadlineIsTrue ==
    ASSUME TimingInv, step = "sample"
    PROVE  Elapsed(nowMs, lastMs) = passAt - sampledAt
<1>1. /\ passAt \in Nat /\ sampledAt \in Nat /\ sampledAt <= passAt
      /\ passAt < sampledAt + SampleInterval + MaxWait
      /\ nowMs = passAt % Wrap /\ lastMs = sampledAt % Wrap
  BY DEF TimingInv, TimingTyped, DeadlineInv, PassInv, Late
<1>2. passAt - sampledAt < Wrap
  BY <1>1, Constants
<1> QED
  BY <1>1, <1>2, ElapsedIsTrue

\* And the integrator how long ago the last attempt was.
LEMMA GapIsTrue ==
    ASSUME TimingInv, step = "sample", energy.continuous
    PROVE  Elapsed(Millis, energy.last) = clock - stampedAt
<1>1. /\ passAt \in Nat /\ sampledAt \in Nat /\ stampedAt \in Nat /\ clock \in Nat
      /\ passAt < sampledAt + SampleInterval + MaxWait /\ sampledAt <= stampedAt
      /\ clock <= passAt + MaxPass /\ stampedAt <= clock
      /\ energy.last = stampedAt % Wrap
  BY DEF TimingInv, TimingTyped, DeadlineInv, PassInv, SampleInv, EnergyInv, Late
<1>2. clock - stampedAt < Wrap
  BY <1>1, Constants
<1> QED
  BY <1>1, <1>2, ElapsedIsTrue DEF Millis

\* What an attempt adds to the total is what it adds to the time measured, and
\* what it takes away is no more than the time of reverse flow.
LEMMA TakesKeeps ==
    ASSUME TimingInv, step = "sample", NEW valid \in BOOLEAN, NEW power \in {-1, 0, 1},
           valid => power # 0, Takes(valid, power)
    PROVE  /\ sample' = [taken |-> TRUE, at |-> clock % Wrap, valid |-> valid]
           /\ stampedAt' = clock
           /\ energy' \in [total : Nat, last : Nat, continuous : BOOLEAN]
           /\ forward' \in Nat /\ reverse' \in Nat
           /\ energy'.continuous = valid
           /\ energy'.continuous => energy'.last = clock % Wrap
           /\ EnergyHonest'
<1> DEFINE d == clock - stampedAt
           total == energy.total + power * Elapsed(Millis, energy.last)
<1>1. /\ energy \in [total : Nat, last : Nat, continuous : BOOLEAN]
      /\ forward \in Nat /\ reverse \in Nat /\ clock \in Nat /\ stampedAt \in Nat
      /\ sample.valid \in BOOLEAN /\ sample.valid = energy.continuous
      /\ energy.total <= forward /\ energy.total >= forward - reverse
  BY DEF TimingInv, TimingTyped, EnergyInv, EnergyHonest
<1>2. /\ sample' = [taken |-> TRUE, at |-> clock % Wrap, valid |-> valid]
      /\ stampedAt' = clock
      /\ energy' = Integrated(valid, power)
      /\ forward' = forward + (IF valid /\ energy.continuous /\ power = 1 THEN d ELSE 0)
      /\ reverse' = reverse + (IF valid /\ energy.continuous /\ power = -1 THEN d ELSE 0)
  BY <1>1 DEF Takes, Millis
<1>3. Millis \in Nat /\ Millis = clock % Wrap /\ d \in Nat
  BY <1>1, MillisNat DEF Millis, TimingInv, SampleInv
<1>4. CASE ~valid
  <2>1. energy' = [energy EXCEPT !.continuous = FALSE]
    BY <1>2, <1>4 DEF Integrated
  <2>2. forward' = forward /\ reverse' = reverse
    BY <1>1, <1>2, <1>4
  <2> QED
    BY <1>1, <1>2, <1>4, <2>1, <2>2 DEF EnergyHonest
<1>5. CASE valid /\ ~energy.continuous
  <2>1. energy' = [energy EXCEPT !.continuous = TRUE, !.last = Millis]
    BY <1>2, <1>5 DEF Integrated
  <2>2. forward' = forward /\ reverse' = reverse
    BY <1>1, <1>2, <1>5
  <2> QED
    BY <1>1, <1>2, <1>3, <1>5, <2>1, <2>2 DEF EnergyHonest
<1>6. CASE valid /\ energy.continuous
  <2>1. energy' = [energy EXCEPT !.last = Millis, !.total = IF total < 0 THEN 0 ELSE total]
    BY <1>2, <1>6 DEF Integrated
  <2>2. /\ energy'.total = IF total < 0 THEN 0 ELSE total
        /\ energy'.last = Millis /\ energy'.continuous = TRUE
        /\ DOMAIN energy' = {"total", "last", "continuous"}
        /\ energy' = [total |-> energy'.total, last |-> Millis, continuous |-> TRUE]
    BY <1>1, <1>6, <2>1
  <2>3. Elapsed(Millis, energy.last) = d
    BY <1>6, GapIsTrue
  <2> HIDE DEF d
  <2>4. CASE power = 1
    <3>1. total = energy.total + d
      BY <1>1, <1>3, <2>3, <2>4
    <3>2. forward' = forward + d /\ reverse' = reverse
      BY <1>1, <1>2, <1>6, <2>4
    <3> HIDE DEF total
    <3>3. /\ energy'.total \in Nat /\ energy'.total <= forward' /\ energy'.total >= forward' - reverse'
          /\ forward' \in Nat /\ reverse' \in Nat
      BY <1>1, <1>3, <2>2, <3>1, <3>2
    <3> QED
      BY <1>2, <1>3, <1>6, <2>2, <3>3 DEF EnergyHonest
  <2>5. CASE power = -1
    <3>1. total = energy.total - d
      BY <1>1, <1>3, <2>3, <2>5
    <3>2. forward' = forward /\ reverse' = reverse + d
      BY <1>1, <1>2, <1>6, <2>5
    <3> HIDE DEF total
    <3>3. /\ energy'.total \in Nat /\ energy'.total <= forward' /\ energy'.total >= forward' - reverse'
          /\ forward' \in Nat /\ reverse' \in Nat
      BY <1>1, <1>3, <2>2, <3>1, <3>2
    <3> QED
      BY <1>2, <1>3, <1>6, <2>2, <3>3 DEF EnergyHonest
  <2> QED
    BY <1>6, <2>4, <2>5
<1> QED
  BY <1>4, <1>5, <1>6

LEMMA SampleOnTime ==
    ASSUME TimingInv, SampleWhenDue
    PROVE  TimingInv' /\ SamplesPaced
<1>1. /\ step = "sample" /\ step' = "panel" /\ clock' = clock /\ passAt' = passAt /\ nowMs' = nowMs
      /\ UNCHANGED showing
      /\ passAt \in Nat /\ clock \in Nat /\ sampledAt \in Nat /\ stampedAt \in Nat
      /\ passAt <= clock /\ clock <= passAt + MaxPass /\ sampledAt <= passAt
      /\ sensor \in {"ready", "down"}
  BY DEF SampleWhenDue, TimingInv, TimingTyped, PassInv, DeadlineInv
<1>2. PassInv' /\ PanelInv'
  BY <1>1 DEF TimingInv, PassInv, PanelInv, Late, showing
<1>3. CASE passAt - sampledAt >= SampleInterval
  <2>1. lastMs' = nowMs /\ sampledAt' = passAt /\ Read
    BY <1>1, <1>3, DeadlineIsTrue DEF SampleWhenDue
  <2>2. PICK valid \in BOOLEAN, power \in {-1, 0, 1} :
          (valid => power # 0) /\ Takes(valid, power)
    <3>1. Takes(FALSE, 0) \/ \E valid \in BOOLEAN, power \in {-1, 1} : Takes(valid, power)
      BY <2>1 DEF Read
    <3>2. CASE Takes(FALSE, 0)
      BY <3>2
    <3>3. ASSUME NEW valid \in BOOLEAN, NEW power \in {-1, 1}, Takes(valid, power)
          PROVE  \E v \in BOOLEAN, p \in {-1, 0, 1} : (v => p # 0) /\ Takes(v, p)
      <4>1. power \in {-1, 0, 1} /\ power # 0
        OBVIOUS
      <4> QED
        BY <3>3, <4>1
    <3> QED
      BY <3>1, <3>2, <3>3
  <2>3. /\ sample' = [taken |-> TRUE, at |-> clock % Wrap, valid |-> valid]
        /\ stampedAt' = clock
        /\ energy' \in [total : Nat, last : Nat, continuous : BOOLEAN]
        /\ forward' \in Nat /\ reverse' \in Nat
        /\ energy'.continuous = valid
        /\ energy'.continuous => energy'.last = clock % Wrap
        /\ EnergyHonest'
    BY <1>1, <2>2, TakesKeeps
  <2>4. UNCHANGED sensing \/ (sensor = "ready" /\ Fails)
    BY <2>1 DEF Read
  <2>5. /\ window' \in [base : Nat \ {0}, delay : Nat, armedAt : Nat, failed : BOOLEAN]
        /\ sensor' \in {"ready", "down"} /\ failedAt' \in Nat /\ failures' \in Nat
        /\ WindowInv'
    <3>1. CASE UNCHANGED sensing
      BY <1>1, <3>1 DEF TimingInv, TimingTyped, WindowInv, Late, sensing
    <3>2. CASE Fails
      <4>1. /\ sensor' = "down" /\ failedAt' = clock /\ failures' \in Nat \ {0}
            /\ window' \in [base : Nat \ {0}, delay : Nat, armedAt : Nat, failed : BOOLEAN]
            /\ window'.base <= window'.delay /\ window'.delay <= MaxDelay
            /\ window'.failed /\ window'.armedAt = failedAt' % Wrap
            /\ window'.base = Min({Initial * 2 ^ (failures' - 1), MaxDelay})
        BY <3>2, FailsArms
      <4>2. window'.base \in Nat \ {0} /\ window'.delay \in Nat
        BY <4>1
      <4>3. passAt' < failedAt' + window'.delay
        BY <1>1, <4>1, <4>2
      <4> QED
        BY <1>1, <4>1, <4>3 DEF WindowInv, Late
    <3> QED
      BY <2>4, <3>1, <3>2
  <2>6. clock % Wrap \in Nat /\ nowMs \in Nat
    BY <1>1, MillisNat DEF TimingInv, TimingTyped
  <2>7. TimingTyped'
    BY <1>1, <2>1, <2>3, <2>5, <2>6 DEF TimingInv, TimingTyped, showing
  <2>8. DeadlineInv'
    BY <1>1, <2>1, Constants DEF TimingInv, DeadlineInv, PassInv, Late
  <2>9. SampleInv' /\ EnergyInv'
    BY <1>1, <2>1, <2>3, Constants DEF SampleInv, EnergyInv
  <2>10. SamplesPaced
    BY <1>1, <1>3, <2>1, Constants DEF SamplesPaced
  <2> QED
    BY <1>2, <2>5, <2>7, <2>8, <2>9, <2>10 DEF TimingInv
<1>4. CASE ~(passAt - sampledAt >= SampleInterval)
  <2>1. UNCHANGED <<pacing, sensing, measuring>>
    BY <1>1, <1>4, DeadlineIsTrue DEF SampleWhenDue
  <2>2. TimingTyped'
    BY <1>1, <2>1 DEF TimingInv, TimingTyped, pacing, sensing, measuring, showing
  <2>3. DeadlineInv'
    BY <1>1, <1>4, <2>1, Constants DEF TimingInv, DeadlineInv, Late, pacing
  <2>4. WindowInv' /\ SampleInv' /\ EnergyInv'
    BY <1>1, <2>1 DEF TimingInv, WindowInv, SampleInv, EnergyInv, EnergyHonest, Late, pacing, sensing, measuring
  <2>5. SamplesPaced
    BY <1>1, <1>4, <2>1 DEF SamplesPaced, pacing
  <2> QED
    BY <1>2, <2>2, <2>3, <2>4, <2>5 DEF TimingInv
<1> QED
  BY <1>3, <1>4

\* At the panel's turn of a pass, the refresh shows its age, and a sample is
\* fresh if it is young and not from after the pass began.
LEMMA RefreshIsTrue ==
    ASSUME TimingInv, step = "panel", panel.started
    PROVE  Elapsed(nowMs, panel.last) = passAt - shownAt
<1>1. /\ passAt \in Nat /\ shownAt \in Nat /\ shownAt <= passAt
      /\ passAt < shownAt + RefreshInterval + MaxWait
      /\ nowMs = passAt % Wrap /\ panel.last = shownAt % Wrap
  BY DEF TimingInv, TimingTyped, PanelInv, PassInv, Late
<1>2. passAt - shownAt < Wrap
  BY <1>1, Constants
<1> QED
  BY <1>1, <1>2, ElapsedIsTrue

LEMMA FreshIsTrue ==
    ASSUME TimingInv, step = "panel"
    PROVE  Fresh <=> sample.taken /\ passAt - stampedAt \in 0 .. Stale - 1
<1> SUFFICES ASSUME sample.taken
             PROVE  Elapsed(nowMs, sample.at) < Stale <=> passAt - stampedAt \in 0 .. Stale - 1
  BY DEF Fresh
<1>1. /\ passAt \in Nat /\ stampedAt \in Nat /\ sampledAt \in Nat
      /\ sampledAt <= stampedAt /\ stampedAt <= passAt + MaxPass
      /\ passAt < sampledAt + SampleInterval
      /\ nowMs = passAt % Wrap /\ sample.at = stampedAt % Wrap
  BY Constants DEF TimingInv, TimingTyped, DeadlineInv, SampleInv, PassInv, Late
<1>2. CASE stampedAt <= passAt
  <2>1. passAt - stampedAt < Wrap
    BY <1>1, Constants
  <2>2. Elapsed(nowMs, sample.at) = passAt - stampedAt
    BY <1>1, <1>2, <2>1, ElapsedIsTrue
  <2> QED
    BY <1>1, <1>2, <2>2, Constants
<1>3. CASE passAt < stampedAt
  <2>1. stampedAt - passAt < Wrap
    BY <1>1, Constants
  <2>2. Elapsed(nowMs, sample.at) = Wrap - (stampedAt - passAt)
    BY <1>1, <1>3, <2>1, ElapsedOfAhead
  <2>3. Wrap - (stampedAt - passAt) >= Stale
    BY <1>1, Constants
  <2> QED
    BY <1>1, <1>3, <2>2, <2>3, Constants
<1> QED
  BY <1>1, <1>2, <1>3

LEMMA PanelKeeps ==
    ASSUME TimingInv, RefreshPanel
    PROVE  TimingInv' /\ PanelPaced /\ PanelCurrent
<1>1. /\ step = "panel" /\ step' = "start" /\ clock' = clock /\ passAt' = passAt /\ nowMs' = nowMs
      /\ UNCHANGED <<pacing, sensing, measuring>>
      /\ passAt \in Nat /\ shownAt \in Nat /\ nowMs \in Nat /\ nowMs = passAt % Wrap
      /\ passAt <= clock /\ clock <= passAt + MaxPass /\ clock \in Nat
  BY DEF RefreshPanel, TimingInv, TimingTyped, PassInv
<1>2. PassInv' /\ DeadlineInv'
  BY <1>1, Constants DEF TimingInv, PassInv, DeadlineInv, Late, pacing
<1>3. WindowInv' /\ SampleInv' /\ EnergyInv'
  BY <1>1 DEF TimingInv, WindowInv, SampleInv, EnergyInv, EnergyHonest, Late, pacing, sensing, measuring
<1>4. CASE panel.started /\ passAt - shownAt < RefreshInterval
  <2>1. UNCHANGED <<panel, shownAt>>
    BY <1>1, <1>4, RefreshIsTrue DEF RefreshPanel, showing
  <2>2. TimingTyped'
    BY <1>1, <2>1 DEF TimingInv, TimingTyped, pacing, sensing, measuring
  <2>3. PanelInv'
    BY <1>1, <1>4, <2>1, Constants DEF TimingInv, PanelInv, Late
  <2>4. PanelPaced /\ PanelCurrent
    BY <1>1, <1>4, <2>1, Constants DEF PanelPaced, PanelCurrent
  <2> QED
    BY <1>2, <1>3, <2>2, <2>3, <2>4 DEF TimingInv
<1>5. CASE ~(panel.started /\ passAt - shownAt < RefreshInterval)
  <2>1. /\ panel' = [last |-> nowMs, started |-> TRUE,
                     shows |-> IF Fresh /\ sample.valid THEN "value" ELSE "dashes"]
        /\ shownAt' = passAt
    BY <1>1, <1>5, RefreshIsTrue DEF RefreshPanel
  <2>2. TimingTyped'
    BY <1>1, <2>1 DEF TimingInv, TimingTyped, pacing, sensing, measuring
  <2>3. PanelInv'
    BY <1>1, <2>1, Constants DEF PanelInv, Late
  <2>4. PanelPaced
    BY <1>1, <1>5, <2>1, Constants DEF PanelPaced
  <2>5. PanelCurrent
    <3>1. Fresh <=> sample.taken /\ passAt - stampedAt \in 0 .. Stale - 1
      BY <1>1, FreshIsTrue
    <3>2. stampedAt \in Nat /\ Stale \in Nat
      BY Constants DEF TimingInv, TimingTyped
    <3>3. panel'.shows = IF Fresh /\ sample.valid THEN "value" ELSE "dashes"
      BY <2>1
    <3>4. Fresh => sample.taken /\ passAt - stampedAt < Stale
      BY <1>1, <3>1, <3>2
    <3>5. ~Fresh => ~sample.taken \/ clock - stampedAt >= Stale \/ stampedAt > passAt
      BY <1>1, <3>1, <3>2
    <3> QED
      BY <3>3, <3>4, <3>5 DEF PanelCurrent
  <2> QED
    BY <1>2, <1>3, <2>2, <2>3, <2>4, <2>5 DEF TimingInv
<1> QED
  BY <1>4, <1>5

-------------------------------------------------------------------------------
(* The theorems *)

\* Every step keeps the invariant, and keeps its time.
LEMMA StepKeeps ==
    ASSUME TimingInv, [TimingNext]_timingVars
    PROVE  TimingInv' /\ [RetriesPaced /\ SamplesPaced /\ PanelPaced /\ PanelCurrent]_timingVars
<1>1. CASE Elapse
  <2>1. UNCHANGED <<step, sensing, showing>>
    BY <1>1 DEF Elapse
  <2>2. RetriesPaced /\ SamplesPaced /\ PanelPaced /\ PanelCurrent
    BY <2>1 DEF RetriesPaced, SamplesPaced, PanelPaced, PanelCurrent, showing
  <2> QED
    BY <1>1, <2>2, ElapseKeeps
<1>2. CASE StartPass
  <2>1. step = "start"
    BY <1>2 DEF StartPass
  <2>2. RetriesPaced /\ SamplesPaced /\ PanelPaced /\ PanelCurrent
    BY <2>1 DEF RetriesPaced, SamplesPaced, PanelPaced, PanelCurrent
  <2> QED
    BY <1>2, <2>2, StartKeeps
<1>3. CASE TickSensor
  <2>1. step = "sensor"
    BY <1>3 DEF TickSensor
  <2>2. SamplesPaced /\ PanelPaced /\ PanelCurrent
    BY <2>1 DEF SamplesPaced, PanelPaced, PanelCurrent
  <2> QED
    BY <1>3, <2>2, SensorKeeps
<1>4. CASE SampleWhenDue
  <2>1. step = "sample"
    BY <1>4 DEF SampleWhenDue
  <2>2. RetriesPaced /\ PanelPaced /\ PanelCurrent
    BY <2>1 DEF RetriesPaced, PanelPaced, PanelCurrent
  <2> QED
    BY <1>4, <2>2, SampleOnTime
<1>5. CASE RefreshPanel
  <2>1. step = "panel"
    BY <1>5 DEF RefreshPanel
  <2>2. RetriesPaced /\ SamplesPaced
    BY <2>1 DEF RetriesPaced, SamplesPaced
  <2> QED
    BY <1>5, <2>2, PanelKeeps
<1>6. CASE UNCHANGED timingVars
  BY <1>6 DEF timingVars, pacing, sensing, measuring, showing, TimingInv, TimingTyped, PassInv, DeadlineInv,
              WindowInv, SampleInv, EnergyInv, EnergyHonest, PanelInv, Late
<1> QED
  BY <1>1, <1>2, <1>3, <1>4, <1>5, <1>6 DEF TimingNext

LEMMA TimingHolds == TimingSpec => []TimingInv
BY InitHolds, StepKeeps, PTL DEF TimingSpec

\* The types of the state, and that every variable that holds a reading of
\* millis() holds the time of its event, cut to its width.
THEOREM TimesTrue == TimingSpec => [](TimingTyped /\ PassInv /\ DeadlineInv)
BY TimingHolds, PTL DEF TimingInv

\* measurement.cpp:47: the boot total is what was measured: no time between
\* two attempts of which one failed, and none that a wrap makes up.
THEOREM EnergyAlwaysHonest == TimingSpec => []EnergyHonest
<1>1. TimingInv => EnergyHonest
  BY DEF TimingInv, EnergyInv
<1> QED
  BY <1>1, TimingHolds, PTL

\* scheduler.h:28 and backoff.h:37 ("Rollover-safe"): retries, samples and
\* refreshes come when they are due and no sooner; the panel (display.h:36)
\* never shows a reading that is old, and withholds a young one only if it was
\* stamped after the pass began.
THEOREM AlwaysOnSchedule == TimingSpec => OnSchedule
BY TimingHolds, StepKeeps, PTL DEF TimingSpec, OnSchedule
===============================================================================
