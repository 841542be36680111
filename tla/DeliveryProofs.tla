---------------------------- MODULE DeliveryProofs ----------------------------
(* What Delivery guarantees for any publications, keys, packet ids, queue    *)
(* size and bounds, proved from an inductive invariant; that a graceful stop *)
(* loses none of the acknowledgements it gives; and that Delivery implements *)
(* ReliableIngest.                                                           *)
EXTENDS Delivery, TLAPS

-------------------------------------------------------------------------------
(* Type correctness *)

\* Taking an entry off a queue, or adding one, leaves a queue.
LEMMA QueueStep ==
    ASSUME NEW S, NEW q \in Seq(S)
    PROVE  /\ \A x \in S : Append(q, x) \in Seq(S) /\ Len(Append(q, x)) = Len(q) + 1
           /\ q # <<>> => /\ Head(q) \in S
                          /\ Tail(q) \in Seq(S)
                          /\ Len(Tail(q)) = Len(q) - 1
           /\ Len(q) \in Nat
  OBVIOUS

LEMMA EmptyQueue ==
    ASSUME NEW S
    PROVE  <<>> \in Seq(S) /\ Len(<<>>) = 0
  OBVIOUS

\* Outside the idle phase the worker handles a valid publication, and the
\* phases of readings and of status messages do not mix.
LEMMA WorkTyped ==
    ASSUME TypeOK, ~InPhase("idle")
    PROVE  /\ work \in Work
           /\ work.msg \in Telemetry \cup Status
           /\ \/ InPhase("stored") \/ InPhase("duplicate")
              \/ InPhase("flagging") \/ InPhase("judged")
              => work.msg \in Telemetry
           /\ InPhase("applied") => work.msg \in Status
           /\ \A q : /\ [work EXCEPT !.phase = q].msg = work.msg
                    /\ [work EXCEPT !.phase = q].phase = q
                    /\ [work EXCEPT !.phase = q] = [msg |-> work.msg, phase |-> q]
  BY MsgAssumption DEF TypeOK, InPhase, Idle, Work

LEMMA EffectTyped ==
    ASSUME NEW m \in Msg
    PROVE  Effect(m) \subseteq Keys \cup Status
  BY MsgAssumption DEF Effect, Msg

LEMMA AckTyped ==
    ASSUME TypeOK, NEW m \in Msg, Acknowledge(m)
    PROVE  out' \in Seq(Mids) /\ drained' \subseteq Msg /\ UNCHANGED <<closing, requested>>
<1>1. MidOf[m] \in Mids
  BY MsgAssumption
<1>2. Append(out, MidOf[m]) \in Seq(Mids)
  BY <1>1, QueueStep DEF TypeOK
<1> QED
  BY <1>2 DEF Acknowledge, TypeOK

LEMMA TypeInit == Init => TypeOK
<1> SUFFICES ASSUME Init PROVE TypeOK
  OBVIOUS
<1>1. out \in Seq(Mids) /\ loopq \in Seq(Msg) /\ queue \in Seq(Msg)
  BY EmptyQueue DEF Init
<1>2. Len(queue) <= QueueSize
  BY BoundAssumption DEF Init
<1>3. lives \in 0..MaxLives /\ drops \in 0..MaxDrops /\ failures \in 0..MaxFailures
  BY BoundAssumption DEF Init
<1>4. events \in [Keys -> Nat]
  BY DEF Init
<1> QED
  BY <1>1, <1>2, <1>3, <1>4 DEF Init, TypeOK

LEMMA TypeStep == TypeOK /\ [Next]_vars => TypeOK'
<1> SUFFICES ASSUME TypeOK, [Next]_vars PROVE TypeOK'
  OBVIOUS
<1> USE MsgAssumption, BoundAssumption
        DEF brokerVars, wireVars, processVars, dbVars, historyVars, boundVars
<1>1. ASSUME NEW m \in Msg, Publish(m) PROVE TypeOK'
  BY <1>1 DEF TypeOK, Publish
<1>2. ASSUME NEW m \in Msg, Deliver(m) PROVE TypeOK'
  BY <1>2, QueueStep DEF TypeOK, Deliver
<1>3. CASE BrokerReadsPuback
  BY <1>3, QueueStep DEF TypeOK, BrokerReadsPuback
<1>4. CASE DisconnectSent
  BY <1>4, EmptyQueue DEF TypeOK, DisconnectSent, SessionEnds
<1>5. CASE ConnectionLost
  <2>1. drops' \in 0..MaxDrops
    BY <1>5 DEF TypeOK, ConnectionLost
  <2>2. out' \in Seq(Mids)
    BY <1>5, EmptyQueue DEF ConnectionLost, SessionEnds
  <2> QED
    BY <1>5, <2>1, <2>2 DEF TypeOK, ConnectionLost, SessionEnds
<1>6. CASE Connect
  BY <1>6 DEF TypeOK, Connect
<1>7. CASE Confirm
  BY <1>7 DEF TypeOK, Confirm
<1>8. CASE Enqueue
  <2>1. loopq' \in Seq(Msg) /\ Head(loopq) \in Msg
    BY <1>8, QueueStep DEF TypeOK, Enqueue
  <2>2. queue' \in Seq(Msg) /\ Len(queue') <= QueueSize
    <3>1. CASE queue' = queue
      BY <3>1 DEF TypeOK
    <3>2. CASE queue' = Append(queue, Head(loopq)) /\ Len(queue) < QueueSize
      <4>1. Append(queue, Head(loopq)) \in Seq(Msg)
        BY <2>1, QueueStep DEF TypeOK
      <4>2. Len(Append(queue, Head(loopq))) = Len(queue) + 1 /\ Len(queue) \in Nat
        BY <2>1, QueueStep DEF TypeOK
      <4> QED
        BY <3>2, <4>1, <4>2
    <3> QED
      BY <1>8, <3>1, <3>2 DEF Enqueue, HasRoom
  <2>3. closing' \in BOOLEAN
    BY <1>8 DEF TypeOK, Enqueue, QueueDisconnect
  <2> QED
    BY <1>8, <2>1, <2>2, <2>3 DEF TypeOK, Enqueue
<1>9. CASE Take
  <2>1. Head(queue) \in Msg /\ queue' \in Seq(Msg) /\ Len(queue') <= QueueSize
    BY <1>9, QueueStep DEF TypeOK, Take
  <2>2. out' \in Seq(Mids) /\ drained' \subseteq Msg /\ closing' \in BOOLEAN
    BY <1>9, <2>1, AckTyped DEF TypeOK, Take
  <2>3. work' \in Work \cup {Idle}
    BY <1>9, <2>1 DEF TypeOK, Take, Work, Msg
  <2> QED
    BY <1>9, <2>1, <2>2, <2>3 DEF TypeOK, Take, Acknowledge
<1>10. CASE Persist
  <2>1. work.msg \in Msg /\ work' \in Work
    BY <1>10, WorkTyped DEF Persist, Outcome, InPhase, Work, Msg
  <2> QED
    BY <1>10, <2>1, EffectTyped DEF TypeOK, Persist
<1>11. CASE PersistFails
  <2>1. work.msg \in Msg /\ work' \in Work
    BY <1>11, WorkTyped DEF PersistFails, InPhase, Work, Msg
  <2> QED
    BY <1>11, <2>1, EffectTyped DEF TypeOK, PersistFails
<1>12. CASE Flag
  <2>1. work.msg \in Msg /\ work' \in Work
    BY <1>12, WorkTyped DEF Flag, InPhase, Work, Msg
  <2>2. work.msg \in Telemetry
    BY <1>12, WorkTyped DEF Flag, InPhase
  <2>3. flagged' \subseteq Keys /\ failures' \in 0..MaxFailures
    BY <1>12, <2>2 DEF TypeOK, Flag
  <2>4. UNCHANGED <<brokerVars, wireVars, mode, loopq, queue, requested, db, historyVars, lives, drops>>
    BY <1>12 DEF Flag
  <2> QED
    BY <2>1, <2>3, <2>4
    DEF TypeOK, brokerVars, wireVars, historyVars
<1>13. CASE JudgeAnomalous
  <2>1. work' \in Work
    BY <1>13, WorkTyped DEF JudgeAnomalous, InPhase, Work, Msg
  <2>2. judged' \in [Keys -> Nat]
    <3> DEFINE k0 == KeyOf[work.msg]
    <3>1. judged \in [Keys -> Nat]
      BY DEF TypeOK
    <3>2. judged' = [judged EXCEPT ![k0] = judged[k0] + 1]
      BY <1>13 DEF JudgeAnomalous
    <3>3. k0 \in Keys
      BY <1>13, WorkTyped DEF JudgeAnomalous, InPhase
    <3> HIDE DEF k0
    <3> QED
      BY <3>1, <3>2, <3>3
  <2> QED
    BY <1>13, <2>1, <2>2 DEF TypeOK, JudgeAnomalous
<1>14. CASE Resume
  <2>1. work.msg \in Msg
    BY <1>14, WorkTyped DEF Resume, InPhase, Msg
  <2>2. /\ out' \in Seq(Mids) /\ drained' \subseteq Msg
        /\ closing' \in BOOLEAN /\ requested' \in BOOLEAN
    <3>1. CASE Acknowledge(work.msg)
      BY <3>1, <2>1, AckTyped DEF TypeOK
    <3>2. CASE Withhold
      BY <3>2 DEF TypeOK, Withhold, QueueDisconnect
    <3> QED
      BY <1>14, <3>1, <3>2 DEF Resume
  <2>3. events' \in [Keys -> Nat]
    BY <1>14 DEF TypeOK, Resume
  <2> QED
    BY <1>14, <2>2, <2>3 DEF TypeOK, Resume
<1>15. CASE Start
  <2>1. lives' \in 0..MaxLives
    BY <1>15 DEF TypeOK, Start
  <2> QED
    BY <1>15, <2>1 DEF TypeOK, Start
<1>16. CASE StopBegin
  BY <1>16 DEF TypeOK, StopBegin
<1>17. CASE StopDisconnect
  BY <1>17 DEF TypeOK, StopDisconnect, QueueDisconnect
<1>18. CASE StopFinish
  <2>1. loopq' \in Seq(Msg) /\ queue' \in Seq(Msg)
    BY <1>18, EmptyQueue DEF StopFinish, ProcessEnds
  <2>2. Len(queue') <= QueueSize
    BY <1>18, EmptyQueue DEF StopFinish, ProcessEnds
  <2> QED
    BY <1>18, <2>1, <2>2 DEF TypeOK, StopFinish, ProcessEnds
<1>19. CASE Crash
  <2>1. loopq' \in Seq(Msg) /\ queue' \in Seq(Msg) /\ out' \in Seq(Mids)
    BY <1>19, EmptyQueue DEF Crash, ProcessEnds, SessionEnds
  <2>2. Len(queue') <= QueueSize
    BY <1>19, EmptyQueue DEF Crash, ProcessEnds
  <2> QED
    BY <1>19, <2>1, <2>2 DEF TypeOK, Crash, ProcessEnds, SessionEnds
<1>20. CASE UNCHANGED vars
  BY <1>20 DEF TypeOK, vars
<1> QED
  BY <1>1, <1>2, <1>3, <1>4, <1>5, <1>6, <1>7, <1>8, <1>9, <1>10, <1>11, <1>12,
     <1>13, <1>14, <1>15, <1>16, <1>17, <1>18, <1>19, <1>20
  DEF Next, Network, Loop, Threads, Lifecycle

\* Spec never leaves the states of the declared types; in particular the
\* ingress queue never holds more than its bound.
THEOREM TypeCorrect == Spec => []TypeOK
  BY TypeInit, TypeStep, PTL DEF Spec

-------------------------------------------------------------------------------
(* The broker forgets only what is decided, a reading is broadcast once.     *)
(* Neither is inductive: a PUBACK on the wire must already be justified for  *)
(* every publication that may hold its packet id, and what the worker knows  *)
(* about its record must still hold when it resumes.                         *)

\* Every PUBACK on its way names an id whose publication is decided.
PubacksJustified ==
    \A i \in 1..Len(out) : \A m \in Msg : MidOf[m] = out[i] => Decided(m)

\* Once the transaction answered, the record under the worker is decided.
WorkDecided ==
    InPhase("stored") \/ InPhase("duplicate") \/ InPhase("applied")
        \/ InPhase("flagging") \/ InPhase("judged") => Decided(work.msg)

\* A row just inserted was never broadcast.
StoredIsSilent ==
    InPhase("stored") \/ InPhase("flagging") \/ InPhase("judged")
        => events[KeyOf[work.msg]] = 0

IInv == /\ TypeOK
        /\ ReleasedIsDecided
        /\ PubacksJustified
        /\ WorkDecided
        /\ BroadcastOnce
        /\ StoredIsSilent

\* Acknowledging a decided record keeps every PUBACK justified.
LEMMA AckJustified ==
    ASSUME FreshMids, TypeOK, PubacksJustified, NEW m \in Msg, Decided(m),
           Acknowledge(m), db' = db
    PROVE  PubacksJustified'
<1> SUFFICES ASSUME NEW i \in 1..Len(out'), NEW n \in Msg, MidOf[n] = out'[i]
             PROVE  Decided(n)'
  BY DEF PubacksJustified
<1>1. Decided(n)' <=> Decided(n)
  BY DEF Decided
<1>2. CASE i \in 1..Len(out) /\ out'[i] = out[i]
  BY <1>1, <1>2 DEF PubacksJustified
<1>3. CASE out'[i] = MidOf[m]
  BY <1>1, <1>3 DEF FreshMids
<1> QED
  <2>1. CASE out' = out
    BY <2>1, <1>2
  <2>2. CASE out' = Append(out, MidOf[m])
    BY <2>2, <1>2, <1>3 DEF TypeOK
  <2> QED
    BY <2>1, <2>2 DEF Acknowledge

\* What the database has committed stays committed, so decisions stand.
LEMMA DecisionsStand ==
    ASSUME db \subseteq db', NEW m \in Msg, Decided(m)
    PROVE  Decided(m)'
  BY DEF Decided

\* A transaction that only adds to db preserves what rests on decisions.
LEMMA CommitKeeps ==
    ASSUME IInv, db \subseteq db', UNCHANGED <<released, out, events>>
    PROVE  ReleasedIsDecided' /\ PubacksJustified' /\ BroadcastOnce'
<1>1. ReleasedIsDecided'
  BY DecisionsStand DEF IInv, TypeOK, ReleasedIsDecided
<1>2. PubacksJustified'
  BY DecisionsStand DEF IInv, PubacksJustified
<1>3. BroadcastOnce'
  BY DEF IInv, BroadcastOnce, TypeOK
<1> QED
  BY <1>1, <1>2, <1>3

\* A step that leaves the database, the PUBACKs, the broadcasts and the worker
\* alone, or frees the worker and drops PUBACKs, preserves the invariant.
LEMMA QuietStep ==
    ASSUME IInv, TypeOK', UNCHANGED <<released, db, events>>,
           out' \in {out, <<>>}, work' \in {work, Idle}
    PROVE  IInv'
<1>1. ReleasedIsDecided' /\ BroadcastOnce'
  BY DEF IInv, ReleasedIsDecided, Decided, BroadcastOnce
<1>2. PubacksJustified'
  BY DEF IInv, PubacksJustified, Decided
<1>3. WorkDecided' /\ StoredIsSilent'
  BY DEF IInv, WorkDecided, StoredIsSilent, InPhase, Idle, Decided
<1> QED
  BY <1>1, <1>2, <1>3 DEF IInv

LEMMA IInvInit == Init => IInv
<1> SUFFICES ASSUME Init PROVE IInv
  OBVIOUS
<1>1. TypeOK
  BY TypeInit
<1>2. ReleasedIsDecided /\ PubacksJustified
  BY DEF Init, ReleasedIsDecided, PubacksJustified
<1>3. WorkDecided /\ StoredIsSilent
  BY DEF Init, WorkDecided, StoredIsSilent, InPhase, Idle
<1>4. BroadcastOnce
  BY DEF Init, BroadcastOnce
<1> QED
  BY <1>1, <1>2, <1>3, <1>4 DEF IInv

LEMMA IInvStep == FreshMids /\ IInv /\ [Next]_vars => IInv'
<1> SUFFICES ASSUME FreshMids, IInv, [Next]_vars PROVE IInv'
  OBVIOUS
<1>T. TypeOK /\ TypeOK'
  BY TypeStep DEF IInv
<1> USE DEF brokerVars, wireVars, processVars, dbVars, historyVars, boundVars
<1>1. ASSUME NEW m \in Msg, Publish(m) PROVE IInv'
  BY <1>1, <1>T, QuietStep DEF Publish
<1>2. ASSUME NEW m \in Msg, Deliver(m) PROVE IInv'
  BY <1>2, <1>T, QuietStep DEF Deliver
<1>3. CASE BrokerReadsPuback
  <2>1. out # <<>> /\ Head(out) = out[1] /\ 1 \in 1..Len(out)
    BY <1>3, <1>T DEF BrokerReadsPuback, TypeOK
  <2>2. \A m \in inflight : MidOf[m] = Head(out) => Decided(m)
    BY <2>1, <1>T DEF IInv, PubacksJustified, TypeOK
  <2>3. ReleasedIsDecided'
    BY <1>3, <2>2 DEF BrokerReadsPuback, IInv, ReleasedIsDecided, Decided
  <2>4. \A i \in 1..Len(out') : i + 1 \in 1..Len(out) /\ out'[i] = out[i + 1]
    BY <1>3, <1>T DEF BrokerReadsPuback, TypeOK
  <2>5. PubacksJustified'
    BY <1>3, <2>4 DEF BrokerReadsPuback, IInv, PubacksJustified, Decided
  <2>6. BroadcastOnce' /\ WorkDecided' /\ StoredIsSilent'
    BY <1>3 DEF BrokerReadsPuback, IInv, BroadcastOnce, WorkDecided,
                StoredIsSilent, InPhase, Decided
  <2> QED
    BY <1>T, <2>3, <2>5, <2>6 DEF IInv
<1>4. CASE DisconnectSent
  BY <1>4, <1>T, QuietStep DEF DisconnectSent, SessionEnds
<1>5. CASE ConnectionLost
  BY <1>5, <1>T, QuietStep DEF ConnectionLost, SessionEnds
<1>6. CASE Connect
  BY <1>6, <1>T, QuietStep DEF Connect
<1>7. CASE Confirm
  BY <1>7, <1>T, QuietStep DEF Confirm
<1>8. CASE Enqueue
  BY <1>8, <1>T, QuietStep DEF Enqueue
<1>9. CASE Take
  <2>1. Head(queue) \in Msg
    BY <1>9, <1>T, QueueStep DEF Take, TypeOK
  <2>2. UNCHANGED <<released, db, events>>
    BY <1>9 DEF Take
  <2>3. CASE Head(queue) \in Invalid /\ Acknowledge(Head(queue)) /\ work' = work
    <3>1. Decided(Head(queue))
      BY <2>3, MsgAssumption DEF Decided, Effect
    <3>2. PubacksJustified'
      BY <2>1, <2>2, <2>3, <3>1, <1>T, AckJustified DEF IInv
    <3> QED
      BY <1>T, <2>2, <2>3, <3>2
      DEF IInv, ReleasedIsDecided, Decided, BroadcastOnce, WorkDecided,
          StoredIsSilent, InPhase
  <2>4. CASE work' = [msg |-> Head(queue), phase |-> "persisting"] /\ out' = out
    BY <1>T, <2>2, <2>4
    DEF IInv, ReleasedIsDecided, PubacksJustified, Decided, BroadcastOnce,
        WorkDecided, StoredIsSilent, InPhase
  <2> QED
    BY <1>9, <2>3, <2>4 DEF Take
<1>10. CASE Persist
  <2>1. work.msg \in Telemetry \cup Status /\ ~InPhase("idle")
    BY <1>10, <1>T, WorkTyped DEF Persist, InPhase
  <2>2. /\ db' = db \cup Effect(work.msg) /\ work'.msg = work.msg
        /\ UNCHANGED <<released, out, events>>
    BY <1>10, <1>T, <2>1, WorkTyped DEF Persist
  <2>3. ReleasedIsDecided' /\ PubacksJustified' /\ BroadcastOnce'
    BY <2>2, CommitKeeps
  <2>4. WorkDecided'
    BY <2>2 DEF WorkDecided, Decided
  <2>5. StoredIsSilent'
    <3>1. CASE ~(work'.phase \in {"stored", "flagging", "judged"})
      BY <3>1 DEF StoredIsSilent, InPhase
    <3>2. CASE work'.phase \in {"stored", "flagging", "judged"}
      <4>1. work.msg \notin Status /\ ~Decided(work.msg)
        BY <1>10, <1>T, <2>1, <3>2, WorkTyped DEF Persist, Outcome
      <4>2. KeyOf[work.msg] \in Keys /\ KeyOf[work.msg] \notin db
        BY <2>1, <4>1, MsgAssumption DEF Decided, Effect
      <4>3. events[KeyOf[work.msg]] = 0
        <5> DEFINE k == KeyOf[work.msg]
        <5>1. events \in [Keys -> Nat] /\ BroadcastOnce
          BY <1>T DEF IInv, TypeOK
        <5>2. k \in Keys /\ k \notin db
          BY <4>2
        <5> HIDE DEF k
        <5>3. events[k] \in Nat /\ events[k] <= 0
          BY <5>1, <5>2 DEF BroadcastOnce
        <5>4. events[k] = 0
          BY <5>3
        <5> QED
          BY <5>4 DEF k
      <4> QED
        BY <2>2, <4>3 DEF StoredIsSilent
    <3> QED
      BY <3>1, <3>2
  <2> QED
    BY <1>T, <2>3, <2>4, <2>5 DEF IInv
<1>11. CASE PersistFails
  <2>1. /\ db \subseteq db' /\ work'.phase = "failed"
        /\ UNCHANGED <<released, out, events>>
    BY <1>11, <1>T, WorkTyped DEF PersistFails, InPhase
  <2>2. ReleasedIsDecided' /\ PubacksJustified' /\ BroadcastOnce'
    BY <2>1, CommitKeeps
  <2>3. WorkDecided' /\ StoredIsSilent'
    BY <2>1 DEF WorkDecided, StoredIsSilent, InPhase
  <2> QED
    BY <1>T, <2>2, <2>3 DEF IInv
<1>12. CASE Flag
  <2>1. work.msg \in Telemetry /\ KeyOf[work.msg] \in db /\ events[KeyOf[work.msg]] = 0
    BY <1>12, <1>T, WorkTyped
    DEF Flag, IInv, WorkDecided, StoredIsSilent, InPhase, Decided, Effect
  <2>2. /\ work'.msg = work.msg
        /\ work'.phase = "judged" /\ UNCHANGED <<released, out, events, db>>
    BY <1>12, <1>T, WorkTyped DEF Flag, InPhase
  <2>3. Decided(work.msg)
    BY <2>1, <2>2 DEF Decided, Effect
  <2> QED
    BY <1>T, <2>1, <2>2, <2>3
    DEF IInv, ReleasedIsDecided, PubacksJustified, Decided, BroadcastOnce, WorkDecided,
        StoredIsSilent
<1>13. CASE JudgeAnomalous
  <2>1. /\ work'.msg = work.msg /\ work'.phase = "flagging" /\ InPhase("stored")
        /\ UNCHANGED <<released, out, events, db>>
    BY <1>13, <1>T, WorkTyped DEF JudgeAnomalous, InPhase
  <2> QED
    BY <1>T, <2>1
    DEF IInv, ReleasedIsDecided, PubacksJustified, Decided, BroadcastOnce, WorkDecided,
        StoredIsSilent
<1>14. CASE Resume
  <2>1. work.msg \in Msg /\ ~InPhase("idle")
    BY <1>14, <1>T, WorkTyped DEF Resume, InPhase, Msg
  <2>2. work' = Idle /\ UNCHANGED <<released, db>>
    BY <1>14 DEF Resume
  <2>3. WorkDecided' /\ StoredIsSilent'
    BY <2>2 DEF WorkDecided, StoredIsSilent, InPhase, Idle
  <2>4. ReleasedIsDecided'
    BY <2>2 DEF IInv, ReleasedIsDecided, Decided
  <2>5. PubacksJustified'
    <3>1. CASE Withhold
      BY <2>2, <3>1 DEF Withhold, IInv, PubacksJustified, Decided
    <3>2. CASE Acknowledge(work.msg) /\ Decided(work.msg)
      BY <2>1, <2>2, <3>2, <1>T, AckJustified DEF IInv
    <3> QED
      BY <1>14, <3>1, <3>2 DEF Resume, IInv, WorkDecided
  <2>6. BroadcastOnce'
    <3>1. CASE events' = events
      BY <2>2, <3>1 DEF IInv, BroadcastOnce
    <3>2. CASE /\ InPhase("stored") \/ InPhase("judged")
               /\ events' = [events EXCEPT ![KeyOf[work.msg]] = @ + 1]
      <4>1. /\ work.msg \in Telemetry /\ KeyOf[work.msg] \in db
            /\ events[KeyOf[work.msg]] = 0
        BY <3>2, <1>T, <2>1, WorkTyped
        DEF IInv, WorkDecided, StoredIsSilent, Decided, Effect
      <4> DEFINE k == KeyOf[work.msg]
      <4>2. events \in [Keys -> Nat] /\ BroadcastOnce
        BY <1>T DEF IInv, TypeOK
      <4>3. k \in db /\ db' = db /\ events[k] = 0 /\ events' = [events EXCEPT ![k] = @ + 1]
        BY <2>2, <3>2, <4>1
      <4> HIDE DEF k
      <4>4. ASSUME NEW j \in Keys PROVE events'[j] <= IF j \in db' THEN 1 ELSE 0
        <5>1. CASE j = k
          BY <4>2, <4>3, <5>1
        <5>2. CASE j # k
          BY <4>2, <4>3, <5>2 DEF BroadcastOnce
        <5> QED
          BY <5>1, <5>2
      <4> QED
        BY <4>4 DEF BroadcastOnce
    <3> QED
      BY <1>14, <3>1, <3>2 DEF Resume
  <2> QED
    BY <1>T, <2>3, <2>4, <2>5, <2>6 DEF IInv
<1>15. CASE Start
  BY <1>15, <1>T, QuietStep DEF Start
<1>16. CASE StopBegin
  BY <1>16, <1>T, QuietStep DEF StopBegin
<1>17. CASE StopDisconnect
  BY <1>17, <1>T, QuietStep DEF StopDisconnect
<1>18. CASE StopFinish
  BY <1>18, <1>T, QuietStep DEF StopFinish, ProcessEnds
<1>19. CASE Crash
  BY <1>19, <1>T, QuietStep DEF Crash, ProcessEnds, SessionEnds
<1>20. CASE UNCHANGED vars
  BY <1>20, <1>T, QuietStep DEF vars
<1> QED
  BY <1>1, <1>2, <1>3, <1>4, <1>5, <1>6, <1>7, <1>8, <1>9, <1>10, <1>11, <1>12,
     <1>13, <1>14, <1>15, <1>16, <1>17, <1>18, <1>19, <1>20
  DEF Next, Network, Loop, Threads, Lifecycle

\* A broker that gives each publication of the session an id of its own never
\* forgets one whose effect is not committed, whatever crashes, connections
\* lost, redeliveries and storage failures come in between.
THEOREM Durability == ASSUME FreshMids PROVE Spec => []ReleasedIsDecided
<1>1. IInv => ReleasedIsDecided
  BY DEF IInv
<1> QED
  BY <1>1, FreshMids, IInvInit, IInvStep, PTL DEF Spec

\* No reading is broadcast twice, nor before its row is committed.
THEOREM SingleBroadcast == ASSUME FreshMids PROVE Spec => []BroadcastOnce
<1>1. IInv => BroadcastOnce
  BY DEF IInv
<1> QED
  BY <1>1, FreshMids, IInvInit, IInvStep, PTL DEF Spec

-------------------------------------------------------------------------------
(* What the worker knows about its record, when a reading is judged and what *)
(* becomes of it, does not depend on the packet ids.                         *)

\* While its row is new to the handler a reading has no verdict, then one.
JudgedByPhase ==
    \A k \in Keys : Handling(k) => judged[k] = IF InPhase("stored") THEN 0 ELSE 1

VInv == TypeOK /\ WorkDecided /\ BroadcastOnce /\ VerdictIsolated /\ JudgedByPhase

\* A handler at work on a reading of its own has committed it.
LEMMA HandlingTyped ==
    ASSUME VInv, InPhase("stored") \/ InPhase("flagging") \/ InPhase("judged")
    PROVE  /\ work.msg \in Telemetry /\ KeyOf[work.msg] \in Keys
           /\ KeyOf[work.msg] \in db /\ ~InPhase("idle")
           /\ Handling(KeyOf[work.msg])
<1>1. ~InPhase("idle") /\ TypeOK
  BY DEF InPhase, VInv
<1>2. work.msg \in Telemetry
  BY <1>1, WorkTyped
<1> QED
  BY <1>1, <1>2, MsgAssumption DEF VInv, WorkDecided, Decided, Effect, Handling

\* A step that judges and announces nothing, and either leaves the worker alone
\* or takes it off a record whose handling it cuts short.
LEMMA UnjudgedStep ==
    ASSUME VInv, TypeOK', UNCHANGED <<flagged, events, judged>>,
           db \subseteq db', cutShort \subseteq cutShort',
           Keys \cap (db' \ db) \subseteq cutShort',
           \/ work' = work
           \/ /\ work'.phase \in {"idle", "persisting", "failed"}
              /\ \A k \in Keys : Handling(k) => k \in cutShort'
    PROVE  VInv'
<1>1. BroadcastOnce'
  BY DEF VInv, BroadcastOnce, TypeOK
<1>2. CASE work' = work
  <2>1. \A k : Handling(k)' <=> Handling(k)
    BY <1>2 DEF Handling, InPhase
  <2>2. InPhase("stored")' <=> InPhase("stored")
    BY <1>2 DEF InPhase
  <2>3. WorkDecided'
    BY <1>2 DEF VInv, WorkDecided, InPhase, Decided
  <2>4. VerdictIsolated'
    BY <2>1 DEF VInv, VerdictIsolated, TypeOK
  <2>5. JudgedByPhase'
    BY <2>1, <2>2 DEF VInv, JudgedByPhase
  <2> QED
    BY <1>1, <2>3, <2>4, <2>5 DEF VInv
<1>3. CASE /\ work'.phase \in {"idle", "persisting", "failed"}
           /\ \A k \in Keys : Handling(k) => k \in cutShort'
  <2>1. \A k : ~Handling(k)'
    BY <1>3 DEF Handling, InPhase
  <2>2. WorkDecided'
    BY <1>3 DEF WorkDecided, InPhase
  <2>3. VerdictIsolated'
    BY <1>3, <2>1 DEF VInv, VerdictIsolated, TypeOK
  <2>4. JudgedByPhase'
    BY <2>1 DEF JudgedByPhase
  <2> QED
    BY <1>1, <2>2, <2>3, <2>4 DEF VInv
<1> QED
  BY <1>2, <1>3

LEMMA VInvStep == VInv /\ [Next]_vars => VInv'
<1> SUFFICES ASSUME VInv, [Next]_vars PROVE VInv'
  OBVIOUS
<1>T. TypeOK /\ TypeOK'
  BY TypeStep DEF VInv
<1> USE DEF brokerVars, wireVars, processVars, dbVars, historyVars, boundVars
<1>1. CASE \E m \in Msg : Publish(m) \/ Deliver(m)
  BY <1>1, <1>T, UnjudgedStep DEF Publish, Deliver
<1>2. CASE BrokerReadsPuback \/ DisconnectSent \/ ConnectionLost \/ Connect \/ Confirm \/ Enqueue
  BY <1>2, <1>T, UnjudgedStep
     DEF BrokerReadsPuback, DisconnectSent, ConnectionLost, Connect, Confirm, Enqueue
<1>3. CASE Start \/ StopBegin \/ StopDisconnect \/ UNCHANGED vars
  BY <1>3, <1>T, UnjudgedStep DEF Start, StopBegin, StopDisconnect, vars
<1>4. CASE StopFinish \/ Crash
  <2>1. /\ UNCHANGED <<db, flagged, events, judged>> /\ cutShort \subseteq cutShort'
        /\ work' = Idle /\ \A k \in Keys : Handling(k) => k \in cutShort'
    BY <1>4 DEF StopFinish, Crash, ProcessEnds
  <2>2. work'.phase = "idle"
    BY <2>1 DEF Idle
  <2> QED
    BY <1>T, <2>1, <2>2, UnjudgedStep
<1>5. CASE Take
  <2>1. UNCHANGED <<db, flagged, events, judged, cutShort>> /\ work = Idle
    BY <1>5 DEF Take
  <2>2. work' = work \/ work'.phase = "persisting"
    BY <1>5 DEF Take
  <2>3. \A k \in Keys : ~Handling(k)
    BY <2>1 DEF Handling, InPhase, Idle
  <2> QED
    BY <1>T, <2>1, <2>2, <2>3, UnjudgedStep
<1>6. CASE PersistFails
  <2>1. ~InPhase("idle") /\ \A k \in Keys : ~Handling(k)
    BY <1>6 DEF PersistFails, InPhase, Handling
  <2>2. /\ work'.phase = "failed" /\ db \subseteq db' /\ UNCHANGED <<flagged, events, judged>>
        /\ cutShort \subseteq cutShort' /\ Keys \cap (db' \ db) \subseteq cutShort'
    BY <1>6, <1>T, <2>1, WorkTyped DEF PersistFails
  <2> QED
    BY <1>T, <2>1, <2>2, UnjudgedStep
<1>7. CASE Persist
  <2>1. /\ ~InPhase("idle") /\ work.msg \in Telemetry \cup Status
        /\ \A k \in Keys : ~Handling(k)
    BY <1>7, <1>T, WorkTyped DEF Persist, InPhase, Handling
  <2>2. /\ work'.msg = work.msg /\ work'.phase = Outcome(work.msg)
        /\ db' = db \cup Effect(work.msg)
        /\ UNCHANGED <<flagged, events, judged, cutShort>>
    BY <1>7, <1>T, <2>1, WorkTyped DEF Persist
  <2>3. WorkDecided' /\ BroadcastOnce'
    BY <1>T, <2>2 DEF VInv, WorkDecided, Decided, BroadcastOnce, TypeOK
  <2>4. \A k \in Keys : k \in db' \ db =>
            /\ work.msg \in Telemetry /\ KeyOf[work.msg] = k
            /\ work'.phase = "stored"
    BY <2>1, <2>2, MsgAssumption DEF Effect, Outcome, Decided
  <2>5. \A k \in Keys : k \in db' \ db => Handling(k)'
    BY <2>2, <2>4 DEF Handling, InPhase
  <2>6. \A k \in Keys : Handling(k)' =>
            k \notin db /\ judged[k] = 0 /\ events[k] = 0 /\ work'.phase = "stored"
    <3> SUFFICES ASSUME NEW k \in Keys, Handling(k)'
                 PROVE  k \notin db /\ judged[k] = 0 /\ events[k] = 0 /\ work'.phase = "stored"
      OBVIOUS
    <3>1. Outcome(work.msg) = "stored" /\ KeyOf[work.msg] = k
      BY <2>2 DEF Handling, InPhase, Outcome
    <3>2. work.msg \in Telemetry /\ k \notin db
      BY <2>1, <3>1, MsgAssumption DEF Outcome, Decided, Effect
    <3> QED
      BY <1>T, <2>2, <3>1, <3>2 DEF VInv, VerdictIsolated, BroadcastOnce, TypeOK
  <2>7. VerdictIsolated'
    BY <1>T, <2>1, <2>2, <2>5, <2>6 DEF VInv, VerdictIsolated, TypeOK
  <2>8. JudgedByPhase'
    BY <2>2, <2>6 DEF JudgedByPhase, InPhase
  <2> QED
    BY <1>T, <2>3, <2>7, <2>8 DEF VInv
<1>8. CASE Flag
  <2> DEFINE k0 == KeyOf[work.msg]
  <2>1. /\ ~InPhase("idle") /\ k0 \in Keys /\ k0 \in db /\ Handling(k0)
        /\ InPhase("flagging")
    BY <1>8, HandlingTyped DEF Flag
  <2>2. /\ work'.msg = work.msg /\ work'.phase = "judged"
        /\ UNCHANGED <<db, events, judged, cutShort>>
        /\ flagged' \subseteq flagged \cup {k0}
    BY <1>8, <1>T, <2>1, WorkTyped DEF Flag
  <2>3. \A k : Handling(k)' <=> Handling(k)
    BY <2>1, <2>2 DEF Handling, InPhase
  <2>4. judged[k0] = 1
    BY <2>1 DEF VInv, JudgedByPhase, InPhase
  <2>5. VerdictIsolated'
    BY <2>2, <2>3, <2>4 DEF VInv, VerdictIsolated
  <2>6. JudgedByPhase'
    BY <2>1, <2>2, <2>3 DEF VInv, JudgedByPhase, InPhase
  <2>7. WorkDecided' /\ BroadcastOnce'
    BY <2>1, <2>2 DEF VInv, WorkDecided, Decided, BroadcastOnce
  <2> QED
    BY <1>T, <2>5, <2>6, <2>7 DEF VInv
<1>9. CASE JudgeAnomalous
  <2> DEFINE k0 == KeyOf[work.msg]
  <2>1. /\ ~InPhase("idle") /\ k0 \in Keys /\ k0 \in db /\ Handling(k0)
        /\ InPhase("stored")
    BY <1>9, HandlingTyped DEF JudgeAnomalous
  <2>2. /\ work'.msg = work.msg /\ work'.phase = "flagging"
        /\ UNCHANGED <<db, flagged, events, cutShort>>
        /\ judged' = [judged EXCEPT ![k0] = @ + 1]
    BY <1>9, <1>T, <2>1, WorkTyped DEF JudgeAnomalous
  <2>3. \A k : Handling(k)' <=> k = k0
    BY <2>2 DEF Handling, InPhase
  <2>4. judged[k0] = 0 /\ events[k0] = 0
    BY <2>1 DEF VInv, JudgedByPhase, VerdictIsolated
  <2>5. judged'[k0] = 1 /\ \A k \in Keys \ {k0} : judged'[k] = judged[k]
    BY <1>T, <2>1, <2>2, <2>4 DEF TypeOK
  <2>6. VerdictIsolated'
    <3> SUFFICES ASSUME NEW k \in Keys
                 PROVE  /\ judged'[k] <= IF k \in db THEN 1 ELSE 0
                        /\ k \in flagged => judged'[k] = 1
                        /\ k \in db => events[k] = 1 \/ Handling(k)' \/ k \in cutShort
                        /\ Handling(k)' => events[k] = 0
      BY <2>2 DEF VerdictIsolated
    <3>1. CASE k = k0
      BY <2>1, <2>3, <2>4, <2>5, <3>1
    <3>2. CASE k # k0
      <4>1. ~Handling(k) /\ ~Handling(k)'
        BY <2>3, <3>2 DEF Handling
      <4> QED
        BY <2>5, <3>2, <4>1 DEF VInv, VerdictIsolated
    <3> QED
      BY <3>1, <3>2
  <2>7. JudgedByPhase'
    BY <2>2, <2>3, <2>5 DEF JudgedByPhase, InPhase
  <2>8. WorkDecided' /\ BroadcastOnce'
    BY <2>1, <2>2 DEF VInv, WorkDecided, Decided, BroadcastOnce
  <2> QED
    BY <1>T, <2>6, <2>7, <2>8 DEF VInv
<1>10. CASE Resume
  <2>1. work' = Idle /\ work'.phase = "idle" /\ UNCHANGED <<db, flagged, judged, cutShort>>
    BY <1>10 DEF Resume, Idle
  <2>2. CASE InPhase("duplicate") \/ InPhase("applied") \/ InPhase("failed")
    <3>1. events' = events /\ \A k \in Keys : ~Handling(k)
      BY <1>10, <2>2 DEF Resume, InPhase, Handling
    <3> QED
      BY <1>T, <2>1, <3>1, UnjudgedStep
  <2>3. CASE InPhase("stored") \/ InPhase("judged")
    <3> DEFINE k0 == KeyOf[work.msg]
    <3>1. k0 \in Keys /\ k0 \in db /\ Handling(k0)
      BY <2>3, HandlingTyped
    <3>2. events' = [events EXCEPT ![k0] = @ + 1] /\ events[k0] = 0
      BY <1>10, <2>3, <3>1 DEF Resume, InPhase, VInv, VerdictIsolated
    <3>3. events'[k0] = 1 /\ \A k \in Keys \ {k0} : events'[k] = events[k]
      BY <1>T, <3>1, <3>2 DEF TypeOK
    <3>4. \A k : ~Handling(k)' /\ (Handling(k) => k = k0)
      BY <2>1 DEF Handling, InPhase
    <3>5. VerdictIsolated'
      <4> SUFFICES ASSUME NEW k \in Keys
                   PROVE  /\ judged[k] <= IF k \in db THEN 1 ELSE 0
                          /\ k \in flagged => judged[k] = 1
                          /\ k \in db => events'[k] = 1 \/ k \in cutShort
        BY <2>1, <3>4 DEF VerdictIsolated
      <4> QED
        BY <3>3, <3>4 DEF VInv, VerdictIsolated
    <3>6. JudgedByPhase' /\ WorkDecided'
      BY <2>1, <3>4 DEF JudgedByPhase, WorkDecided, InPhase
    <3>7. BroadcastOnce'
      BY <2>1, <3>1, <3>3 DEF VInv, BroadcastOnce
    <3> QED
      BY <1>T, <3>5, <3>6, <3>7 DEF VInv
  <2> QED
    BY <1>10, <2>2, <2>3 DEF Resume
<1> QED
  BY <1>1, <1>2, <1>3, <1>4, <1>5, <1>6, <1>7, <1>8, <1>9, <1>10
  DEF Next, Network, Loop, Threads, Lifecycle

\* A reading is judged at most once, after its commit and before its broadcast,
\* and a verdict or the failure of its transaction never costs the broadcast
\* (ingestion.py:163-200, 228-275), whatever packet ids the broker uses.
THEOREM InferenceIsolated == Spec => []VerdictIsolated
<1>1. Init => VInv
  <2> SUFFICES ASSUME Init PROVE VInv
    OBVIOUS
  <2>1. \A k : ~Handling(k)
    BY DEF Init, Handling, InPhase, Idle
  <2> QED
    BY <2>1, TypeInit
    DEF Init, VInv, WorkDecided, BroadcastOnce, VerdictIsolated, JudgedByPhase, InPhase, Idle
<1>2. VInv => VerdictIsolated
  BY DEF VInv
<1> QED
  BY <1>1, <1>2, VInvStep, PTL DEF Spec

-------------------------------------------------------------------------------
(* What a graceful stop owes the broker, and the refinement *)

\* Whatever is queued, scheduled or being handled was sent by the broker.
RecordsSent ==
    /\ inflight \cup released \subseteq routed
    /\ \A i \in 1..Len(loopq) : loopq[i] \in inflight \cup released
    /\ \A i \in 1..Len(queue) : queue[i] \in inflight \cup released
    /\ ~InPhase("idle") => work.msg \in inflight \cup released

\* Nothing is on a wire that is down, and a process that is off has none.
WireQuiet ==
    /\ session = "down" => out = <<>> /\ ~closing
    /\ mode = "off" => session = "down"

\* While stop() drains over an unbroken connection, PUBACKs still get through.
DrainConnected == mode = "draining" /\ clean => session # "down" /\ ~closing

\* An acknowledgement given while draining has arrived or is on its way.
DrainedOnTheirWay ==
    clean => \A m \in drained :
                m \in released \/ (m \in inflight /\ Occurs(MidOf[m], out))

WInv == /\ TypeOK
        /\ RecordsSent
        /\ WireQuiet
        /\ DrainConnected
        /\ DrainedOnTheirWay

LEMMA WInvInit == Init => WInv
<1> SUFFICES ASSUME Init PROVE WInv
  OBVIOUS
<1>1. TypeOK
  BY TypeInit
<1>2. RecordsSent
  BY DEF Init, RecordsSent, InPhase, Idle
<1>3. WireQuiet /\ DrainConnected /\ DrainedOnTheirWay
  BY DEF Init, WireQuiet, DrainConnected, DrainedOnTheirWay
<1> QED
  BY <1>1, <1>2, <1>3 DEF WInv

-------------------------------------------------------------------------------
(* Records only come from the broker. *)

\* A step that moves no record, or loses some, keeps their origin.
LEMMA SameRecords ==
    ASSUME RecordsSent,
           inflight \cup released \subseteq inflight' \cup released',
           inflight' \cup released' \subseteq routed',
           loopq' \in {loopq, <<>>}, queue' \in {queue, <<>>}, work' \in {work, Idle}
    PROVE  RecordsSent'
  BY DEF RecordsSent, InPhase, Idle

LEMMA RecordsStep == TypeOK /\ RecordsSent /\ [Next]_vars => RecordsSent'
<1> SUFFICES ASSUME TypeOK, RecordsSent, [Next]_vars PROVE RecordsSent'
  OBVIOUS
<1> USE DEF brokerVars, wireVars, processVars, dbVars, historyVars, boundVars
<1>0. inflight \cup released \subseteq routed
  BY DEF RecordsSent
<1>1. ASSUME NEW m \in Msg, Publish(m) PROVE RecordsSent'
  BY <1>0, <1>1, SameRecords DEF Publish
<1>2. ASSUME NEW m \in Msg, Deliver(m) PROVE RecordsSent'
  <2>1. /\ inflight' = inflight \cup {m} /\ m \in routed
        /\ UNCHANGED <<routed, released, queue, work>>
    BY <1>2 DEF Deliver, Sendable
  <2>2. \A i \in 1..Len(loopq') : loopq'[i] \in inflight' \cup released'
    BY <1>2, <2>1 DEF Deliver, RecordsSent, TypeOK
  <2> QED
    BY <2>1, <2>2 DEF RecordsSent, InPhase
<1>3. CASE BrokerReadsPuback
  <2>1. /\ inflight' \cup released' = inflight \cup released
        /\ UNCHANGED <<routed, loopq, queue, work>>
    BY <1>3 DEF BrokerReadsPuback
  <2> QED
    BY <1>0, <2>1, SameRecords
<1>4. CASE DisconnectSent \/ ConnectionLost \/ Connect \/ Confirm
  BY <1>0, <1>4, SameRecords DEF DisconnectSent, ConnectionLost, Connect, Confirm
<1>5. CASE Enqueue
  <2>1. UNCHANGED <<routed, inflight, released, work>> /\ Head(loopq) = loopq[1]
    BY <1>5 DEF Enqueue
  <2>2. /\ \A i \in 1..Len(loopq') : loopq'[i] = loopq[i + 1] /\ i + 1 \in 1..Len(loopq)
        /\ 1 \in 1..Len(loopq)
    BY <1>5 DEF Enqueue, TypeOK
  <2>3. \A i \in 1..Len(queue') : queue'[i] \in inflight \cup released
    <3>1. Head(loopq) \in inflight \cup released
      BY <2>1, <2>2 DEF RecordsSent
    <3>2. CASE queue' = queue
      BY <3>2 DEF RecordsSent
    <3>3. CASE queue' = Append(queue, Head(loopq))
      BY <3>1, <3>3 DEF RecordsSent, TypeOK
    <3> QED
      BY <1>5, <3>2, <3>3 DEF Enqueue
  <2> QED
    BY <2>1, <2>2, <2>3 DEF RecordsSent, InPhase
<1>6. CASE Take
  <2>1. UNCHANGED <<routed, inflight, released, loopq>> /\ Head(queue) = queue[1]
    BY <1>6 DEF Take
  <2>2. /\ \A i \in 1..Len(queue') : queue'[i] = queue[i + 1] /\ i + 1 \in 1..Len(queue)
        /\ 1 \in 1..Len(queue)
    BY <1>6 DEF Take, TypeOK
  <2>3. ~InPhase("idle")' => work'.msg \in inflight \cup released
    BY <1>6, <2>1, <2>2 DEF Take, RecordsSent, InPhase
  <2> QED
    BY <2>1, <2>2, <2>3 DEF RecordsSent
<1>7. CASE Persist \/ PersistFails \/ Flag \/ JudgeAnomalous
  <2>1. ~InPhase("idle") /\ UNCHANGED <<routed, inflight, released, loopq, queue>>
    BY <1>7 DEF Persist, PersistFails, Flag, JudgeAnomalous, InPhase
  <2>2. work'.msg = work.msg
    BY <1>7, <2>1, WorkTyped DEF Persist, PersistFails, Flag, JudgeAnomalous
  <2> QED
    BY <2>1, <2>2 DEF RecordsSent
<1>8. CASE Resume \/ Start \/ StopBegin \/ StopDisconnect \/ StopFinish \/ Crash
  BY <1>0, <1>8, SameRecords
  DEF Resume, Start, StopBegin, StopDisconnect, StopFinish, Crash, ProcessEnds
<1>9. CASE UNCHANGED vars
  BY <1>0, <1>9, SameRecords DEF vars
<1> QED
  BY <1>1, <1>2, <1>3, <1>4, <1>5, <1>6, <1>7, <1>8, <1>9
  DEF Next, Network, Loop, Threads, Lifecycle

-------------------------------------------------------------------------------
(* Acknowledgements given by a graceful stop. *)

\* A step that changes neither the wire nor who holds what keeps the promise.
LEMMA SameWire ==
    ASSUME WInv, UNCHANGED <<inflight, released, out, drained>>, clean' => clean
    PROVE  DrainedOnTheirWay'
  BY DEF WInv, DrainedOnTheirWay, Occurs

\* An acknowledgement given now is on its way, if the connection is up and the
\* record came from the broker; the ones given before stay on theirs.
LEMMA AckOnItsWay ==
    ASSUME WInv, NEW m \in Msg, m \in inflight \cup released, Acknowledge(m),
           LoopRuns, UNCHANGED <<inflight, released, clean, mode, session>>
    PROVE  DrainedOnTheirWay'
<1>1. CASE out' = out /\ drained' = drained
  BY <1>1, SameWire
<1>2. CASE out' = Append(out, MidOf[m])
  <2>1. out \in Seq(Mids) /\ MidOf[m] \in Mids
    BY MsgAssumption DEF WInv, TypeOK
  <2>2. Len(out') \in Nat /\ Len(out') = Len(out) + 1 /\ Len(out) \in Nat
    BY <1>2, <2>1
  <2>3. /\ out'[Len(out')] = MidOf[m]
        /\ \A i \in 1..Len(out) : out'[i] = out[i] /\ i \in 1..Len(out')
    BY <1>2, <2>1, <2>2
  <2>4. Occurs(MidOf[m], out')
    BY <2>2, <2>3 DEF Occurs
  <2>5. \A k : Occurs(k, out) => Occurs(k, out')
    BY <2>3 DEF Occurs
  <2>6. drained' \subseteq drained \cup {m}
    BY DEF Acknowledge
  <2> QED
    BY <2>4, <2>5, <2>6 DEF WInv, DrainedOnTheirWay
<1>3. CASE session = "down" \/ closing
  <2>1. mode = "draining" => ~clean
    BY <1>3 DEF WInv, DrainConnected
  <2>2. CASE clean
    BY <1>1, <1>3, <2>1, <2>2 DEF Acknowledge, LoopRuns
  <2>3. CASE ~clean
    BY <2>3 DEF DrainedOnTheirWay
  <2> QED
    BY <2>2, <2>3
<1> QED
  BY <1>2, <1>3 DEF Acknowledge

LEMMA DrainedStep == WInv /\ [Next]_vars => DrainedOnTheirWay'
<1> SUFFICES ASSUME WInv, [Next]_vars PROVE DrainedOnTheirWay'
  OBVIOUS
<1> USE DEF brokerVars, wireVars, processVars, dbVars, historyVars, boundVars
<1>T. TypeOK
  BY DEF WInv
<1>1. ASSUME NEW m \in Msg, Publish(m) PROVE DrainedOnTheirWay'
  BY <1>1, SameWire DEF Publish
<1>2. ASSUME NEW m \in Msg, Deliver(m) PROVE DrainedOnTheirWay'
  BY <1>2 DEF Deliver, WInv, DrainedOnTheirWay, Occurs
<1>3. CASE BrokerReadsPuback
  <2> SUFFICES ASSUME clean, NEW m \in drained, m \notin released'
               PROVE  m \in inflight' /\ Occurs(MidOf[m], out')
    BY <1>3 DEF DrainedOnTheirWay, BrokerReadsPuback
  <2>1. m \in inflight /\ Occurs(MidOf[m], out)
    BY <1>3 DEF WInv, DrainedOnTheirWay, BrokerReadsPuback
  <2>2. MidOf[m] # Head(out) /\ m \in inflight'
    BY <1>3, <2>1 DEF BrokerReadsPuback
  <2>3. PICK i \in 1..Len(out) : out[i] = MidOf[m]
    BY <2>1 DEF Occurs
  <2>4. i # 1 /\ i - 1 \in 1..Len(Tail(out)) /\ Tail(out)[i - 1] = out[i]
    BY <1>T, <2>2, <2>3 DEF TypeOK
  <2> QED
    BY <1>3, <2>2, <2>3, <2>4 DEF BrokerReadsPuback, Occurs
<1>4. CASE DisconnectSent
  <2>1. ~Occurs("x", <<>>) /\ \A k : ~Occurs(k, <<>>)
    BY DEF Occurs
  <2> QED
    BY <1>4, <2>1 DEF DisconnectSent, SessionEnds, WInv, DrainedOnTheirWay
<1>5. CASE ConnectionLost \/ Start \/ Crash
  BY <1>5 DEF ConnectionLost, Start, Crash, DrainedOnTheirWay
<1>6. CASE Connect \/ Confirm \/ Enqueue \/ Persist \/ PersistFails \/ Flag
           \/ JudgeAnomalous \/ StopDisconnect \/ StopFinish
  BY <1>6, SameWire
  DEF Connect, Confirm, Enqueue, Persist, PersistFails, Flag, JudgeAnomalous,
      StopDisconnect, StopFinish
<1>7. CASE Take
  <2>1. UNCHANGED <<inflight, released, clean, mode, session>> /\ LoopRuns
    BY <1>7 DEF Take
  <2>2. Head(queue) \in Msg /\ Head(queue) = queue[1] /\ 1 \in 1..Len(queue)
    BY <1>7, <1>T DEF Take, TypeOK
  <2>3. Head(queue) \in inflight \cup released
    BY <2>2 DEF WInv, RecordsSent
  <2>4. CASE Acknowledge(Head(queue))
    BY <2>1, <2>2, <2>3, <2>4, AckOnItsWay
  <2>5. CASE out' = out /\ drained' = drained
    BY <2>1, <2>5, SameWire
  <2> QED
    BY <1>7, <2>4, <2>5 DEF Take
<1>8. CASE Resume
  <2>1. UNCHANGED <<inflight, released, clean, mode, session>> /\ LoopRuns
    BY <1>8 DEF Resume
  <2>2. work.msg \in Msg /\ work.msg \in inflight \cup released
    BY <1>8, <1>T, WorkTyped DEF Resume, InPhase, Msg, WInv, RecordsSent
  <2>3. CASE Acknowledge(work.msg)
    BY <2>1, <2>2, <2>3, AckOnItsWay
  <2>4. CASE Withhold
    BY <2>1, <2>4, SameWire DEF Withhold
  <2> QED
    BY <1>8, <2>3, <2>4 DEF Resume
<1>9. CASE StopBegin
  BY <1>9 DEF StopBegin, DrainedOnTheirWay
<1>10. CASE UNCHANGED vars
  BY <1>10, SameWire DEF vars
<1> QED
  BY <1>1, <1>2, <1>3, <1>4, <1>5, <1>6, <1>7, <1>8, <1>9, <1>10
  DEF Next, Network, Loop, Threads, Lifecycle

LEMMA WireStep == WInv /\ [Next]_vars => WireQuiet' /\ DrainConnected'
<1> SUFFICES ASSUME WInv, [Next]_vars PROVE WireQuiet' /\ DrainConnected'
  OBVIOUS
<1> USE DEF brokerVars, wireVars, processVars, dbVars, historyVars, boundVars,
            WireQuiet, DrainConnected
<1>0. WireQuiet /\ DrainConnected
  BY DEF WInv
<1>1. ASSUME NEW m \in Msg, Publish(m) \/ Deliver(m)
      PROVE  WireQuiet' /\ DrainConnected'
  BY <1>0, <1>1 DEF Publish, Deliver
<1>2. CASE BrokerReadsPuback
  BY <1>0, <1>2 DEF BrokerReadsPuback
<1>3. CASE DisconnectSent \/ ConnectionLost \/ Crash
  BY <1>0, <1>3 DEF DisconnectSent, ConnectionLost, Crash, SessionEnds, ProcessEnds
<1>4. CASE Connect \/ Confirm
  BY <1>0, <1>4 DEF Connect, Confirm
<1>5. CASE Enqueue
  <2>1. QueueDisconnect /\ session = "down" => ~closing'
    BY DEF QueueDisconnect
  <2> QED
    BY <1>0, <1>5, <2>1 DEF Enqueue
<1>6. CASE Take
  BY <1>0, <1>6 DEF Take, Acknowledge, LoopRuns
<1>7. CASE Persist \/ PersistFails \/ Flag \/ JudgeAnomalous
  BY <1>0, <1>7 DEF Persist, PersistFails, Flag, JudgeAnomalous
<1>8. CASE Resume
  BY <1>0, <1>8 DEF Resume, Acknowledge, Withhold, QueueDisconnect, LoopRuns
<1>9. CASE Start \/ StopBegin \/ StopDisconnect \/ StopFinish
  <2>1. QueueDisconnect /\ session = "down" => ~closing'
    BY DEF QueueDisconnect
  <2>2. StopBegin /\ clean' => session # "down" /\ ~closing
    BY DEF StopBegin
  <2>3. CASE StopBegin
    BY <1>0, <2>2, <2>3 DEF StopBegin
  <2>4. CASE StopDisconnect
    BY <1>0, <2>1, <2>4 DEF StopDisconnect
  <2> QED
    BY <1>0, <1>9, <2>3, <2>4 DEF Start, StopFinish, ProcessEnds
<1>10. CASE UNCHANGED vars
  BY <1>0, <1>10 DEF vars
<1> QED
  BY <1>1, <1>2, <1>3, <1>4, <1>5, <1>6, <1>7, <1>8, <1>9, <1>10
  DEF Next, Network, Loop, Threads, Lifecycle

LEMMA WInvStep == WInv /\ [Next]_vars => WInv'
  BY TypeStep, RecordsStep, DrainedStep, WireStep DEF WInv

\* Over a connection that is not lost, a stop() that completes has delivered
\* every acknowledgement it gave while draining, timed out or not.
THEOREM GracefulStop == Spec => []ShutdownAcksArrive
<1>1. WInv => ShutdownAcksArrive
  BY DEF WInv, WireQuiet, DrainedOnTheirWay, ShutdownAcksArrive, Occurs
<1> QED
  BY <1>1, WInvInit, WInvStep, PTL DEF Spec

-------------------------------------------------------------------------------
(* The refinement. *)

\* A commit of the worker's transaction applies the effect of its record.
LEMMA AppliesEffect ==
    ASSUME TypeOK, RecordsSent, InPhase("persisting"),
           db' \in {db, db \cup Effect(work.msg)},
           UNCHANGED <<routed, released, events>>
    PROVE  Abs!Next \/ UNCHANGED Abs!vars
<1>1. work.msg \in Msg /\ work.msg \in routed
  BY WorkTyped DEF RecordsSent, InPhase, Msg
<1>2. Abs!Msg = Msg /\ \A m : Abs!Effect(m) = Effect(m)
  BY DEF Abs!Msg, Msg, Abs!Effect, Effect
<1>3. CASE db' = db
  BY <1>3 DEF Abs!vars
<1>4. CASE db' = db \cup Effect(work.msg)
  BY <1>1, <1>2, <1>4 DEF Abs!Next, Abs!Apply
<1> QED
  BY <1>3, <1>4

LEMMA RefineStep ==
    FreshMids /\ IInv /\ RecordsSent /\ [Next]_vars => [Abs!Next]_(Abs!vars)
<1> SUFFICES ASSUME FreshMids, IInv, RecordsSent, [Next]_vars
             PROVE  Abs!Next \/ UNCHANGED Abs!vars
  BY DEF IInv
<1> USE DEF brokerVars, wireVars, processVars, dbVars, historyVars, boundVars
<1>T. TypeOK
  BY DEF IInv
<1>M. Abs!Msg = Msg /\ \A m : Abs!Effect(m) = Effect(m)
  BY DEF Abs!Msg, Msg, Abs!Effect, Effect
<1>S. UNCHANGED <<routed, db, events, released>> => UNCHANGED Abs!vars
  BY DEF Abs!vars
<1>1. ASSUME NEW m \in Msg, Publish(m) PROVE Abs!Next \/ UNCHANGED Abs!vars
  <2>1. UNCHANGED <<db, events, released>>
    BY <1>1 DEF Publish
  <2>2. CASE routed' = routed
    BY <1>S, <2>1, <2>2
  <2>3. CASE routed' = routed \cup {m} /\ m \notin routed
    BY <1>M, <2>1, <2>3 DEF Abs!Next, Abs!Route
  <2> QED
    BY <1>1, <2>2, <2>3 DEF Publish
<1>2. CASE BrokerReadsPuback
  <2>1. UNCHANGED <<routed, db, events>>
    BY <1>2 DEF BrokerReadsPuback
  <2>2. CASE released' = released
    BY <1>S, <2>1, <2>2
  <2>3. CASE released' # released
    <3>1. PICK m \in inflight : MidOf[m] = Head(out)
      BY <1>2, <2>3 DEF BrokerReadsPuback
    <3>2. {n \in inflight : MidOf[n] = Head(out)} = {m}
      BY <1>T, <3>1 DEF FreshMids, TypeOK
    <3>3. released' = released \cup {m}
      BY <1>2, <3>2 DEF BrokerReadsPuback
    <3>4. m \in Msg /\ m \in routed
      BY <1>T, <3>1 DEF TypeOK, RecordsSent
    <3>5. Head(out) = out[1] /\ 1 \in 1..Len(out)
      BY <1>2, <1>T DEF BrokerReadsPuback, TypeOK
    <3>6. Effect(m) \subseteq db
      BY <3>1, <3>4, <3>5 DEF IInv, PubacksJustified, Decided
    <3> QED
      BY <1>M, <2>1, <3>3, <3>4, <3>6 DEF Abs!Next, Abs!Release
  <2> QED
    BY <2>2, <2>3
<1>3. CASE Persist \/ PersistFails
  BY <1>3, <1>T, AppliesEffect DEF Persist, PersistFails
<1>4. CASE Resume
  <2>1. UNCHANGED <<routed, db, released>>
    BY <1>4 DEF Resume
  <2>2. CASE events' = events
    BY <1>S, <2>1, <2>2
  <2>3. CASE /\ InPhase("stored") \/ InPhase("judged")
             /\ events' = [events EXCEPT ![KeyOf[work.msg]] = @ + 1]
    <3> DEFINE k == KeyOf[work.msg]
    <3>1. work.msg \in Telemetry /\ k \in Keys /\ k \in db /\ events[k] = 0
      BY <1>T, <2>3, WorkTyped, MsgAssumption
      DEF IInv, WorkDecided, StoredIsSilent, Decided, Effect, InPhase
    <3>2. /\ events'[k] = 1
          /\ \A j \in Keys \ {k} : events'[j] = events[j]
      BY <1>T, <2>3, <3>1 DEF TypeOK
    <3>3. {j \in Keys : events'[j] > 0} = {j \in Keys : events[j] > 0} \cup {k}
      BY <3>1, <3>2
    <3> QED
      BY <2>1, <3>1, <3>3 DEF Abs!Next, Abs!Announce
  <2> QED
    BY <1>4, <2>2, <2>3 DEF Resume
<1>5. CASE UNCHANGED <<routed, db, events, released>>
  BY <1>5, <1>S
<1> QED
  BY <1>1, <1>2, <1>3, <1>4, <1>5
  DEF Next, Network, Loop, Threads, Lifecycle, vars, Deliver, DisconnectSent,
      ConnectionLost, Connect, Confirm, Enqueue, Take, JudgeAnomalous, Flag, Start,
      StopBegin, StopDisconnect, StopFinish, Crash

\* Queue, worker, session, crashes and shutdown together keep the promise of
\* ReliableIngest, if the broker does not reuse packet ids.
THEOREM DeliveryImplements == ASSUME FreshMids PROVE Spec => Implements
<1>1. Init => Abs!Init
  BY DEF Init, Abs!Init
<1>2. WInv => RecordsSent
  BY DEF WInv
<1> QED
  BY <1>1, <1>2, FreshMids, IInvInit, IInvStep, WInvInit, WInvStep, RefineStep, PTL
  DEF Spec, Implements, Abs!Spec
===============================================================================
