--------------------------- MODULE MqttSessionProofs ---------------------------
(***************************************************************************)
(* Type correctness of MqttSession, and for every set of filters, bound and*)
(* interleaving:                                                           *)
(*   - the single owner of reconnection: no retry is armed while an attempt*)
(*     is in flight or after stop() began;                                 *)
(*   - a session reported usable over an open connection was granted every *)
(*     filter, and without one only a socket given up goes unreported;     *)
(*   - a session that is not usable is never left alone: its repair is     *)
(*     under way, or a callback that starts it is posted;                  *)
(*   - nothing revives the session once stop() has returned.               *)
(***************************************************************************)
EXTENDS MqttSession, TLAPS


\* The callbacks the loop serves stay a sequence of callbacks.
LEMMA QueueFacts ==
    ASSUME TypeOK
    PROVE  /\ \A c \in Calls : Append(calls, c) \in Seq(Calls)
           /\ calls # <<>> => /\ Head(calls) \in Calls
                              /\ Tail(calls) \in Seq(Calls)
                              /\ \A c \in Calls : Append(Tail(calls), c) \in Seq(Calls)
           /\ \A c, d \in Calls : calls \o <<c, d>> \in Seq(Calls)
           /\ \A c \in Calls : calls \o <<c>> \in Seq(Calls)
<1>1. calls \in Seq(Calls)
  BY DEF TypeOK
<1>2. \A c, d \in Calls : <<c, d>> \in Seq(Calls) /\ <<c>> \in Seq(Calls)
  OBVIOUS
<1>3. calls # <<>> => Tail(calls) \in Seq(Calls) /\ Head(calls) \in Calls
  BY <1>1
<1> QED
  BY <1>1, <1>2, <1>3

\* What the code posts is a callback.
LEMMA CallTyped ==
    /\ \A op \in {"arm", "disarm", "connect", "schedule", "fire", "wake", "resume"} :
          Call(op) \in Calls
    /\ \A g \in Nat : [op |-> "supersede", gen |-> g] \in Calls
BY DEF Call, Calls

LEMMA TypeInit == Init => TypeOK
<1> SUFFICES ASSUME Init PROVE TypeOK
  OBVIOUS
<1>1. calls \in Seq(Calls)
  BY CallTyped DEF Init
<1>2. 0 \in 0..MaxFaults
  BY FaultsAssumption
<1> QED
  BY <1>1, <1>2 DEF Init, TypeOK, NotConfirming, NoTimer

\* What the shared pieces of the handlers leave well typed.
LEMMA ReportTyped ==
    ASSUME TypeOK, NEW b \in BOOLEAN, ReportConnection(b)
    PROVE  healthy' \in BOOLEAN /\ deferred' \in BOOLEAN /\ replaced' \in BOOLEAN
BY Zenon DEF ReportConnection, TypeOK

LEMMA ScheduleTyped ==
    ASSUME TypeOK, ScheduleReconnect
    PROVE  calls' \in Seq(Calls)
BY QueueFacts, CallTyped DEF ScheduleReconnect, Post, TypeOK

LEMMA RequestTyped ==
    ASSUME TypeOK, RequestReconnect
    PROVE  calls' \in Seq(Calls) /\ leaving' \in BOOLEAN
<1>1. calls' \in Seq(Calls)
  BY QueueFacts, CallTyped DEF RequestReconnect, Post, TypeOK
<1>2. leaving' \in BOOLEAN
  BY Zenon DEF RequestReconnect, TypeOK
<1> QED
  BY <1>1, <1>2

LEMMA FailTyped ==
    ASSUME TypeOK, NEW n \in Nat, FailSession(n)
    PROVE  /\ pending' \subseteq Filters /\ gen' \in Nat /\ subackTimer' \in BOOLEAN
           /\ healthy' \in BOOLEAN /\ deferred' \in BOOLEAN /\ replaced' \in BOOLEAN
           /\ calls' \in Seq(Calls) /\ leaving' \in BOOLEAN
<1>1. pending' \subseteq Filters /\ gen' \in Nat
  BY DEF FailSession, TypeOK
<1>4. subackTimer' \in BOOLEAN
  BY Zenon DEF FailSession
<1>2. healthy' \in BOOLEAN /\ deferred' \in BOOLEAN /\ replaced' \in BOOLEAN
  BY ReportTyped DEF FailSession
<1>3. calls' \in Seq(Calls) /\ leaving' \in BOOLEAN
  BY RequestTyped DEF FailSession
<1> QED
  BY <1>1, <1>2, <1>3, <1>4

LEMMA TypeStep == TypeOK /\ [Next]_vars => TypeOK'
<1> SUFFICES ASSUME TypeOK, [Next]_vars PROVE TypeOK'
  OBVIOUS
<1> USE QueueFacts, CallTyped
<1>s. SUFFICES ASSUME Next PROVE TypeOK'
  <2>1. UNCHANGED vars => TypeOK'
    BY DEF TypeOK, vars, adapterVars, timerVars, pahoVars
  <2> QED
    BY <2>1
<1>f. Fault => faults' \in 0..MaxFaults
  BY FaultsAssumption DEF Fault, TypeOK
<1>1. CASE Paho
  <2>1. CASE OnConnect
    <3>1. calls' \in Seq(Calls) /\ pending' \subseteq Filters /\ replaced' \in BOOLEAN
      BY <2>1 DEF TypeOK, OnConnect, Post
    <3> QED
      BY <2>1, <3>1 DEF TypeOK, OnConnect, timerVars
  <2>2. CASE OnConnectRefused
    <3>1. healthy' \in BOOLEAN /\ deferred' \in BOOLEAN /\ replaced' \in BOOLEAN
      BY <2>2, ReportTyped DEF OnConnectRefused
    <3>2. calls' \in Seq(Calls)
      BY <2>2, ScheduleTyped DEF OnConnectRefused
    <3> QED
      BY <2>2, <1>f, <3>1, <3>2 DEF TypeOK, OnConnectRefused, timerVars
  <2>3. CASE OnConnectSubscribeFails
    <3>1. FailSession(2)
      BY <2>3 DEF OnConnectSubscribeFails
    <3> QED
      BY <2>3, <1>f, <3>1, FailTyped DEF TypeOK, OnConnectSubscribeFails
  <2>4. ASSUME NEW f \in Filters, OnSubscribe(f) PROVE TypeOK'
    <3>1. confirming' \in [gen : Nat, busy : BOOLEAN]
      <4>1. gen \in Nat /\ confirming \in [gen : Nat, busy : BOOLEAN]
        BY DEF TypeOK
      <4>2. confirming' = [gen |-> gen, busy |-> TRUE] \/ UNCHANGED confirming
        BY <2>4 DEF OnSubscribe
      <4>3. \A g \in Nat, b \in BOOLEAN : [gen |-> g, busy |-> b] \in [gen : Nat, busy : BOOLEAN]
        OBVIOUS
      <4>4. [gen |-> gen, busy |-> TRUE] \in [gen : Nat, busy : BOOLEAN]
        BY <4>1, <4>3, Zenon
      <4> QED
        BY <4>1, <4>2, <4>4, Zenon
    <3>2. pending' \subseteq Filters /\ granted' \subseteq Filters
      BY <2>4 DEF TypeOK, OnSubscribe
    <3> QED
      BY <2>4, <3>1, <3>2 DEF TypeOK, OnSubscribe, timerVars
  <2>5. CASE OnSubscribeEnds
    <3>1. healthy' \in BOOLEAN /\ deferred' \in BOOLEAN /\ replaced' \in BOOLEAN
      BY <2>5, ReportTyped DEF OnSubscribeEnds, TypeOK
    <3>2. confirming.gen \in Nat
      BY DEF TypeOK
    <3>3. calls' \in Seq(Calls)
      <4>1. CASE pending # {}
        BY <2>5, <4>1 DEF OnSubscribeEnds, TypeOK
      <4>2. CASE pending = {}
        <5> DEFINE c == Call("disarm")
                   d == [op |-> "supersede", gen |-> confirming.gen]
        <5>1. c \in Calls /\ d \in Calls
          BY <3>2
        <5>2. calls' = calls \o <<c, d>>
          BY <2>5, <4>2 DEF OnSubscribeEnds
        <5> HIDE DEF c, d
        <5> QED
          BY <5>1, <5>2
      <4> QED
        BY <4>1, <4>2
    <3> QED
      BY <2>5, <3>1, <3>3 DEF TypeOK, OnSubscribeEnds, NotConfirming, timerVars, pahoVars
  <2>6. CASE OnSubscribeRefused
    <3>1. FailSession(1)
      BY <2>6 DEF OnSubscribeRefused
    <3> QED
      BY <2>6, <1>f, <3>1, FailTyped DEF TypeOK, OnSubscribeRefused
  <2>7. ASSUME SessionOver, faults' \in 0..MaxFaults PROVE TypeOK'
    <3>1. healthy' \in BOOLEAN /\ deferred' \in BOOLEAN /\ replaced' \in BOOLEAN
      BY <2>7, ReportTyped DEF SessionOver
    <3>2. calls' \in Seq(Calls)
      BY <2>7 DEF SessionOver
    <3>3. netloop' \in BOOLEAN /\ leaving' \in BOOLEAN /\ mute' \in BOOLEAN
      BY <2>7, Zenon DEF SessionOver
    <3> QED
      BY <2>7, <3>1, <3>2, <3>3 DEF TypeOK, SessionOver, timerVars
  <2>8. CASE OnDisconnect
    BY <2>8, <2>7 DEF OnDisconnect, TypeOK
  <2>9. CASE ConnectionLost
    BY <2>9, <2>7, <1>f DEF ConnectionLost
  <2>10. CASE BrokerFallsSilent
    BY <2>10, <1>f DEF TypeOK, BrokerFallsSilent, adapterVars, timerVars
  <2> QED
    BY <1>1, <2>1, <2>2, <2>3, <2>4, <2>5, <2>6, <2>8, <2>9, <2>10 DEF Paho
<1>2. CASE Loop
  <2>1. CASE CallArm
    BY <2>1 DEF TypeOK, CallArm, NextCall, Called, adapterVars, pahoVars
  <2>2. CASE CallDisarm
    <3>1. calls' \in Seq(Calls)
      BY <2>2 DEF CallDisarm, NextCall, Called
    <3>2. subackTimer' \in BOOLEAN
      BY <2>2, Zenon DEF CallDisarm
    <3> QED
      BY <2>2, <3>1, <3>2 DEF TypeOK, CallDisarm, adapterVars, pahoVars
  <2>3. CASE CallSchedule
    <3>1. calls' \in Seq(Calls)
      BY <2>3 DEF CallSchedule, NextCall, Called
    <3>2. PICK op \in {"connect", "schedule"} :
             UNCHANGED retry \/ retry' = Armed(gen, op = "schedule")
      BY <2>3 DEF CallSchedule
    <3>3. (op = "schedule") \in BOOLEAN
      OBVIOUS
    <3>4. retry' \in Retries \cup {NoTimer}
      <4>1. Armed(gen, op = "schedule") \in Retries
        BY <3>3 DEF Armed, Retries, TypeOK
      <4> QED
        BY <3>2, <4>1 DEF TypeOK
    <3>5. deferred' \in BOOLEAN
      BY <2>3 DEF CallSchedule, TypeOK
    <3> QED
      BY <2>3, <3>1, <3>4, <3>5 DEF TypeOK, CallSchedule, pahoVars
  <2>4. CASE CallSupersede
    <3>1. calls' \in Seq(Calls)
      BY <2>4 DEF CallSupersede, NextCall, Called
    <3>2. retry' \in {retry, NoTimer} /\ deferred' \in {deferred, FALSE}
      BY <2>4, Zenon DEF CallSupersede
    <3>3. retry' \in Retries \cup {NoTimer}
      BY <3>2 DEF TypeOK
    <3>4. deferred' \in BOOLEAN
      BY <3>2, Zenon DEF TypeOK
    <3> QED
      BY <2>4, <3>1, <3>3, <3>4 DEF TypeOK, CallSupersede, pahoVars
  <2>5. CASE CallFire
    BY <2>5 DEF TypeOK, CallFire, NextCall, Called, adapterVars, pahoVars
  <2>6. CASE CallWake
    BY <2>6 DEF TypeOK, CallWake, NextCall, adapterVars, timerVars, pahoVars
  <2>7. CASE AttemptEnds
    <3>1. calls' \in Seq(Calls)
      BY <2>7 DEF AttemptEnds, NextCall, Called, Teardown
    <3>2. gen' \in Nat /\ pending' \subseteq Filters
      BY <2>7 DEF AttemptEnds, Teardown, TypeOK
    <3>3. confirming' = confirming
      BY <2>7 DEF AttemptEnds, Teardown
    <3>4. /\ sock' \in {"closed", sock} /\ netloop' \in {FALSE, netloop}
          /\ leaving' \in {FALSE, leaving} /\ granted' \in {{}, granted}
          /\ mute' \in {FALSE, mute}
      BY <2>7 DEF AttemptEnds, Teardown, pahoVars
    <3>5. healthy' \in BOOLEAN /\ deferred' \in BOOLEAN /\ replaced' \in BOOLEAN
      BY <2>7, Zenon DEF AttemptEnds, Teardown, TypeOK
    <3>6. sock' \in {"closed", "connecting", "open", "refused"} /\ granted' \subseteq Filters
      BY <3>4 DEF TypeOK
    <3>7. netloop' \in BOOLEAN /\ leaving' \in BOOLEAN /\ mute' \in BOOLEAN
      BY <3>4, Zenon DEF TypeOK
    <3> QED
      BY <2>7, <3>1, <3>2, <3>3, <3>5, <3>6, <3>7 DEF TypeOK, AttemptEnds
  <2>8. CASE SubackTimeout
    <3>1. CASE stopping \/ pending = {}
      <4>1. subackTimer' \in BOOLEAN
        BY <2>8, <3>1, Zenon DEF SubackTimeout
      <4>2. UNCHANGED <<adapterVars, calls, leaving, faults>>
        BY <2>8, <3>1, Zenon DEF SubackTimeout
      <4> QED
        BY <2>8, <4>1, <4>2 DEF TypeOK, SubackTimeout, adapterVars
    <3>2. CASE ~(stopping \/ pending = {})
      <4>1. FailSession(1) /\ UNCHANGED confirming
        BY <2>8, <3>2 DEF SubackTimeout
      <4>2. faults' \in 0..MaxFaults
        BY <2>8, <3>2, <1>f DEF SubackTimeout, TypeOK
      <4> QED
        BY <2>8, <4>1, <4>2, FailTyped DEF TypeOK, SubackTimeout
    <3> QED
      BY <3>1, <3>2
  <2>9. CASE RetryDue
    <3>1. calls' \in Seq(Calls)
      BY <2>9 DEF RetryDue, Post
    <3>2. retry' \in Retries
      <4>1. retry \in Retries
        BY <2>9 DEF RetryDue, TypeOK, NoTimer
      <4> QED
        BY <2>9, <4>1 DEF RetryDue, Retries
    <3> QED
      BY <2>9, <3>1, <3>2 DEF TypeOK, RetryDue, adapterVars, pahoVars
  <2>10. CASE IngressFails
    <3>1. healthy' \in BOOLEAN /\ deferred' \in BOOLEAN /\ replaced' \in BOOLEAN
      BY <2>10, ReportTyped DEF IngressFails
    <3>2. calls' \in Seq(Calls) /\ leaving' \in BOOLEAN
      BY <2>10, RequestTyped DEF IngressFails
    <3> QED
      BY <2>10, <1>f, <3>1, <3>2 DEF TypeOK, IngressFails, timerVars
  <2> QED
    BY <1>2, <2>1, <2>2, <2>3, <2>4, <2>5, <2>6, <2>7, <2>8, <2>9, <2>10 DEF Loop, Callback
<1>3. CASE Worker
  <2>1. CASE DialFails
    <3>1. replaced' \in BOOLEAN
      BY <2>1, Zenon DEF DialFails, GivesUpSocket, subscriptions_confirmed, TypeOK
    <3> QED
      BY <2>1, <1>f, <3>1 DEF TypeOK, DialFails, GivesUpSocket, Post
  <2>2. CASE Dial
    <3>1. replaced' \in BOOLEAN
      BY <2>2, Zenon DEF Dial, GivesUpSocket, subscriptions_confirmed, TypeOK
    <3> QED
      BY <2>2, <3>1 DEF TypeOK, Dial, GivesUpSocket, Post
  <2>3. CASE LoopStart
    BY <2>3 DEF TypeOK, LoopStart, Post, adapterVars
  <2> QED
    BY <1>3, <2>1, <2>2, <2>3 DEF Worker
<1>4. CASE Stop
  <2>1. CASE StopBegin
    BY <2>1 DEF TypeOK, StopBegin, pahoVars
  <2>2. CASE StopDisconnect
    <3>1. /\ stop' \in {"no", "waiting", "leaving", "done"} /\ leaving' \in BOOLEAN
          /\ sock' \in {"closed", "connecting", "open", "refused"}
          /\ granted' \subseteq Filters /\ mute' \in BOOLEAN
      BY <2>2, Zenon DEF StopDisconnect, TypeOK
    <3>2. /\ UNCHANGED <<gen, pending, confirming, healthy, deferred, replaced>>
          /\ UNCHANGED <<subackTimer, retry, attempt>>
          /\ UNCHANGED <<calls, netloop, faults>>
      BY <2>2 DEF StopDisconnect, adapterVars, timerVars
    <3> QED
      BY <3>1, <3>2, Zenon DEF TypeOK
  <2>3. CASE StopDone
    <3>1. healthy' \in BOOLEAN /\ deferred' \in BOOLEAN /\ replaced' \in BOOLEAN
      BY <2>3, ReportTyped DEF StopDone
    <3> QED
      BY <2>3, <3>1 DEF TypeOK, StopDone, timerVars, pahoVars
  <2> QED
    BY <1>4, <2>1, <2>2, <2>3 DEF Stop
<1> QED
  BY <1>s, <1>1, <1>2, <1>3, <1>4 DEF Next

\* The adapter's state stays within its types: in particular a timer handle is
\* either absent or fully described.
THEOREM SessionTyped == Spec => []TypeOK
BY TypeInit, TypeStep, PTL DEF Spec

-------------------------------------------------------------------------------
\* A step that neither arms a retry, nor starts an attempt, nor begins stop().
LEMMA OwnerKept ==
    ASSUME OneAttempt, UNCHANGED <<retry, attempt, stop>>
    PROVE  OneAttempt'
BY DEF OneAttempt, stopping

LEMMA OwnerStep == TypeOK /\ OneAttempt /\ [Next]_vars => OneAttempt'
<1> SUFFICES ASSUME TypeOK, OneAttempt, [Next]_vars PROVE OneAttempt'
  OBVIOUS
<1>1. CASE UNCHANGED vars
  BY <1>1, OwnerKept DEF vars, timerVars
<1>2. CASE Paho
  BY <1>2, OwnerKept DEF Paho, OnConnect, OnConnectRefused, OnConnectSubscribeFails,
     OnSubscribe, OnSubscribeEnds, OnSubscribeRefused, OnDisconnect, SessionOver,
     ConnectionLost, BrokerFallsSilent, timerVars
<1>3. CASE Loop
  <2>1. CASE CallArm \/ CallDisarm \/ CallWake \/ SubackTimeout \/ IngressFails
    BY <2>1, OwnerKept DEF CallArm, CallDisarm, CallWake, SubackTimeout, IngressFails,
       timerVars
  <2>2. CASE CallSchedule
    \* It arms only when there is no attempt and stop() has not begun.
    BY <2>2 DEF CallSchedule, OneAttempt, Armed, stopping
  <2>3. CASE CallSupersede
    BY <2>3 DEF CallSupersede, OneAttempt, NoTimer, stopping
  <2>4. CASE CallFire
    \* The handle is cleared before the attempt it starts exists.
    BY <2>4 DEF CallFire, OneAttempt, NoTimer, stopping
  <2>5. CASE AttemptEnds
    BY <2>5 DEF AttemptEnds, OneAttempt, stopping
  <2>6. CASE RetryDue
    BY <2>6 DEF RetryDue, OneAttempt, stopping
  <2> QED
    BY <1>3, <2>1, <2>2, <2>3, <2>4, <2>5, <2>6 DEF Loop, Callback
<1>4. CASE Worker
  \* The worker thread only moves an attempt on.
  BY <1>4 DEF Worker, DialFails, Dial, LoopStart, DialOver, OneAttempt, stopping
<1>5. CASE Stop
  <2>1. CASE StopBegin
    BY <2>1 DEF StopBegin, OneAttempt, NoTimer
  <2>2. CASE StopDisconnect
    BY <2>2 DEF StopDisconnect, OneAttempt, stopping, timerVars
  <2>3. CASE StopDone
    BY <2>3 DEF StopDone, OneAttempt, stopping, timerVars
  <2> QED
    BY <1>5, <2>1, <2>2, <2>3 DEF Stop
<1> QED
  BY <1>1, <1>2, <1>3, <1>4, <1>5 DEF Next

\* client.py:35-37 "At most one attempt exists at a time": a retry is armed only
\* while no attempt is in flight and stop() has not begun.
THEOREM SingleOwner == Spec => []OneAttempt
<1>1. Init => OneAttempt
  BY DEF Init, OneAttempt, NoTimer
<1> QED
  BY <1>1, OwnerStep, SessionTyped, PTL DEF Spec
-------------------------------------------------------------------------------
(* Health is earned: every filter of an open connection nobody is leaving is *)
(* either granted or still awaited, because whoever abandons the SUBACKs     *)
(* asks for the disconnect in the same step.                                 *)

AwaitedOrGranted ==
    ~stopping /\ sock = "open" /\ ~leaving => pending \cup granted = Filters

LEMMA AwaitedKept ==
    ASSUME AwaitedOrGranted, UNCHANGED <<stop, sock, leaving, pending, granted>>
    PROVE  AwaitedOrGranted'
BY DEF AwaitedOrGranted, stopping

\* Whoever requests a reconnection of an open session leaves it.
LEMMA RequestLeaves ==
    ASSUME RequestReconnect, sock # "closed", UNCHANGED stop
    PROVE  AwaitedOrGranted'
BY DEF RequestReconnect, AwaitedOrGranted, stopping

LEMMA AwaitedStep == TypeOK /\ AwaitedOrGranted /\ [Next]_vars => AwaitedOrGranted'
<1> SUFFICES ASSUME TypeOK, AwaitedOrGranted, [Next]_vars PROVE AwaitedOrGranted'
  OBVIOUS
<1>1. CASE UNCHANGED vars
  BY <1>1, AwaitedKept DEF vars, adapterVars, pahoVars
<1>2. CASE Paho
  <2>1. CASE OnConnect
    BY <2>1 DEF OnConnect, AwaitedOrGranted, TypeOK, stopping
  <2>2. CASE OnConnectRefused
    BY <2>2 DEF OnConnectRefused, AwaitedOrGranted
  <2>3. CASE OnConnectSubscribeFails
    <3>1. RequestReconnect /\ sock # "closed" /\ UNCHANGED stop
      BY <2>3 DEF OnConnectSubscribeFails, FailSession
    <3> QED
      BY <3>1, RequestLeaves
  <2>4. ASSUME NEW f \in Filters, OnSubscribe(f) PROVE AwaitedOrGranted'
    BY <2>4 DEF OnSubscribe, AwaitedOrGranted, TypeOK, stopping
  <2>5. CASE OnSubscribeEnds
    BY <2>5, AwaitedKept DEF OnSubscribeEnds, pahoVars
  <2>6. CASE OnSubscribeRefused
    <3>1. RequestReconnect /\ sock # "closed" /\ UNCHANGED stop
      BY <2>6 DEF OnSubscribeRefused, FailSession
    <3> QED
      BY <3>1, RequestLeaves
  <2>7. CASE OnDisconnect \/ ConnectionLost
    BY <2>7 DEF OnDisconnect, ConnectionLost, SessionOver, AwaitedOrGranted
  <2>8. CASE BrokerFallsSilent
    BY <2>8, AwaitedKept DEF BrokerFallsSilent, adapterVars
  <2> QED
    BY <1>2, <2>1, <2>2, <2>3, <2>4, <2>5, <2>6, <2>7, <2>8 DEF Paho
<1>3. CASE Loop
  <2>1. CASE CallArm \/ CallDisarm \/ CallSchedule \/ CallSupersede \/ CallFire \/ CallWake
             \/ RetryDue
    BY <2>1, AwaitedKept
       DEF CallArm, CallDisarm, CallSchedule, CallSupersede, CallFire, CallWake, RetryDue,
           adapterVars, pahoVars
  <2>2. CASE AttemptEnds
    BY <2>2 DEF AttemptEnds, AwaitedOrGranted, stopping, pahoVars
  <2>3. CASE SubackTimeout
    <3>1. CASE stopping \/ pending = {}
      BY <2>3, <3>1, AwaitedKept DEF SubackTimeout, adapterVars
    <3>2. CASE ~(stopping \/ pending = {})
      <4>1. RequestReconnect /\ UNCHANGED <<stop, sock>>
        BY <2>3, <3>2 DEF SubackTimeout, FailSession
      <4>2. CASE sock = "closed"
        BY <4>1, <4>2 DEF AwaitedOrGranted
      <4> QED
        BY <4>1, <4>2, RequestLeaves
    <3> QED
      BY <3>1, <3>2
  <2>4. CASE IngressFails
    <3>1. RequestReconnect /\ UNCHANGED <<stop, sock>>
      BY <2>4 DEF IngressFails
    <3>2. CASE sock = "closed"
      BY <3>1, <3>2 DEF AwaitedOrGranted
    <3> QED
      BY <3>1, <3>2, RequestLeaves
  <2> QED
    BY <1>3, <2>1, <2>2, <2>3, <2>4 DEF Loop, Callback
<1>4. CASE Worker
  <2>1. CASE DialFails \/ Dial
    BY <2>1 DEF DialFails, Dial, AwaitedOrGranted
  <2>2. CASE LoopStart
    BY <2>2, AwaitedKept DEF LoopStart, adapterVars
  <2> QED
    BY <1>4, <2>1, <2>2 DEF Worker
<1>5. CASE Stop
  BY <1>5 DEF Stop, StopBegin, StopDisconnect, StopDone, AwaitedOrGranted, stopping
<1> QED
  BY <1>1, <1>2, <1>3, <1>4, <1>5 DEF Next

-------------------------------------------------------------------------------
(* stop() is final.  While it waits and leaves, an attempt may still be in   *)
(* flight and the network thread inside a callback: what they do until they  *)
(* end must not count after it.                                              *)

\* Nothing is armed or awaited once stop() has begun.
Disarmed == stopping => ~subackTimer /\ pending = {}

\* Nothing can make the session healthy again.
Unhealthy == stop = "done" => ~healthy /\ ~confirming.busy

\* Only an attempt in flight keeps a socket or a thread.
TransportGone ==
    /\ stop \in {"leaving", "done"} /\ attempt = "none" /\ ~netloop => sock = "closed"
    /\ stop = "done" /\ attempt = "none" => ~netloop

StopInv == Disarmed /\ Unhealthy /\ TransportGone

LEMMA StopKept ==
    ASSUME StopInv,
           UNCHANGED <<stop, subackTimer, pending, healthy, confirming, attempt, netloop, sock>>
    PROVE  StopInv'
BY DEF StopInv, Disarmed, Unhealthy, TransportGone, stopping

\* A step that is taken only while nobody has called stop().
LEMMA StopNotBegun ==
    ASSUME stop = "no", UNCHANGED stop
    PROVE  StopInv'
BY DEF StopInv, Disarmed, Unhealthy, TransportGone, stopping

LEMMA StopStep == TypeOK /\ StopInv /\ [Next]_vars => StopInv'
<1> SUFFICES ASSUME TypeOK, StopInv, [Next]_vars PROVE StopInv'
  OBVIOUS
<1> USE DEF stopping
<1>1. CASE UNCHANGED vars
  BY <1>1, StopKept DEF vars, adapterVars, timerVars, pahoVars
<1>2. CASE Paho
  <2>1. CASE OnConnect
    BY <2>1 DEF OnConnect, PahoFree, timerVars, StopInv, Disarmed, Unhealthy, TransportGone
  <2>2. CASE OnConnectRefused
    BY <2>2 DEF OnConnectRefused, PahoFree, ReportConnection, timerVars, StopInv, Disarmed,
                Unhealthy, TransportGone
  <2>3. CASE OnConnectSubscribeFails
    BY <2>3, StopNotBegun DEF OnConnectSubscribeFails
  <2>4. ASSUME NEW f \in Filters, OnSubscribe(f) PROVE StopInv'
    BY <2>4, StopNotBegun
       DEF OnSubscribe, timerVars, StopInv, Disarmed, Unhealthy, TransportGone
  <2>5. CASE OnSubscribeEnds
    BY <2>5 DEF OnSubscribeEnds, NotConfirming, timerVars, pahoVars, StopInv, Disarmed,
                Unhealthy, TransportGone
  <2>6. CASE OnSubscribeRefused
    BY <2>6, StopNotBegun DEF OnSubscribeRefused, StopInv, Disarmed
  <2>7. CASE OnDisconnect \/ ConnectionLost
    BY <2>7 DEF OnDisconnect, ConnectionLost, SessionOver, ReportConnection, timerVars,
                StopInv, Disarmed, Unhealthy, TransportGone
  <2>8. CASE BrokerFallsSilent
    BY <2>8, StopKept DEF BrokerFallsSilent, adapterVars, timerVars
  <2> QED
    BY <1>2, <2>1, <2>2, <2>3, <2>4, <2>5, <2>6, <2>7, <2>8 DEF Paho
<1>3. CASE Loop
  <2>1. CASE CallArm \/ CallDisarm
    <3>1. /\ UNCHANGED <<stop, pending, healthy, confirming, attempt, netloop, sock>>
          /\ stop # "no" => subackTimer' = FALSE
      <4>1. CASE CallArm
        BY <4>1, Zenon DEF CallArm, adapterVars, pahoVars
      <4>2. CASE CallDisarm
        BY <4>2 DEF CallDisarm, adapterVars, pahoVars
      <4> QED
        BY <2>1, <4>1, <4>2
    <3> QED
      BY <3>1 DEF StopInv, Disarmed, Unhealthy, TransportGone
  <2>2. CASE CallSchedule \/ CallSupersede \/ CallWake \/ RetryDue
    BY <2>2, StopKept DEF CallSchedule, CallSupersede, CallWake, RetryDue, adapterVars,
                          timerVars, pahoVars
  <2>3. CASE CallFire
    BY <2>3 DEF CallFire, NextCall, LoopRuns, adapterVars, pahoVars, StopInv, Disarmed, Unhealthy,
                TransportGone
  <2>4. CASE AttemptEnds
    BY <2>4 DEF AttemptEnds, Teardown, pahoVars, StopInv, Disarmed, Unhealthy, TransportGone
  <2>5. CASE SubackTimeout
    BY <2>5, StopNotBegun DEF SubackTimeout, StopInv, Disarmed
  <2>6. CASE IngressFails
    BY <2>6, StopNotBegun DEF IngressFails
  <2> QED
    BY <1>3, <2>1, <2>2, <2>3, <2>4, <2>5, <2>6 DEF Loop, Callback
<1>4. CASE Worker
  BY <1>4 DEF Worker, DialFails, Dial, LoopStart, DialOver, GivesUpSocket, adapterVars, StopInv,
              Disarmed, Unhealthy, TransportGone
<1>5. CASE Stop
  <2>1. CASE StopBegin
    BY <2>1 DEF StopBegin, StopInv, Disarmed, Unhealthy, TransportGone
  <2>2. CASE StopDisconnect
    BY <2>2 DEF StopDisconnect, adapterVars, timerVars, StopInv, Disarmed, Unhealthy,
                TransportGone
  <2>3. CASE StopDone
    BY <2>3 DEF StopDone, ReportConnection, timerVars, pahoVars, StopInv, Disarmed, Unhealthy,
                TransportGone
  <2> QED
    BY <1>5, <2>1, <2>2, <2>3 DEF Stop
<1> QED
  BY <1>1, <1>2, <1>3, <1>4, <1>5 DEF Next

\* Once stop() has returned nothing revives the session, and an attempt that
\* was in flight leaves neither a socket nor a thread (client.py:331).
THEOREM NothingRevives == Spec => []StopIsFinal
<1>1. Init => StopInv
  BY DEF Init, StopInv, Disarmed, Unhealthy, TransportGone, stopping
<1>2. StopInv /\ OneAttempt => StopIsFinal
  BY DEF StopInv, Disarmed, Unhealthy, TransportGone, OneAttempt, StopIsFinal, stopping
<1> QED
  BY <1>1, <1>2, StopStep, SessionTyped, SingleOwner, PTL DEF Spec

-------------------------------------------------------------------------------
(* Nothing is left to chance: an adapter that is not usable has something   *)
(* under way.  What is under way is mostly a callback the loop has yet to   *)
(* run, so the invariant speaks of the order of the callbacks.              *)

Queued(s, ops) == \E i \in DOMAIN s : s[i].op \in ops

Retrying == {"connect", "schedule"}
Reports  == {"wake", "resume"}

\* The SUBACK timer will be armed, and nothing queued later disarms it.
ArmsLast(s) ==
    \E i \in DOMAIN s : /\ s[i].op = "arm"
                        /\ \A j \in DOMAIN s : i < j => s[j].op # "disarm"

\* Whatever the confirmation of generation g cancels is scheduled again later.
Answered(s, g) ==
    \A i \in DOMAIN s : s[i].op = "supersede" /\ s[i].gen = g
                           => \E j \in DOMAIN s : i < j /\ s[j].op \in Retrying

OneReport(s) ==
    \A i, j \in DOMAIN s : s[i].op \in Reports /\ s[j].op \in Reports => i = j

\* How the loop's queue grows at its end ...
LEMMA QueueGrows ==
    ASSUME NEW s \in Seq(Calls), NEW c \in Calls
    PROVE  /\ \A ops : Queued(Append(s, c), ops) <=> Queued(s, ops) \/ c.op \in ops
           /\ c.op = "arm" => ArmsLast(Append(s, c))
           /\ c.op # "disarm" /\ ArmsLast(s) => ArmsLast(Append(s, c))
           /\ \A g : \/ c.op \in Retrying
                     \/ c.op # "supersede" /\ Answered(s, g)
                     => Answered(Append(s, c), g)
           /\ OneReport(s) /\ (c.op \in Reports => ~Queued(s, Reports))
                 => OneReport(Append(s, c))
<1> DEFINE t == Append(s, c)
<1>1. /\ DOMAIN s = 1..Len(s) /\ Len(s) \in Nat
      /\ DOMAIN t = 1..(Len(s) + 1)
      /\ \A i \in 1..Len(s) : t[i] = s[i]
      /\ t[Len(s) + 1] = c
  OBVIOUS
<1> HIDE DEF t
<1>2. \A ops : Queued(t, ops) <=> Queued(s, ops) \/ c.op \in ops
  BY <1>1 DEF Queued
<1>3. c.op = "arm" => ArmsLast(t)
  BY <1>1 DEF ArmsLast
<1>4. c.op # "disarm" /\ ArmsLast(s) => ArmsLast(t)
  BY <1>1 DEF ArmsLast
<1>5. \A g : c.op \in Retrying \/ (c.op # "supersede" /\ Answered(s, g)) => Answered(t, g)
  BY <1>1 DEF Answered, Retrying
<1>6. OneReport(s) /\ (c.op \in Reports => ~Queued(s, Reports)) => OneReport(t)
  BY <1>1 DEF OneReport, Queued
<1> QED
  BY <1>2, <1>3, <1>4, <1>5, <1>6 DEF t

\* ... and is served from its head.
LEMMA QueueServed ==
    ASSUME NEW s \in Seq(Calls), s # <<>>
    PROVE  /\ \A ops : Queued(s, ops) <=> Head(s).op \in ops \/ Queued(Tail(s), ops)
           /\ Head(s).op # "arm" /\ ArmsLast(s) => ArmsLast(Tail(s))
           /\ ArmsLast(s) => ArmsLast(Tail(s)) \/ ~Queued(Tail(s), {"disarm"})
           /\ \A g : Answered(s, g) => Answered(Tail(s), g)
           /\ \A g : Answered(s, g) /\ Head(s).op = "supersede" /\ Head(s).gen = g
                 => Queued(Tail(s), Retrying)
           /\ OneReport(s) => OneReport(Tail(s))
           /\ OneReport(s) /\ Head(s).op \in Reports => ~Queued(Tail(s), Reports)
<1> DEFINE t == Tail(s)
<1>1. /\ DOMAIN s = 1..Len(s) /\ Len(s) \in Nat /\ Len(s) > 0
      /\ DOMAIN t = 1..(Len(s) - 1)
      /\ \A i \in 1..(Len(s) - 1) : t[i] = s[i + 1]
      /\ Head(s) = s[1]
  OBVIOUS
<1>2. \A i \in DOMAIN s : i = 1 \/ (i - 1 \in DOMAIN t /\ t[i - 1] = s[i])
  BY <1>1
<1>3. \A i \in DOMAIN t : i + 1 \in DOMAIN s /\ t[i] = s[i + 1]
  BY <1>1
<1> HIDE DEF t
<1>4. ASSUME NEW ops
      PROVE  Queued(s, ops) <=> Head(s).op \in ops \/ Queued(t, ops)
  <2>1. ASSUME Queued(s, ops) PROVE Head(s).op \in ops \/ Queued(t, ops)
    <3>1. PICK i \in DOMAIN s : s[i].op \in ops
      BY <2>1 DEF Queued
    <3>2. i = 1 \/ (i - 1 \in DOMAIN t /\ t[i - 1].op \in ops)
      BY <1>2, <3>1
    <3> QED
      BY <1>1, <3>1, <3>2 DEF Queued
  <2>2. ASSUME Queued(t, ops) PROVE Queued(s, ops)
    <3>1. PICK i \in DOMAIN t : t[i].op \in ops
      BY <2>2 DEF Queued
    <3>2. i + 1 \in DOMAIN s /\ s[i + 1].op \in ops
      BY <1>3, <3>1
    <3> QED
      BY <3>2 DEF Queued
  <2>3. Head(s).op \in ops => Queued(s, ops)
    <3>1. 1 \in DOMAIN s
      BY <1>1
    <3> QED
      BY <1>1, <3>1 DEF Queued
  <2> QED
    BY <2>1, <2>2, <2>3
<1>5. Head(s).op # "arm" /\ ArmsLast(s) => ArmsLast(t)
  BY <1>1, <1>2, <1>3 DEF ArmsLast
<1>6. ArmsLast(s) => ArmsLast(t) \/ ~Queued(t, {"disarm"})
  BY <1>1, <1>2, <1>3 DEF ArmsLast, Queued
<1>7. ASSUME NEW g, Answered(s, g) PROVE Answered(t, g)
  <2> SUFFICES ASSUME NEW i \in DOMAIN t, t[i].op = "supersede" /\ t[i].gen = g
               PROVE  \E j \in DOMAIN t : i < j /\ t[j].op \in Retrying
    BY DEF Answered
  <2>1. i + 1 \in DOMAIN s /\ s[i + 1].op = "supersede" /\ s[i + 1].gen = g
    BY <1>3
  <2>2. PICK j \in DOMAIN s : i + 1 < j /\ s[j].op \in Retrying
    BY <1>7, <2>1 DEF Answered
  <2>3. j - 1 \in DOMAIN t /\ t[j - 1] = s[j] /\ i < j - 1
    BY <1>1, <1>2, <2>2
  <2> QED
    BY <2>2, <2>3
<1>8. ASSUME NEW g, Answered(s, g), Head(s).op = "supersede", Head(s).gen = g
      PROVE  Queued(t, Retrying)
  <2>1. 1 \in DOMAIN s /\ s[1].op = "supersede" /\ s[1].gen = g
    BY <1>1, <1>8
  <2>2. PICK j \in DOMAIN s : 1 < j /\ s[j].op \in Retrying
    BY <1>8, <2>1 DEF Answered
  <2>3. j - 1 \in DOMAIN t /\ t[j - 1] = s[j]
    BY <1>1, <1>2, <2>2
  <2> QED
    BY <2>2, <2>3 DEF Queued
<1>9. OneReport(s) => OneReport(t)
  BY <1>1, <1>2, <1>3 DEF OneReport
<1>10. ASSUME OneReport(s), Head(s).op \in Reports, NEW i \in DOMAIN t
       PROVE  t[i].op \notin Reports
  <2>1. i + 1 \in DOMAIN s /\ t[i] = s[i + 1] /\ i + 1 # 1
    BY <1>1, <1>3
  <2>2. 1 \in DOMAIN s /\ s[1].op \in Reports
    BY <1>1, <1>10
  <2> QED
    BY <1>10, <2>1, <2>2 DEF OneReport
<1>11. OneReport(s) /\ Head(s).op \in Reports => ~Queued(t, Reports)
  BY <1>10 DEF Queued
<1> QED
  BY <1>4, <1>5, <1>6, <1>7, <1>8, <1>9, <1>11 DEF t

\* A callback of the network thread belongs to a session that is still there.
CallbackAttached == confirming.busy => sock = "open" /\ netloop

\* Whoever got an answer from the broker has the thread that read it.
ThreadRuns == sock \in {"open", "refused"} => netloop

LEMMA TransportStep ==
    TypeOK /\ CallbackAttached /\ ThreadRuns /\ [Next]_vars
        => CallbackAttached' /\ ThreadRuns'
<1> SUFFICES ASSUME TypeOK, CallbackAttached, ThreadRuns, [Next]_vars
             PROVE  CallbackAttached' /\ ThreadRuns'
  OBVIOUS
<1> USE DEF CallbackAttached, ThreadRuns
<1>0. CASE UNCHANGED <<confirming, sock, netloop>>
  BY <1>0
<1>1. CASE UNCHANGED vars
  BY <1>0, <1>1 DEF vars, adapterVars, pahoVars
<1>2. CASE Paho
  <2>1. CASE OnConnect \/ OnConnectRefused \/ OnConnectSubscribeFails
    BY <2>1 DEF OnConnect, OnConnectRefused, OnConnectSubscribeFails, PahoFree
  <2>2. ASSUME NEW f \in Filters, OnSubscribe(f)
        PROVE  CallbackAttached' /\ ThreadRuns'
    BY <2>2 DEF OnSubscribe, PahoFree
  <2>3. CASE OnSubscribeEnds
    BY <2>3 DEF OnSubscribeEnds, NotConfirming, pahoVars
  <2>4. CASE OnSubscribeRefused \/ BrokerFallsSilent
    BY <1>0, <2>4 DEF OnSubscribeRefused, BrokerFallsSilent, adapterVars
  <2>5. CASE OnDisconnect \/ ConnectionLost
    BY <2>5 DEF OnDisconnect, ConnectionLost, SessionOver, PahoFree
  <2> QED
    BY <1>2, <2>1, <2>2, <2>3, <2>4, <2>5 DEF Paho
<1>3. CASE Loop
  <2>1. CASE \/ CallArm \/ CallDisarm \/ CallSchedule \/ CallSupersede \/ CallFire
             \/ CallWake \/ RetryDue \/ IngressFails
    BY <1>0, <2>1 DEF CallArm, CallDisarm, CallSchedule, CallSupersede, CallFire, CallWake,
                      RetryDue, IngressFails, adapterVars, pahoVars
  <2>2. CASE AttemptEnds
    BY <2>2 DEF AttemptEnds, Teardown, pahoVars
  <2>3. CASE SubackTimeout
    <3>1. UNCHANGED confirming
      BY <2>3, Zenon DEF SubackTimeout, adapterVars
    <3> QED
      BY <1>0, <2>3, <3>1 DEF SubackTimeout
  <2> QED
    BY <1>3, <2>1, <2>2, <2>3 DEF Loop, Callback
<1>4. CASE Worker
  <2>1. CASE DialFails \/ Dial
    \* A dial ends outside a callback.
    BY <2>1 DEF DialFails, Dial, DialOver, GivesUpSocket
  <2>2. CASE LoopStart
    <3>1. (sock # "closed") \in BOOLEAN
      OBVIOUS
    <3> QED
      BY <2>2, <3>1 DEF LoopStart, adapterVars
  <2> QED
    BY <1>4, <2>1, <2>2 DEF Worker
<1>5. CASE Stop
  <2>1. CASE StopBegin \/ StopDone
    BY <1>0, <2>1 DEF StopBegin, StopDone, pahoVars
  <2>2. CASE StopDisconnect
    BY <2>2 DEF StopDisconnect, adapterVars
  <2> QED
    BY <1>5, <2>1, <2>2 DEF Stop
<1> QED
  BY <1>1, <1>2, <1>3, <1>4, <1>5 DEF Next

-------------------------------------------------------------------------------
(* Without an open connection only a socket given up by an attempt leaves the *)
(* adapter reporting a usable session.                                        *)

UnreportedLoss == ~stopping /\ sock # "open" /\ subscriptions_confirmed => replaced

LEMMA LossStep ==
    TypeOK /\ CallbackAttached /\ UnreportedLoss /\ [Next]_vars => UnreportedLoss'
<1> SUFFICES ASSUME TypeOK, CallbackAttached, UnreportedLoss, [Next]_vars
             PROVE  UnreportedLoss'
  OBVIOUS
<1> USE DEF UnreportedLoss, subscriptions_confirmed
\* Whoever reports a lost connection ends the health.
<1>r. ReportConnection(FALSE) => UnreportedLoss'
  BY DEF ReportConnection
<1>k. UNCHANGED <<stop, sock, healthy, pending, replaced>> => UnreportedLoss'
  BY DEF stopping
<1>1. CASE UNCHANGED vars
  BY <1>1, <1>k DEF vars, adapterVars, pahoVars
<1>2. CASE Paho
  <2>1. CASE OnConnect
    BY <2>1 DEF OnConnect
  <2>2. CASE OnConnectRefused \/ OnConnectSubscribeFails \/ OnSubscribeRefused
             \/ OnDisconnect \/ ConnectionLost
    BY <1>r, <2>2 DEF OnConnectRefused, OnConnectSubscribeFails, OnSubscribeRefused,
                      OnDisconnect, ConnectionLost, SessionOver, FailSession
  <2>3. CASE OnSubscribeEnds \/ \E f \in Filters : OnSubscribe(f)
    BY <2>3 DEF OnSubscribeEnds, OnSubscribe, CallbackAttached, pahoVars
  <2>4. CASE BrokerFallsSilent
    BY <1>k, <2>4 DEF BrokerFallsSilent, adapterVars
  <2> QED
    BY <1>2, <2>1, <2>2, <2>3, <2>4 DEF Paho
<1>3. CASE Loop
  <2>1. CASE CallArm \/ CallDisarm \/ CallSchedule \/ CallSupersede \/ CallFire \/ CallWake
             \/ RetryDue
    BY <1>k, <2>1
       DEF CallArm, CallDisarm, CallSchedule, CallSupersede, CallFire, CallWake, RetryDue,
           adapterVars, pahoVars
  <2>2. CASE AttemptEnds
    <3>1. CASE stopping
      BY <2>2, <3>1 DEF AttemptEnds, stopping
    <3>2. CASE ~stopping
      <4>1. UNCHANGED <<stop, sock, healthy, pending, replaced>>
        BY <2>2, <3>2 DEF AttemptEnds, pahoVars
      <4> QED
        BY <1>k, <4>1
    <3> QED
      BY <3>1, <3>2
  <2>3. CASE SubackTimeout
    BY <1>k, <1>r, <2>3 DEF SubackTimeout, FailSession, adapterVars
  <2>4. CASE IngressFails
    BY <1>r, <2>4 DEF IngressFails
  <2> QED
    BY <1>3, <2>1, <2>2, <2>3, <2>4 DEF Loop, Callback
<1>4. CASE Worker
  <2>1. CASE DialFails \/ Dial
    BY <2>1 DEF DialFails, Dial, GivesUpSocket
  <2>2. CASE LoopStart
    BY <1>k, <2>2 DEF LoopStart, adapterVars
  <2> QED
    BY <1>4, <2>1, <2>2 DEF Worker
<1>5. CASE Stop
  BY <1>5 DEF Stop, StopBegin, StopDisconnect, StopDone, stopping
<1> QED
  BY <1>1, <1>2, <1>3, <1>4, <1>5 DEF Next

\* A session reported usable (client.py:295) over an open connection was granted
\* every filter by the broker on this very connection: no stale SUBACK, deferral
\* or timeout in between makes it look so.  Without an open connection it is
\* still reported usable in one case only: an attempt gave its socket up, and
\* nothing has been reported since (client.py:796-827 reports nothing).
THEOREM HealthNeverFeigned == Spec => []HealthEarned
<1> DEFINE Inv == AwaitedOrGranted /\ CallbackAttached /\ ThreadRuns /\ UnreportedLoss
<1>1. Init => Inv
  BY DEF Init, AwaitedOrGranted, CallbackAttached, ThreadRuns, UnreportedLoss,
         subscriptions_confirmed, NotConfirming
<1>2. TypeOK /\ Inv /\ [Next]_vars => Inv'
  BY AwaitedStep, TransportStep, LossStep
<1>3. TypeOK /\ Inv => HealthEarned
  BY DEF AwaitedOrGranted, UnreportedLoss, HealthEarned, subscriptions_confirmed, TypeOK
<1> HIDE DEF Inv
<1> QED
  BY <1>1, <1>2, <1>3, SessionTyped, PTL DEF Spec

-------------------------------------------------------------------------------
\* An attempt reports to the loop once, when it has come to its end.
ReportsOnce ==
    /\ OneReport(calls)
    /\ attempt \in {"none", "dialing", "starting"} => ~Queued(calls, Reports)

\* What every step does to the queue: one or two callbacks are posted, the head
\* is served, or both.  Only an attempt that ends posts a report, and serving
\* its first half posts the second.
Posted(c) == c \in Calls /\ calls' = Append(calls, c)
PostedTwo(c, d) == c \in Calls /\ d \in Calls /\ calls' = Append(Append(calls, c), d)
Served == calls # <<>> /\ calls' = Tail(calls)

LEMMA CallOps == \A op : Call(op).op = op
BY DEF Call

\* Posting anything but a report, or serving a callback.
LEMMA ReportsKept ==
    ASSUME TypeOK, ReportsOnce, UNCHANGED attempt,
           \/ UNCHANGED calls
           \/ \E c \in Calls : c.op \notin Reports /\ Posted(c)
           \/ \E c, d \in Calls : c.op \notin Reports /\ d.op \notin Reports /\ PostedTwo(c, d)
           \/ Served
    PROVE  ReportsOnce'
<1>0. calls \in Seq(Calls)
  BY DEF TypeOK
<1>1. CASE UNCHANGED calls
  BY <1>1 DEF ReportsOnce
<1>2. ASSUME NEW c \in Calls, c.op \notin Reports, Posted(c)
      PROVE  ReportsOnce'
  BY <1>0, <1>2, QueueGrows DEF ReportsOnce, Posted
<1>3. ASSUME NEW c \in Calls, NEW d \in Calls, c.op \notin Reports, d.op \notin Reports,
             PostedTwo(c, d)
      PROVE  ReportsOnce'
  <2> DEFINE t == Append(calls, c)
  <2>1. t \in Seq(Calls)
    BY <1>0
  <2>2. OneReport(t) /\ (~Queued(calls, Reports) => ~Queued(t, Reports))
    BY <1>0, <1>3, QueueGrows DEF ReportsOnce
  <2>3. calls' = Append(t, d)
    BY <1>3 DEF PostedTwo
  <2> HIDE DEF t
  <2>4. OneReport(calls') /\ (~Queued(t, Reports) => ~Queued(calls', Reports))
    BY <1>3, <2>1, <2>2, <2>3, QueueGrows
  <2> QED
    BY <2>2, <2>4 DEF ReportsOnce
<1>4. CASE Served
  BY <1>0, <1>4, QueueServed DEF ReportsOnce, Served
<1> QED
  BY <1>1, <1>2, <1>3, <1>4

\* Where the callbacks of each step come from.
LEMMA RequestPosts ==
    ASSUME TypeOK, RequestReconnect \/ ScheduleReconnect
    PROVE  /\ stopping => UNCHANGED calls
           /\ ~stopping => Posted(Call("schedule"))
BY CallTyped DEF RequestReconnect, ScheduleReconnect, Post, Posted

LEMMA SessionOverPosts ==
    ASSUME TypeOK, SessionOver
    PROVE  /\ stopping => Posted(Call("disarm"))
           /\ ~stopping => PostedTwo(Call("disarm"), Call("schedule"))
<1>1. /\ \A c \in Calls : calls \o <<c>> = Append(calls, c)
      /\ \A c, d \in Calls : calls \o <<c, d>> = Append(Append(calls, c), d)
  BY DEF TypeOK
<1> QED
  BY <1>1, CallTyped, Zenon DEF SessionOver, Posted, PostedTwo

\* The call a confirmation posts for the generation it confirmed.
Supersede(g) == [op |-> "supersede", gen |-> g]

LEMMA ConfirmationPosts ==
    ASSUME TypeOK, OnSubscribeEnds
    PROVE  /\ pending # {} => UNCHANGED calls
           /\ pending = {} => PostedTwo(Call("disarm"), Supersede(confirming.gen))
<1>1. \A c, d \in Calls : calls \o <<c, d>> = Append(Append(calls, c), d)
  BY DEF TypeOK
<1>2. Call("disarm") \in Calls /\ Supersede(confirming.gen) \in Calls
  BY CallTyped DEF TypeOK, Supersede
<1> QED
  BY <1>1, <1>2, Zenon DEF OnSubscribeEnds, PostedTwo, Supersede

LEMMA CallServed ==
    ASSUME NEW op, NextCall(op)
    PROVE  calls # <<>> /\ Head(calls).op = op /\ (Called => Served)
BY DEF NextCall, Called, Served

LEMMA ReportsStep == TypeOK /\ ReportsOnce /\ [Next]_vars => ReportsOnce'
<1> SUFFICES ASSUME TypeOK, ReportsOnce, [Next]_vars PROVE ReportsOnce'
  OBVIOUS
<1>n. /\ \A op \in {"arm", "disarm", "schedule", "fire"} : Call(op).op \notin Reports
      /\ \A g : Supersede(g).op \notin Reports
      /\ \A g \in Nat : Supersede(g) \in Calls
  BY CallOps, CallTyped DEF Reports, Supersede
<1>c. calls \in Seq(Calls)
  BY DEF TypeOK
<1>1. CASE UNCHANGED vars
  BY <1>1, ReportsKept DEF vars, timerVars
<1>2. CASE Paho
  <2>1. CASE OnConnect
    <3>1. UNCHANGED calls \/ Posted(Call("arm"))
      BY <2>1, CallTyped DEF OnConnect, Post, Posted
    <3> QED
      BY <2>1, <3>1, <1>n, ReportsKept DEF OnConnect, Posted, timerVars
  <2>2. CASE OnConnectRefused \/ OnConnectSubscribeFails \/ OnSubscribeRefused
    <3>1. (RequestReconnect \/ ScheduleReconnect) /\ UNCHANGED attempt
      BY <2>2 DEF OnConnectRefused, OnConnectSubscribeFails, OnSubscribeRefused, FailSession,
                  timerVars
    <3>2. UNCHANGED calls \/ Posted(Call("schedule"))
      BY <3>1, RequestPosts
    <3> QED
      BY <3>1, <3>2, <1>n, ReportsKept DEF Posted
  <2>3. ASSUME NEW f \in Filters, OnSubscribe(f) PROVE ReportsOnce'
    BY <2>3, ReportsKept DEF OnSubscribe, timerVars
  <2>4. CASE OnSubscribeEnds
    <3>1. UNCHANGED calls \/ PostedTwo(Call("disarm"), Supersede(confirming.gen))
      BY <2>4, ConfirmationPosts
    <3> QED
      BY <2>4, <3>1, <1>n, ReportsKept DEF OnSubscribeEnds, PostedTwo, timerVars
  <2>5. CASE OnDisconnect \/ ConnectionLost
    <3>1. SessionOver
      BY <2>5 DEF OnDisconnect, ConnectionLost
    <3>2. Posted(Call("disarm")) \/ PostedTwo(Call("disarm"), Call("schedule"))
      BY <3>1, SessionOverPosts
    <3> QED
      BY <3>1, <3>2, <1>n, ReportsKept DEF SessionOver, Posted, PostedTwo, timerVars
  <2>6. CASE BrokerFallsSilent
    BY <2>6, ReportsKept DEF BrokerFallsSilent, timerVars
  <2> QED
    BY <1>2, <2>1, <2>2, <2>3, <2>4, <2>5, <2>6 DEF Paho
<1>3. CASE Loop
  <2>1. CASE CallArm \/ CallDisarm \/ CallSchedule \/ CallSupersede
    <3>1. Served /\ UNCHANGED attempt
      BY <2>1, CallServed DEF CallArm, CallDisarm, CallSchedule, CallSupersede
    <3> QED
      BY <3>1, ReportsKept
  <2>2. CASE CallFire
    <3>1. Served
      BY <2>2, CallServed DEF CallFire
    <3>2. attempt' = attempt \/ attempt = "none"
      BY <2>2 DEF CallFire
    <3> QED
      BY <1>c, <3>1, <3>2, QueueServed DEF ReportsOnce, Served
  <2>3. CASE CallWake
    <3> DEFINE t == Tail(calls)
               c == Call("resume")
    <3>1. calls # <<>> /\ Head(calls).op \in Reports
      BY <2>3, CallServed DEF CallWake, Reports
    <3>2. OneReport(t) /\ ~Queued(t, Reports) /\ Queued(calls, Reports) /\ t \in Seq(Calls)
      BY <1>c, <3>1, QueueServed DEF ReportsOnce
    <3>3. calls' = Append(t, c) /\ c \in Calls /\ UNCHANGED attempt
      BY <2>3, CallTyped DEF CallWake, timerVars
    <3> HIDE DEF t, c
    <3>4. OneReport(calls')
      BY <3>2, <3>3, QueueGrows
    <3> QED
      BY <3>2, <3>3, <3>4 DEF ReportsOnce
  <2>4. CASE AttemptEnds
    <3> DEFINE t == Tail(calls)
    <3>1. calls # <<>> /\ Head(calls).op \in Reports
      BY <2>4, CallServed DEF AttemptEnds, Reports
    <3>2. OneReport(t) /\ ~Queued(t, Reports) /\ t \in Seq(Calls)
      BY <1>c, <3>1, QueueServed DEF ReportsOnce
    <3>3. \/ calls' = t
          \/ \E c \in Calls : c.op \notin Reports /\ calls' = Append(t, c)
      BY <2>4, <1>n, CallTyped DEF AttemptEnds, Teardown, Called
    <3> HIDE DEF t
    <3>4. OneReport(calls') /\ ~Queued(calls', Reports)
      BY <3>2, <3>3, QueueGrows
    <3> QED
      BY <3>4 DEF ReportsOnce
  <2>5. CASE SubackTimeout \/ IngressFails
    <3>1. UNCHANGED attempt /\ (UNCHANGED calls \/ RequestReconnect)
      BY <2>5 DEF SubackTimeout, IngressFails, FailSession, timerVars
    <3>2. UNCHANGED calls \/ Posted(Call("schedule"))
      BY <3>1, RequestPosts
    <3> QED
      BY <3>1, <3>2, <1>n, ReportsKept DEF Posted
  <2>6. CASE RetryDue
    <3>1. Posted(Call("fire"))
      BY <2>6, CallTyped DEF RetryDue, Post, Posted
    <3> QED
      BY <2>6, <3>1, <1>n, ReportsKept DEF RetryDue, Posted
  <2> QED
    BY <1>3, <2>1, <2>2, <2>3, <2>4, <2>5, <2>6 DEF Loop, Callback
<1>4. CASE Worker
  \* The attempt has not reported yet, and does so with the step that ends it.
  <2>1. ~Queued(calls, Reports) /\ OneReport(calls)
    BY <1>4 DEF Worker, DialFails, Dial, LoopStart, DialOver, ReportsOnce
  <2>2. \/ UNCHANGED calls
        \/ /\ \E c \in Calls : calls' = Append(calls, c)
           /\ attempt' \in {"failed", "dialed"}
    BY <1>4, CallTyped DEF Worker, DialFails, Dial, LoopStart, Post
  <2> QED
    BY <1>c, <2>1, <2>2, QueueGrows DEF ReportsOnce
<1>5. CASE Stop
  BY <1>5, ReportsKept DEF Stop, StopBegin, StopDisconnect, StopDone, timerVars
<1> QED
  BY <1>1, <1>2, <1>3, <1>4, <1>5 DEF Next

-------------------------------------------------------------------------------
(* What an adapter nobody has stopped is waiting for. *)

\* A SUBACK that is awaited has its timer running or about to be armed.
AwaitedTimed ==
    ~stopping /\ pending # {}
        => ArmsLast(calls) \/ (subackTimer /\ ~Queued(calls, {"disarm"}))

\* Whoever emptied the set of awaited SUBACKs drew the verdict or is at it.
OpenVerdict ==
    ~stopping /\ sock = "open" /\ ~leaving => pending # {} \/ confirming.busy \/ healthy

\* A closed session is being retried, ...
ClosedRetried ==
    ~stopping /\ sock = "closed" => attempt # "none" \/ retry.armed \/ Queued(calls, Retrying)

\* ... a confirmation that comes too late cancels no retry it is not followed by, ...
ClosedAnswered ==
    ~stopping /\ sock = "closed" /\ healthy /\ attempt = "none" => Answered(calls, gen)

\* ... and an attempt whose session ended meanwhile knows that another is owed.
AttemptAnswers ==
    ~stopping /\ sock = "closed" /\ attempt \in {"starting", "dialed"}
        => ~healthy /\ (deferred \/ Queued(calls, Retrying))

\* stop() is never taken back.
LEMMA NotStopped ==
    ASSUME [Next]_vars, ~stopping'
    PROVE  ~stopping /\ ~Stop /\ UNCHANGED stop
<1>1. CASE UNCHANGED vars
  BY <1>1 DEF vars, stopping, Stop, StopBegin, StopDisconnect, StopDone
<1>2. CASE Stop
  BY <1>2 DEF Stop, StopBegin, StopDisconnect, StopDone, stopping
<1>3. CASE Next /\ ~Stop
  <2>1. UNCHANGED stop
    BY <1>3 DEF Next, Paho, Loop, Callback, Worker, OnConnect, OnConnectRefused,
       OnConnectSubscribeFails, OnSubscribe, OnSubscribeEnds, OnSubscribeRefused, OnDisconnect,
       SessionOver, ConnectionLost, BrokerFallsSilent, CallArm, CallDisarm, CallSchedule,
       CallSupersede, CallFire, CallWake, AttemptEnds, SubackTimeout, RetryDue, IngressFails,
       DialFails, Dial, LoopStart
  <2> QED
    BY <1>3, <2>1 DEF stopping
<1> QED
  BY <1>1, <1>2, <1>3

LEMMA VerdictStep == TypeOK /\ OpenVerdict /\ [Next]_vars => OpenVerdict'
<1> SUFFICES ASSUME TypeOK, OpenVerdict, [Next]_vars, ~stopping' PROVE OpenVerdict'
  BY DEF OpenVerdict
<1>s. ~stopping /\ ~Stop /\ UNCHANGED stop
  BY NotStopped
<1>0. CASE UNCHANGED <<sock, leaving, pending, confirming, healthy>>
  BY <1>0, <1>s DEF OpenVerdict
<1>1. CASE UNCHANGED vars
  BY <1>0, <1>1 DEF vars, adapterVars, pahoVars
<1>r. RequestReconnect /\ UNCHANGED sock => OpenVerdict'
  \* Whoever requests a reconnection of an open session leaves it.
  BY <1>s DEF RequestReconnect, OpenVerdict
<1>2. CASE Paho
  <2>1. CASE OnConnect
    BY <1>s, <2>1, FiltersAssumption DEF OnConnect, OpenVerdict
  <2>2. CASE OnConnectRefused \/ OnDisconnect \/ ConnectionLost
    BY <2>2 DEF OnConnectRefused, OnDisconnect, ConnectionLost, SessionOver, OpenVerdict
  <2>3. CASE OnConnectSubscribeFails
    BY <1>s, <2>3 DEF OnConnectSubscribeFails, FailSession, RequestReconnect, OpenVerdict
  <2>4. ASSUME NEW f \in Filters, OnSubscribe(f) PROVE OpenVerdict'
    BY <1>s, <2>4 DEF OnSubscribe, OpenVerdict
  <2>5. CASE OnSubscribeEnds
    <3>1. CASE pending = {}
      BY <1>s, <2>5, <3>1 DEF OnSubscribeEnds, ReportConnection, OpenVerdict
    <3>2. CASE pending # {}
      BY <1>s, <2>5, <3>2 DEF OnSubscribeEnds, OpenVerdict
    <3> QED
      BY <3>1, <3>2
  <2>6. CASE OnSubscribeRefused
    BY <1>r, <2>6 DEF OnSubscribeRefused, FailSession
  <2>7. CASE BrokerFallsSilent
    BY <1>0, <2>7 DEF BrokerFallsSilent, adapterVars
  <2> QED
    BY <1>2, <2>1, <2>2, <2>3, <2>4, <2>5, <2>6, <2>7 DEF Paho
<1>3. CASE Loop
  <2>1. CASE \/ CallArm \/ CallDisarm \/ CallSchedule \/ CallSupersede \/ CallFire
             \/ CallWake \/ RetryDue
    BY <1>0, <2>1 DEF CallArm, CallDisarm, CallSchedule, CallSupersede, CallFire, CallWake,
                      RetryDue, adapterVars, pahoVars
  <2>2. CASE AttemptEnds
    BY <1>0, <1>s, <2>2 DEF AttemptEnds, pahoVars
  <2>3. CASE SubackTimeout
    <3>1. CASE pending = {}
      BY <1>0, <2>3, <3>1 DEF SubackTimeout, adapterVars
    <3>2. CASE pending # {}
      BY <1>r, <1>s, <2>3, <3>2 DEF SubackTimeout, FailSession
    <3> QED
      BY <3>1, <3>2
  <2>4. CASE IngressFails
    BY <1>r, <2>4 DEF IngressFails
  <2> QED
    BY <1>3, <2>1, <2>2, <2>3, <2>4 DEF Loop, Callback
<1>4. CASE Worker
  <2>1. CASE DialFails \/ Dial
    BY <2>1 DEF DialFails, Dial, OpenVerdict
  <2>2. CASE LoopStart
    BY <1>0, <2>2 DEF LoopStart, adapterVars
  <2> QED
    BY <1>4, <2>1, <2>2 DEF Worker
<1> QED
  BY <1>s, <1>1, <1>2, <1>3, <1>4 DEF Next

LEMMA TimedStep == TypeOK /\ AwaitedTimed /\ [Next]_vars => AwaitedTimed'
<1> SUFFICES ASSUME TypeOK, AwaitedTimed, [Next]_vars, ~stopping', pending' # {}
             PROVE  ArmsLast(calls') \/ (subackTimer' /\ ~Queued(calls', {"disarm"}))
  BY DEF AwaitedTimed
<1>s. ~stopping /\ ~Stop /\ UNCHANGED stop
  BY NotStopped
<1>c. calls \in Seq(Calls)
  BY DEF TypeOK
<1> DEFINE Goal == ArmsLast(calls') \/ (subackTimer' /\ ~Queued(calls', {"disarm"}))
\* Fewer awaited SUBACKs, and the queue untouched or grown by another callback.
<1>0. ASSUME pending # {}, UNCHANGED subackTimer,
             \/ UNCHANGED calls
             \/ \E c \in Calls : c.op # "disarm" /\ Posted(c)
      PROVE  Goal
  <2>1. ArmsLast(calls) \/ (subackTimer /\ ~Queued(calls, {"disarm"}))
    BY <1>0, <1>s DEF AwaitedTimed
  <2>2. CASE UNCHANGED calls
    BY <1>0, <2>1, <2>2
  <2>3. ASSUME NEW c \in Calls, c.op # "disarm", Posted(c) PROVE Goal
    <3>1. c.op \notin {"disarm"} /\ calls' = Append(calls, c)
      BY <2>3 DEF Posted
    <3> QED
      BY <1>0, <1>c, <2>1, <3>1, <2>3, QueueGrows
  <2> QED
    BY <1>0, <2>2, <2>3
<1>h. ASSUME pending # {}, Served, Head(calls).op \notin {"arm", "disarm"},
             UNCHANGED subackTimer
      PROVE  Goal
  <2>1. ArmsLast(calls) \/ (subackTimer /\ ~Queued(calls, {"disarm"}))
    BY <1>h, <1>s DEF AwaitedTimed
  <2> QED
    BY <1>c, <1>h, <2>1, QueueServed DEF Served
<1>1. CASE UNCHANGED vars
  BY <1>0, <1>1 DEF vars, adapterVars, timerVars
<1>2. CASE Paho
  <2>1. CASE OnConnect
    <3>1. Posted(Call("arm")) /\ Call("arm").op = "arm"
      BY <1>s, <2>1, CallTyped, CallOps DEF OnConnect, Post, Posted
    <3> QED
      BY <1>c, <3>1, QueueGrows DEF Posted
  <2>2. CASE \/ OnConnectRefused \/ OnConnectSubscribeFails \/ OnSubscribeRefused
             \/ OnDisconnect \/ ConnectionLost
    \* The awaited SUBACKs are abandoned.
    BY <2>2 DEF OnConnectRefused, OnConnectSubscribeFails, OnSubscribeRefused, FailSession,
                OnDisconnect, ConnectionLost, SessionOver
  <2>3. ASSUME NEW f \in Filters, OnSubscribe(f) PROVE Goal
    <3>1. pending # {} /\ UNCHANGED <<subackTimer, calls>>
      BY <2>3 DEF OnSubscribe, timerVars
    <3> QED
      BY <1>0, <3>1
  <2>4. CASE OnSubscribeEnds
    BY <1>0, <2>4 DEF OnSubscribeEnds, timerVars
  <2>5. CASE BrokerFallsSilent
    BY <1>0, <2>5 DEF BrokerFallsSilent, adapterVars, timerVars
  <2> QED
    BY <1>2, <2>1, <2>2, <2>3, <2>4, <2>5 DEF Paho
<1>3. CASE Loop
  <2>1. CASE CallArm
    <3>1. Served /\ Head(calls).op = "arm" /\ UNCHANGED pending
      BY <2>1, CallServed DEF CallArm, adapterVars
    <3>2. subackTimer' = TRUE
      BY <1>s, <2>1, <3>1 DEF CallArm
    <3>3. ArmsLast(calls) \/ ~Queued(calls, {"disarm"})
      BY <1>s, <3>1 DEF AwaitedTimed
    <3> QED
      BY <1>c, <3>1, <3>2, <3>3, QueueServed DEF Served
  <2>2. CASE CallDisarm
    <3>1. Served /\ Head(calls).op = "disarm" /\ UNCHANGED pending
      BY <2>2, CallServed DEF CallDisarm, adapterVars
    <3>2. ArmsLast(calls)
      BY <1>c, <1>s, <3>1, QueueServed DEF AwaitedTimed, Served
    <3> QED
      BY <1>c, <3>1, <3>2, QueueServed DEF Served
  <2>3. CASE CallSchedule \/ CallSupersede \/ CallFire
    <3>1. Served /\ Head(calls).op \notin {"arm", "disarm"}
      BY <2>3, CallServed DEF CallSchedule, CallSupersede, CallFire
    <3>2. UNCHANGED <<pending, subackTimer>>
      BY <2>3 DEF CallSchedule, CallSupersede, CallFire, adapterVars
    <3> QED
      BY <1>h, <3>1, <3>2
  <2>4. CASE CallWake \/ AttemptEnds
    <3> DEFINE t == Tail(calls)
    <3>1. calls # <<>> /\ Head(calls).op \in Reports
      BY <2>4, CallServed DEF CallWake, AttemptEnds, Reports
    <3>2. UNCHANGED <<pending, subackTimer>>
      BY <1>s, <2>4 DEF CallWake, AttemptEnds, adapterVars, timerVars
    <3>3. t \in Seq(Calls) /\ (ArmsLast(t) \/ (subackTimer /\ ~Queued(t, {"disarm"})))
      BY <1>c, <1>s, <3>1, <3>2, QueueServed DEF AwaitedTimed, Reports
    <3>4. calls' = t \/ \E c \in Calls : c.op # "disarm" /\ calls' = Append(t, c)
      BY <1>s, <2>4, CallTyped, CallOps DEF CallWake, AttemptEnds
    <3> HIDE DEF t
    <3> QED
      BY <3>2, <3>3, <3>4, QueueGrows
  <2>5. CASE SubackTimeout
    BY <1>s, <2>5 DEF SubackTimeout, FailSession, adapterVars
  <2>6. CASE RetryDue \/ IngressFails
    <3>1. /\ UNCHANGED <<pending, subackTimer>>
          /\ Posted(Call("fire")) \/ Posted(Call("schedule"))
      BY <1>s, <2>6, CallTyped
         DEF RetryDue, IngressFails, RequestReconnect, Post, Posted, adapterVars, timerVars
    <3> QED
      BY <1>0, <3>1, CallOps DEF Posted
  <2> QED
    BY <1>3, <2>1, <2>2, <2>3, <2>4, <2>5, <2>6 DEF Loop, Callback
<1>4. CASE Worker
  <2>1. /\ UNCHANGED <<pending, subackTimer>>
        /\ UNCHANGED calls \/ Posted(Call("wake"))
    BY <1>4, CallTyped DEF Worker, DialFails, Dial, LoopStart, GivesUpSocket, Post, Posted,
                                 adapterVars
  <2> QED
    BY <1>0, <2>1, CallOps DEF Posted
<1> QED
  BY <1>s, <1>1, <1>2, <1>3, <1>4 DEF Next

\* The three of them need each other.
ClosedInv == ClosedRetried /\ ClosedAnswered /\ AttemptAnswers

LEMMA ClosedStep ==
    TypeOK /\ OneAttempt /\ CallbackAttached /\ ReportsOnce /\ ClosedInv /\ [Next]_vars
        => ClosedInv'
<1> DEFINE Goal ==
      /\ attempt' # "none" \/ retry'.armed \/ Queued(calls', Retrying)
      /\ healthy' /\ attempt' = "none" => Answered(calls', gen')
      /\ attempt' \in {"starting", "dialed"}
            => ~healthy' /\ (deferred' \/ Queued(calls', Retrying))
<1> SUFFICES ASSUME TypeOK, OneAttempt, CallbackAttached, ReportsOnce, ClosedInv, [Next]_vars,
                    ~stopping', sock' = "closed"
             PROVE  Goal
  BY DEF ClosedInv, ClosedRetried, ClosedAnswered, AttemptAnswers
<1>s. ~stopping /\ ~Stop /\ UNCHANGED stop
  BY NotStopped
<1>c. calls \in Seq(Calls)
  BY DEF TypeOK
<1>i. sock = "closed" =>
        /\ attempt # "none" \/ retry.armed \/ Queued(calls, Retrying)
        /\ healthy /\ attempt = "none" => Answered(calls, gen)
        /\ attempt \in {"starting", "dialed"}
              => ~healthy /\ (deferred \/ Queued(calls, Retrying))
  BY <1>s DEF ClosedInv, ClosedRetried, ClosedAnswered, AttemptAnswers
\* A failure schedules an attempt behind everything that is queued.
<1>f. ASSUME NEW t \in Seq(Calls), calls' = Append(t, Call("schedule")),
             ~healthy' \/ attempt' = "none"
      PROVE  Goal
  <2>1. Call("schedule") \in Calls /\ Call("schedule").op \in Retrying
    BY CallTyped, CallOps DEF Retrying
  <2>2. Queued(calls', Retrying) /\ Answered(calls', gen')
    BY <1>f, <2>1, QueueGrows
  <2> QED
    BY <1>f, <2>2
\* Anything else that is posted leaves what was promised.
<1>p. ASSUME sock = "closed", NEW c \in Calls, c.op # "supersede", Posted(c),
             UNCHANGED <<attempt, healthy, gen, deferred>>, retry.armed => retry'.armed
      PROVE  Goal
  BY <1>c, <1>i, <1>p, QueueGrows DEF Posted
<1>u. ASSUME sock = "closed", UNCHANGED <<calls, attempt, healthy, gen, deferred, retry>>
      PROVE  Goal
  BY <1>i, <1>u
\* So does serving a callback that schedules nothing.
<1>h. ASSUME sock = "closed", Served, Head(calls).op \notin Retrying,
             UNCHANGED <<attempt, healthy, gen, deferred, retry>>
      PROVE  Goal
  <2>1. /\ Queued(Tail(calls), Retrying) <=> Queued(calls, Retrying)
        /\ Answered(calls, gen) => Answered(Tail(calls), gen)
    BY <1>c, <1>h, QueueServed DEF Served
  <2> QED
    BY <1>h, <1>i, <2>1 DEF Served
<1>1. CASE UNCHANGED vars
  BY <1>1, <1>u DEF vars, adapterVars, timerVars, pahoVars
<1>2. CASE Paho
  <2>1. CASE \/ OnConnect \/ OnConnectRefused \/ OnConnectSubscribeFails
             \/ OnSubscribeRefused \/ BrokerFallsSilent
    BY <2>1 DEF OnConnect, OnConnectRefused, OnConnectSubscribeFails, OnSubscribeRefused,
                BrokerFallsSilent
  <2>2. ASSUME NEW f \in Filters, OnSubscribe(f) PROVE Goal
    BY <2>2 DEF OnSubscribe
  <2>3. CASE OnSubscribeEnds
    BY <2>3 DEF OnSubscribeEnds, CallbackAttached, pahoVars
  <2>4. CASE OnDisconnect \/ ConnectionLost
    <3>1. SessionOver
      BY <2>4 DEF OnDisconnect, ConnectionLost
    <3>2. calls' = Append(Append(calls, Call("disarm")), Call("schedule")) /\ ~healthy'
      BY <1>s, <3>1, SessionOverPosts DEF SessionOver, PostedTwo, ReportConnection
    <3>3. Append(calls, Call("disarm")) \in Seq(Calls)
      BY <1>c, CallTyped
    <3> QED
      BY <1>f, <3>2, <3>3
  <2> QED
    BY <1>2, <2>1, <2>2, <2>3, <2>4 DEF Paho
<1>3. CASE Loop
  <2>1. CASE CallArm \/ CallDisarm
    <3>1. Served /\ Head(calls).op \notin Retrying
      BY <2>1, CallServed DEF CallArm, CallDisarm, Retrying
    <3> QED
      BY <1>h, <2>1, <3>1 DEF CallArm, CallDisarm, adapterVars, pahoVars
  <2>2. CASE CallSchedule
    \* Remembered, coalesced or armed.
    <3>1. Served /\ UNCHANGED <<attempt, healthy, gen, sock>>
      BY <2>2, CallServed DEF CallSchedule, pahoVars
    <3>2. Answered(calls, gen) => Answered(Tail(calls), gen)
      BY <1>c, <3>1, QueueServed DEF Served
    <3>3. IF attempt # "none" THEN deferred' ELSE retry'.armed
      BY <1>s, <2>2 DEF CallSchedule, Armed
    <3> QED
      BY <1>i, <3>1, <3>2, <3>3 DEF Served
  <2>3. CASE CallSupersede
    <3>1. /\ Served /\ Head(calls).op = "supersede"
          /\ UNCHANGED <<attempt, healthy, gen, sock>>
      BY <2>3, CallServed DEF CallSupersede, pahoVars
    <3>2. CASE Head(calls).gen = gen /\ healthy
      <4>1. attempt \notin {"starting", "dialed"}
        BY <1>i, <3>1, <3>2
      <4>2. attempt = "none" => Answered(calls, gen)
        BY <1>i, <3>1, <3>2
      <4>3. attempt = "none" => Queued(Tail(calls), Retrying) /\ Answered(Tail(calls), gen)
        BY <1>c, <3>1, <3>2, <4>2, QueueServed DEF Served
      <4> QED
        BY <3>1, <4>1, <4>3 DEF Served
    <3>3. CASE ~(Head(calls).gen = gen /\ healthy)
      <4>1. UNCHANGED <<deferred, retry>>
        BY <2>3, <3>3 DEF CallSupersede
      <4> QED
        BY <1>h, <3>1, <4>1 DEF Retrying
    <3> QED
      BY <3>2, <3>3
  <2>4. CASE CallFire
    <3>1. /\ Served /\ Head(calls).op \notin Retrying
          /\ UNCHANGED <<healthy, gen, sock, deferred>>
      BY <2>4, CallServed DEF CallFire, Retrying, adapterVars, pahoVars
    <3>2. CASE retry.armed /\ retry.due
      BY <1>s, <2>4, <3>2 DEF CallFire, OneAttempt
    <3>3. CASE ~(retry.armed /\ retry.due)
      BY <1>h, <2>4, <3>1, <3>3 DEF CallFire
    <3> QED
      BY <3>2, <3>3
  <2>5. CASE CallWake
    <3> DEFINE t == Tail(calls)
               c == Call("resume")
    <3>1. /\ calls # <<>> /\ Head(calls).op \notin Retrying
          /\ UNCHANGED <<attempt, healthy, gen, deferred, retry, sock>>
      BY <2>5, CallServed DEF CallWake, Retrying, adapterVars, timerVars, pahoVars
    <3>2. /\ t \in Seq(Calls) /\ Queued(t, Retrying) <=> Queued(calls, Retrying)
          /\ Answered(calls, gen) => Answered(t, gen)
      BY <1>c, <3>1, QueueServed
    <3>3. calls' = Append(t, c) /\ c \in Calls /\ c.op # "supersede" /\ c.op \notin Retrying
      BY <2>5, CallTyped, CallOps DEF CallWake, Retrying
    <3>4. t \in Seq(Calls)
      BY <1>c, <3>1
    <3> HIDE DEF t, c
    <3>5. /\ Queued(calls', Retrying) <=> Queued(t, Retrying)
          /\ Answered(t, gen) => Answered(calls', gen)
      BY <3>3, <3>4, QueueGrows
    <3> QED
      BY <1>i, <3>1, <3>2, <3>5
  <2>6. CASE AttemptEnds
    <3>1. calls # <<>> /\ Head(calls).op \in Reports /\ Head(calls).op \notin Retrying
      BY <2>6, CallServed DEF AttemptEnds, Reports, Retrying
    <3>2. Queued(calls, Reports)
      BY <1>c, <3>1, QueueServed
    <3>3. attempt \in {"failed", "dialed"}
      BY <3>2 DEF ReportsOnce, TypeOK
    <3>4. /\ attempt' = "none" /\ UNCHANGED <<sock, healthy, gen>>
          /\ calls' = IF Owed THEN Append(Tail(calls), Call("schedule")) ELSE Tail(calls)
      BY <1>s, <2>6 DEF AttemptEnds, pahoVars
    <3>5. Tail(calls) \in Seq(Calls)
      BY <1>c, <3>1
    <3>6. CASE Owed
      BY <1>f, <3>4, <3>5, <3>6
    <3>7. CASE ~Owed
      <4>1. attempt = "dialed" /\ ~healthy /\ ~deferred
        BY <1>i, <3>3, <3>4, <3>7 DEF Owed, subscriptions_confirmed
      <4>2. Queued(Tail(calls), Retrying)
        BY <1>c, <1>i, <3>1, <3>4, <4>1, QueueServed
      <4> QED
        BY <3>4, <3>7, <4>1, <4>2
    <3> QED
      BY <3>6, <3>7
  <2>7. CASE SubackTimeout
    <3>1. CASE pending = {}
      BY <1>u, <2>7, <3>1 DEF SubackTimeout, adapterVars
    <3>2. CASE pending # {}
      BY <1>c, <1>f, <1>s, <2>7, <3>2
         DEF SubackTimeout, FailSession, ReportConnection, RequestReconnect, Post
    <3> QED
      BY <3>1, <3>2
  <2>8. CASE RetryDue
    <3>1. Posted(Call("fire")) /\ Call("fire").op # "supersede"
      BY <2>8, CallTyped, CallOps DEF RetryDue, Post, Posted
    <3>2. retry'.armed
      BY <2>8 DEF RetryDue, TypeOK, Retries, NoTimer
    <3> QED
      BY <1>p, <2>8, <3>1, <3>2 DEF RetryDue, Posted, adapterVars, pahoVars
  <2>9. CASE IngressFails
    BY <1>c, <1>f, <1>s, <2>9 DEF IngressFails, ReportConnection, RequestReconnect, Post
  <2> QED
    BY <1>3, <2>1, <2>2, <2>3, <2>4, <2>5, <2>6, <2>7, <2>8, <2>9 DEF Loop, Callback
<1>4. CASE Worker
  <2>1. CASE DialFails \/ Dial
    BY <2>1 DEF DialFails, Dial
  <2>2. CASE LoopStart
    <3>1. Posted(Call("wake")) /\ Call("wake").op # "supersede"
      BY <2>2, CallTyped, CallOps DEF LoopStart, Post, Posted
    <3>2. Queued(calls, Retrying) => Queued(calls', Retrying)
      BY <1>c, <3>1, QueueGrows DEF Posted
    <3> QED
      BY <1>i, <2>2, <3>2 DEF LoopStart, adapterVars
  <2> QED
    BY <1>4, <2>1, <2>2 DEF Worker
<1> QED
  BY <1>s, <1>1, <1>2, <1>3, <1>4 DEF Next

\* Whatever the order of failures, deferrals and confirmations, an adapter
\* nobody has stopped either serves or has something under way that will bring
\* a connection: no failure is swallowed (client.py:31-46, the reconnection
\* contract of PahoMqttAdapter).
THEOREM NeverLeftDeaf == Spec => []NeverDeaf
<1> DEFINE Inv == /\ AwaitedOrGranted /\ CallbackAttached /\ ThreadRuns /\ ReportsOnce
                  /\ AwaitedTimed /\ OpenVerdict /\ ClosedInv
<1>1. Init => Inv
  <2> SUFFICES ASSUME Init PROVE Inv
    OBVIOUS
  <2>1. /\ calls = <<Call("connect")>> /\ Call("connect").op = "connect"
        /\ sock = "closed" /\ ~confirming.busy /\ ~healthy /\ pending = {} /\ attempt = "none"
    BY CallOps DEF Init, NotConfirming
  <2>2. Queued(calls, Retrying) /\ ~Queued(calls, Reports) /\ OneReport(calls)
    BY <2>1 DEF Queued, OneReport, Retrying, Reports
  <2> QED
    BY <2>1, <2>2 DEF AwaitedOrGranted, CallbackAttached, ThreadRuns, ReportsOnce, AwaitedTimed,
                      OpenVerdict, ClosedInv, ClosedRetried, ClosedAnswered, AttemptAnswers
<1>2. TypeOK /\ OneAttempt /\ Inv /\ [Next]_vars => Inv'
  BY AwaitedStep, TransportStep, ReportsStep, TimedStep, VerdictStep, ClosedStep
<1>3. TypeOK /\ Inv => NeverDeaf
  <2> SUFFICES ASSUME TypeOK, Inv, ~stopping, ~Underway PROVE Serving
    BY DEF NeverDeaf
  <2>1. calls = <<>> /\ ~retry.armed /\ ~subackTimer /\ attempt = "none" /\ ~confirming.busy
    BY DEF Underway
  <2>2. ~ArmsLast(calls) /\ ~Queued(calls, Retrying)
    BY <2>1 DEF ArmsLast, Queued
  <2>3. sock = "open" /\ ~leaving
    BY <2>1, <2>2 DEF Underway, TypeOK, ClosedInv, ClosedRetried
  <2>4. pending = {}
    BY <2>1, <2>2 DEF AwaitedTimed
  <2> QED
    BY <2>1, <2>3, <2>4 DEF OpenVerdict, ThreadRuns, AwaitedOrGranted, Serving,
                            subscriptions_confirmed
<1> HIDE DEF Inv
<1> QED
  BY <1>1, <1>2, <1>3, SessionTyped, SingleOwner, PTL DEF Spec
===============================================================================
