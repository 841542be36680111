------------------------------ MODULE MqttSession ------------------------------
(***************************************************************************)
(* The connection state machine of PahoMqttAdapter: who may attempt a      *)
(* connection, when a subscription session counts as usable, and what      *)
(* happens to a failure that arrives at any moment.                        *)
(*                                                                         *)
(* Three threads touch it.  The paho network thread runs the On* callbacks *)
(* one at a time; the application loop runs the callbacks the others       *)
(* schedule (calls, in order), its timers and stop(); a worker thread runs *)
(* the blocking reconnect().  _on_subscribe is two steps because the loop  *)
(* may run between the SUBACK it records and the verdict it draws.         *)
(*                                                                         *)
(* The socket, paho's own loop and the broker are external: sock, netloop, *)
(* leaving, granted and mute are how the code relies on them.              *)
(***************************************************************************)
EXTENDS Naturals, Sequences

CONSTANTS
    Filters,     \* SUBSCRIPTIONS
    MaxFaults    \* bound: failures of the broker, the network or the handler

ASSUME FiltersAssumption == Filters # {}
ASSUME FaultsAssumption  == MaxFaults \in Nat

VARIABLES
  (* the adapter *)
    gen,         \* _generation
    pending,     \* _pending_subacks: the filters awaiting their SUBACK
    confirming,  \* generation of the SUBACK _on_subscribe is handling, if any
    healthy,     \* _session_healthy
    subackTimer, \* _suback_timer is armed
    retry,       \* _reconnect_timer with _armed_generation and _armed_is_retry
    attempt,     \* _reconnect_task: none, dialing, starting, dialed, failed
    deferred,    \* _deferred_failure is set
    calls,       \* callbacks the loop has ready, in order: call_soon_threadsafe
                 \* and timers that are due
    stop,        \* no, waiting (for the attempt and the drain), leaving, done
  (* paho and the broker *)
    sock,        \* closed, connecting (CONNECT sent), open (CONNACK), refused
    netloop,     \* paho's network thread runs
    leaving,     \* disconnect() was called on this socket
    granted,     \* filters the broker granted on this connection
    mute,        \* the broker answers nothing more on this connection
  (* history and bound *)
    replaced,    \* an attempt gave up the socket of a session reported usable,
                 \* and neither a CONNACK nor a report has come since
    faults

adapterVars == <<gen, pending, confirming, healthy, deferred, replaced>>
timerVars   == <<subackTimer, retry, attempt>>
pahoVars    == <<sock, netloop, leaving, granted, mute>>
vars == <<adapterVars, timerVars, calls, stop, pahoVars, faults>>

\* A timer that is due has its handle among the ready callbacks; cancelling it
\* still works until that handle runs.
NoTimer == [gen |-> 0, isRetry |-> FALSE, armed |-> FALSE, due |-> FALSE]
Retries == [gen : Nat, isRetry : BOOLEAN, armed : {TRUE}, due : BOOLEAN]
Armed(g, isRetry) == [gen |-> g, isRetry |-> isRetry, armed |-> TRUE, due |-> FALSE]

NotConfirming == [gen |-> 0, busy |-> FALSE]

Calls == [op : {"arm", "disarm", "connect", "schedule", "fire", "wake", "resume"},
          gen : {0}]
            \cup [op : {"supersede"}, gen : Nat]
Call(op) == [op |-> op, gen |-> 0]

stopping == stop # "no"

TypeOK ==
    /\ gen \in Nat
    /\ pending \subseteq Filters /\ granted \subseteq Filters
    /\ confirming \in [gen : Nat, busy : BOOLEAN]
    /\ healthy \in BOOLEAN /\ subackTimer \in BOOLEAN /\ deferred \in BOOLEAN
    /\ retry \in Retries \cup {NoTimer}
    /\ attempt \in {"none", "dialing", "starting", "dialed", "failed"}
    /\ calls \in Seq(Calls)
    /\ stop \in {"no", "waiting", "leaving", "done"}
    /\ sock \in {"closed", "connecting", "open", "refused"}
    /\ netloop \in BOOLEAN /\ leaving \in BOOLEAN /\ mute \in BOOLEAN /\ replaced \in BOOLEAN
    /\ faults \in 0..MaxFaults

\* start(): the first attempt is scheduled like every later one.
Init ==
    /\ gen = 0 /\ pending = {} /\ confirming = NotConfirming
    /\ healthy = FALSE /\ deferred = FALSE
    /\ subackTimer = FALSE /\ retry = NoTimer /\ attempt = "none"
    /\ calls = <<Call("connect")>>
    /\ stop = "no"
    /\ sock = "closed" /\ netloop = FALSE /\ leaving = FALSE
    /\ granted = {} /\ mute = FALSE /\ replaced = FALSE
    /\ faults = 0

subscriptions_confirmed == healthy /\ pending = {}

Fault == faults < MaxFaults /\ faults' = faults + 1

-------------------------------------------------------------------------------
(* Pieces the handlers share. *)

Post(c) == calls' = Append(calls, c)

\* Becoming healthy also forgets a deferred failure.
ReportConnection(connected) ==
    /\ healthy' = connected
    /\ deferred' = (deferred /\ ~connected)
    /\ replaced' = FALSE

\* _schedule_reconnect, from either thread, unless stop() has begun.
ScheduleReconnect ==
    IF stopping THEN UNCHANGED calls ELSE Post(Call("schedule"))

\* request_reconnect: unhealthy, disconnect whatever there is, try again.
RequestReconnect ==
    IF stopping THEN UNCHANGED <<leaving, calls>>
    ELSE /\ leaving' = (sock # "closed")
         /\ Post(Call("schedule"))

\* _fail_session: every pending SUBACK is abandoned and can revive nothing.
FailSession(bump) ==
    /\ pending' = {}
    /\ gen' = gen + bump
    /\ subackTimer' = FALSE
    /\ ReportConnection(FALSE)
    /\ RequestReconnect

-------------------------------------------------------------------------------
(* Callbacks of the paho network thread. *)

\* The thread is not inside a callback already.
PahoFree == netloop /\ ~confirming.busy

\* _on_connect: a new generation, and a SUBSCRIBE for every filter.
OnConnect ==
    /\ PahoFree /\ sock = "connecting" /\ ~mute
    /\ sock' = "open"
    /\ gen' = gen + 1
    /\ IF stopping THEN pending' = {} /\ UNCHANGED calls
       ELSE pending' = Filters /\ Post(Call("arm"))
    /\ replaced' = FALSE
    /\ UNCHANGED <<confirming, healthy, deferred, timerVars, stop>>
    /\ UNCHANGED <<netloop, leaving, granted, mute, faults>>

\* A refused CONNACK; paho reports the disconnect in a callback of its own.
OnConnectRefused ==
    /\ PahoFree /\ sock = "connecting" /\ ~mute
    /\ Fault
    /\ sock' = "refused"
    /\ gen' = gen + 1
    /\ pending' = {}
    /\ ReportConnection(FALSE)
    /\ ScheduleReconnect
    /\ UNCHANGED <<confirming, timerVars, stop, netloop, leaving, granted, mute>>

\* A SUBSCRIBE that is not even queued locally fails the session at once.
OnConnectSubscribeFails ==
    /\ PahoFree /\ sock = "connecting" /\ ~mute /\ ~stopping
    /\ Fault
    /\ sock' = "open"
    /\ FailSession(2)
    /\ UNCHANGED <<confirming, retry, attempt, stop, netloop, granted, mute>>

\* _on_subscribe up to the removal of the mid: a SUBACK nobody waits for any
\* more is stale and ignored.
OnSubscribe(f) ==
    /\ PahoFree /\ sock = "open" /\ ~mute
    /\ f \notin granted
    /\ granted' = granted \cup {f}
    /\ IF f \in pending
       THEN pending' = pending \ {f} /\ confirming' = [gen |-> gen, busy |-> TRUE]
       ELSE UNCHANGED <<pending, confirming>>
    /\ UNCHANGED <<gen, healthy, deferred, replaced, timerVars, calls, stop>>
    /\ UNCHANGED <<sock, netloop, leaving, mute, faults>>

\* The rest of it: the last SUBACK makes the session usable and lets the loop
\* cancel a retry the session has outlived.
OnSubscribeEnds ==
    /\ confirming.busy
    /\ confirming' = NotConfirming
    /\ IF pending # {} THEN UNCHANGED <<healthy, deferred, replaced, calls>>
       ELSE /\ ReportConnection(TRUE)
            /\ calls' = calls \o <<Call("disarm"),
                                   [op |-> "supersede", gen |-> confirming.gen]>>
    /\ UNCHANGED <<gen, pending, timerVars, stop, pahoVars, faults>>

\* MUTANT: the reason code of a SUBACK is not looked at.
OnSubscribeBelieved ==
    /\ PahoFree /\ sock = "open" /\ ~mute
    /\ Fault
    /\ \E f \in pending : pending' = pending \ {f}
    /\ confirming' = [gen |-> gen, busy |-> TRUE]
    /\ UNCHANGED <<gen, healthy, deferred, replaced, timerVars, calls, stop, pahoVars>>

\* A SUBACK that refuses the filter or grants QoS 0.
OnSubscribeRefused ==
    /\ PahoFree /\ sock = "open" /\ ~mute
    /\ pending # {}
    /\ Fault
    /\ FailSession(1)
    /\ UNCHANGED <<confirming, retry, attempt, stop, sock, netloop, granted, mute>>

\* _on_disconnect, after which paho's loop returns (reconnect_on_failure=False).
SessionOver ==
    /\ PahoFree /\ sock # "closed"
    /\ sock' = "closed" /\ netloop' = FALSE /\ leaving' = FALSE
    /\ granted' = {} /\ mute' = FALSE
    /\ pending' = {}
    /\ gen' = gen + 1
    /\ ReportConnection(FALSE)
    /\ calls' = calls \o (IF stopping THEN <<Call("disarm")>>
                          ELSE <<Call("disarm"), Call("schedule")>>)
    /\ UNCHANGED <<confirming, timerVars, stop>>

\* The client asked for it, the CONNACK refused it, or no CONNACK came within
\* paho's keepalive.
OnDisconnect ==
    /\ leaving \/ sock = "refused" \/ (mute /\ sock = "connecting")
    /\ SessionOver
    /\ UNCHANGED faults

ConnectionLost ==
    /\ Fault
    /\ SessionOver

\* The broker falls silent before it has answered everything.
BrokerFallsSilent ==
    /\ ~mute
    /\ sock = "connecting" \/ (sock = "open" /\ pending # {})
    /\ Fault
    /\ mute' = TRUE
    /\ UNCHANGED <<adapterVars, timerVars, calls, stop, sock, netloop, leaving, granted>>

-------------------------------------------------------------------------------
(* The application loop.  loop_stop() blocks it. *)

LoopRuns == stop # "leaving"

NextCall(op) == LoopRuns /\ calls # <<>> /\ Head(calls).op = op

Called == calls' = Tail(calls)

\* MUTANT: the SUBACK timer is never armed.
CallArmNothing ==
    /\ NextCall("arm") /\ Called
    /\ UNCHANGED <<adapterVars, timerVars, stop, pahoVars, faults>>

\* _arm_suback_timer.
CallArm ==
    /\ NextCall("arm") /\ Called
    /\ subackTimer' = (~stopping /\ pending # {})
    /\ UNCHANGED <<adapterVars, retry, attempt, stop, pahoVars, faults>>

CallDisarm ==
    /\ NextCall("disarm") /\ Called
    /\ subackTimer' = FALSE
    /\ UNCHANGED <<adapterVars, retry, attempt, stop, pahoVars, faults>>

\* MUTANT: an attempt in flight does not keep a retry from being armed.
CallScheduleAnyway ==
    /\ \E op \in {"connect", "schedule"} :
          /\ NextCall(op)
          /\ retry' = IF stopping \/ retry.armed THEN retry
                      ELSE Armed(gen, op = "schedule")
    /\ Called
    /\ UNCHANGED <<adapterVars, subackTimer, attempt, stop, pahoVars, faults>>

\* _schedule_on_loop: remembered while an attempt runs, coalesced while a timer
\* is armed, and otherwise armed for the generation of this moment.
CallSchedule ==
    /\ \E op \in {"connect", "schedule"} :
          /\ NextCall(op)
          /\ \/ /\ stopping
                /\ UNCHANGED <<deferred, retry>>
             \/ /\ ~stopping /\ attempt # "none"
                /\ deferred' = TRUE
                /\ UNCHANGED retry
             \/ /\ ~stopping /\ attempt = "none" /\ retry.armed
                /\ UNCHANGED <<deferred, retry>>
             \/ /\ ~stopping /\ attempt = "none" /\ ~retry.armed
                /\ retry' = Armed(gen, op = "schedule")
                /\ UNCHANGED deferred
    /\ Called
    /\ UNCHANGED <<gen, pending, confirming, healthy, replaced, subackTimer, attempt>>
    /\ UNCHANGED <<stop, pahoVars, faults>>

\* _supersede_retry_for: only for the generation that is still current and
\* still healthy, and never the first connect or a retry of a newer one.
CallSupersede ==
    /\ NextCall("supersede") /\ Called
    /\ LET g == Head(calls).gen IN
       IF g = gen /\ healthy
       THEN /\ deferred' = FALSE
            /\ retry' = IF retry.armed /\ retry.isRetry /\ retry.gen <= g
                        THEN NoTimer ELSE retry
       ELSE UNCHANGED <<deferred, retry>>
    /\ UNCHANGED <<gen, pending, confirming, healthy, replaced, subackTimer, attempt>>
    /\ UNCHANGED <<stop, pahoVars, faults>>

\* _on_suback_timeout: connected but unconfirmed is the same as deaf.
SubackTimeout ==
    /\ LoopRuns
    /\ subackTimer
    /\ IF stopping \/ pending = {}
       THEN subackTimer' = FALSE /\ UNCHANGED <<adapterVars, calls, leaving, faults>>
       ELSE /\ (IF mute THEN UNCHANGED faults ELSE Fault)
            /\ FailSession(1)
            /\ UNCHANGED confirming
    /\ UNCHANGED <<retry, attempt, stop, sock, netloop, granted, mute>>

RetryDue ==
    /\ LoopRuns
    /\ retry.armed /\ ~retry.due
    /\ retry' = [retry EXCEPT !.due = TRUE]
    /\ Post(Call("fire"))
    /\ UNCHANGED <<adapterVars, subackTimer, attempt, stop, pahoVars, faults>>

\* _attempt_reconnect, unless the timer was cancelled in the meantime.
CallFire ==
    /\ NextCall("fire") /\ Called
    /\ IF retry.armed /\ retry.due
       THEN /\ retry' = NoTimer
            /\ attempt' = IF stopping \/ attempt # "none" THEN attempt ELSE "dialing"
       ELSE UNCHANGED <<retry, attempt>>
    /\ UNCHANGED <<adapterVars, subackTimer, stop, pahoVars, faults>>

\* A withheld delivery or a full ingress queue drops the session (Delivery).
IngressFails ==
    /\ LoopRuns /\ ~stopping
    /\ gen > 0
    /\ Fault
    /\ ReportConnection(FALSE)
    /\ RequestReconnect
    /\ UNCHANGED <<gen, pending, confirming, timerVars, stop>>
    /\ UNCHANGED <<sock, netloop, granted, mute>>

-------------------------------------------------------------------------------
(* One attempt: reconnect() on a worker thread, then back on the loop.       *)
(* Timing assumption: looking the host up and dialling it takes longer than  *)
(* the few statements _on_subscribe has left, so a dial ends outside it.     *)

DialOver == attempt = "dialing" /\ ~confirming.busy

\* reconnect() closes the socket it had, without a callback: nothing reports
\* the loss of a session that had become usable by then.
GivesUpSocket ==
    /\ replaced' = subscriptions_confirmed
    /\ UNCHANGED <<gen, pending, confirming, healthy, deferred>>

\* The dial failed.
DialFails ==
    /\ DialOver
    /\ Fault
    /\ attempt' = "failed"
    /\ sock' = "closed" /\ netloop' = FALSE /\ leaving' = FALSE
    /\ granted' = {} /\ mute' = FALSE
    /\ Post(Call("wake"))
    /\ GivesUpSocket
    /\ UNCHANGED <<subackTimer, retry, stop>>

\* The CONNECT is out.  The network loop is started unless stop() has begun.
Dial ==
    /\ DialOver
    /\ sock' = "connecting" /\ leaving' = FALSE
    /\ granted' = {} /\ mute' = FALSE
    /\ IF stopping THEN attempt' = "dialed" /\ Post(Call("wake"))
       ELSE attempt' = "starting" /\ UNCHANGED calls
    /\ GivesUpSocket
    /\ UNCHANGED <<subackTimer, retry, stop, netloop, faults>>

LoopStart ==
    /\ attempt = "starting"
    /\ attempt' = "dialed"
    /\ netloop' = (sock # "closed")
    /\ Post(Call("wake"))
    /\ UNCHANGED <<adapterVars, subackTimer, retry, stop>>
    /\ UNCHANGED <<sock, leaving, granted, mute, faults>>

\* The thread's result reaches the loop, which makes the task ready again.
CallWake ==
    /\ NextCall("wake")
    /\ calls' = Append(Tail(calls), Call("resume"))
    /\ UNCHANGED <<adapterVars, timerVars, stop, pahoVars, faults>>

\* MUTANT: what an attempt achieved after the shutdown is left as it is.
TeardownForgotten ==
    Called /\ UNCHANGED <<pahoVars, gen, pending, healthy, confirming, replaced>>

\* _teardown_transport: disconnect() and loop_stop(), which joins the network
\* thread: it finishes its callback and reports the disconnect before it ends.
Teardown ==
    /\ ~confirming.busy
    /\ sock' = "closed" /\ netloop' = FALSE /\ leaving' = FALSE
    /\ granted' = {} /\ mute' = FALSE
    /\ IF netloop
       THEN /\ gen' = gen + 1 /\ pending' = {}
            /\ healthy' = FALSE /\ replaced' = FALSE
            /\ calls' = Append(Tail(calls), Call("disarm"))
       ELSE Called /\ UNCHANGED <<gen, pending, healthy, replaced>>
    /\ UNCHANGED confirming

\* MUTANT: a failure that arrived while the attempt ran is forgotten.
OwedByFailureOnly == attempt = "failed"

\* Another attempt is owed: this one failed, or a failure arrived while it ran
\* and the session did not become usable meanwhile.
Owed == attempt = "failed" \/ (deferred /\ ~subscriptions_confirmed)

\* _run_reconnect resumes.  After shutdown whatever it achieved is undone.
AttemptEnds ==
    /\ NextCall("resume")
    /\ attempt' = "none"
    /\ deferred' = FALSE
    /\ \/ stopping /\ Teardown
       \/ /\ ~stopping
          /\ calls' = IF Owed THEN Append(Tail(calls), Call("schedule")) ELSE Tail(calls)
          /\ UNCHANGED <<pahoVars, gen, pending, healthy, confirming, replaced>>
    /\ UNCHANGED <<subackTimer, retry, stop, faults>>

-------------------------------------------------------------------------------
(* stop() *)

StopBegin ==
    /\ stop = "no"
    /\ stop' = "waiting"
    /\ subackTimer' = FALSE
    /\ retry' = NoTimer
    /\ deferred' = FALSE
    /\ pending' = {}
    /\ UNCHANGED <<gen, confirming, healthy, replaced, attempt, calls, pahoVars, faults>>

\* The attempt and the drain are over, or their grace periods are: disconnect,
\* then block in loop_stop() until the network thread has returned.
StopDisconnect ==
    /\ stop = "waiting"
    /\ stop' = "leaving"
    /\ IF netloop
       THEN leaving' = TRUE /\ UNCHANGED <<sock, granted, mute>>
       ELSE sock' = "closed" /\ leaving' = FALSE /\ granted' = {} /\ mute' = FALSE
    /\ UNCHANGED <<adapterVars, timerVars, calls, netloop, faults>>

StopDone ==
    /\ stop = "leaving"
    /\ ~netloop /\ ~confirming.busy
    /\ stop' = "done"
    /\ ReportConnection(FALSE)
    /\ UNCHANGED <<gen, pending, confirming, timerVars, calls, pahoVars, faults>>

-------------------------------------------------------------------------------
Paho == \/ OnConnect \/ OnConnectRefused \/ OnConnectSubscribeFails
        \/ \E f \in Filters : OnSubscribe(f)
        \/ OnSubscribeEnds \/ OnSubscribeRefused \/ OnDisconnect
        \/ ConnectionLost \/ BrokerFallsSilent

Callback == \/ CallArm \/ CallDisarm \/ CallSchedule \/ CallSupersede
            \/ CallFire \/ CallWake \/ AttemptEnds

Loop == Callback \/ SubackTimeout \/ RetryDue \/ IngressFails

Worker == DialFails \/ Dial \/ LoopStart

Stop == StopBegin \/ StopDisconnect \/ StopDone

Next == Paho \/ Loop \/ Worker \/ Stop

Spec == Init /\ [][Next]_vars

\* The loop serves its callbacks and its timers, the worker thread returns, and
\* a broker that has not fallen silent answers.  Faults are never obliged to
\* happen, and nobody is obliged to stop the backend.
Fairness ==
    /\ WF_vars(OnConnect) /\ WF_vars(OnSubscribeEnds) /\ WF_vars(OnDisconnect)
    /\ \A f \in Filters : WF_vars(OnSubscribe(f))
    /\ WF_vars(Callback) /\ WF_vars(RetryDue) /\ WF_vars(SubackTimeout /\ mute)
    /\ WF_vars(Dial) /\ WF_vars(LoopStart)
    /\ WF_vars(StopDisconnect) /\ WF_vars(StopDone)

FairSpec == Spec /\ Fairness

-------------------------------------------------------------------------------
(* Properties *)

\* The session the docs call usable: connected, every filter granted at QoS 1
\* by the broker, nobody about to drop it, and reported as such.
Serving == /\ sock = "open" /\ netloop /\ ~leaving
           /\ granted = Filters
           /\ subscriptions_confirmed

\* At most one attempt exists: no retry is armed while one is in flight, and
\* none is in flight once the shutdown has cancelled the timers and returned.
OneAttempt == retry.armed => attempt = "none" /\ ~stopping

\* client.py:295 "usable: confirmed and not since lost".  A session reported
\* usable over an open connection was granted every filter by the broker on
\* this very connection, unless its disconnect is already on the way.  Without
\* an open connection none is reported usable but for one exception: an attempt
\* that gives up the socket of a session that has become usable (the race of
\* WorkingSessionSpared) reports nothing, so the health stands until the new
\* connection's CONNACK or a failure is reported, through failed dials too.
HealthEarned ==
    subscriptions_confirmed /\ ~stopping =>
        IF sock = "open" THEN ~leaving => granted = Filters ELSE replaced

\* Something will still happen without any new failure: a callback, a timer, an
\* attempt, a CONNACK, SUBACKs with their timer running, or a disconnect.
Underway == \/ calls # <<>>
            \/ retry.armed \/ subackTimer \/ attempt # "none"
            \/ confirming.busy
            \/ sock \in {"connecting", "refused"} \/ (sock = "open" /\ leaving)

\* Whatever the order of failures, deferrals and confirmations, the adapter is
\* never left unusable with nothing pending.
NeverDeaf == ~stopping => Serving \/ Underway

\* When stop() has returned nothing revives the session: no timer, not healthy,
\* and an attempt that was in flight leaves neither a socket nor a thread.
StopIsFinal ==
    stop = "done" => /\ ~retry.armed /\ ~subackTimer /\ ~healthy
                     /\ attempt = "none" => sock = "closed" /\ ~netloop

\* Once the failures end, the adapter comes to a usable session and keeps it.
Recovers == <>[](Serving \/ stopping)

\* client.py:44-46 "a working connection is never dropped to satisfy a failure
\* it has already recovered from": a confirmed session that serves is not met
\* by an attempt, whose reconnect() closes its socket.
WorkingSessionSpared ==
    [][Serving /\ ~stopping /\ attempt = "none" => attempt' = "none"]_vars
===============================================================================
