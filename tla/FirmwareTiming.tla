---------------------------- MODULE FirmwareTiming ----------------------------
(***************************************************************************)
(* What the node does by the clock: the sampling deadline, the retry       *)
(* window of the sensor, the energy it integrates between samples and the  *)
(* panel it refreshes.  millis() is 32 bits wide and wraps; the loop reads *)
(* it once at the start of a pass, the sensor reads it again when it takes *)
(* a sample or fails, and time passes between any two steps.               *)
(*                                                                         *)
(* The variables of the code hold what millis() said; the time that really *)
(* passed is history.  Electrical values are a power of 1 or -1 for one    *)
(* unit of time; those that are refused (out of range, not finite, an      *)
(* overflow flag) are an invalid sample.  A sensor that is misconfigured   *)
(* is never retried and takes no step here.  Wi-Fi and MQTT use the same   *)
(* windows, armed with the time of the pass (FirmwareUplink).              *)
(***************************************************************************)
EXTENDS Integers, FiniteSetsExt

CONSTANTS
    Wrap,              \* 2^32 ms
    SampleInterval,    \* sampleIntervalMs
    Initial, MaxDelay, JitterPercent,   \* the sensor's Backoff
    RefreshInterval,   \* kRefreshIntervalMs
    Stale,             \* kSampleStaleAfterMs
    MaxPass,           \* bound: the longest a pass takes to the panel
    MaxWait,           \* bound: the longest it takes with the network, which may wait
    Boot, End          \* bound: the time observed

\* No interval or window is 0 and a window starts below its cap (config.cpp:284,
\* power_sensor.h:47, display_format.h:40); what a difference of times measures
\* fits in it: what a slow pass is late for is due within 2^32 ms.
ASSUME TimingAssumption ==
    /\ {Wrap, SampleInterval, Initial, MaxDelay, RefreshInterval, Stale, MaxPass, MaxWait} \subseteq Nat \ {0}
    /\ {JitterPercent, Boot, End} \subseteq Nat
    /\ Initial <= MaxDelay /\ MaxPass <= MaxWait
    /\ SampleInterval + MaxWait + MaxPass <= Wrap
    /\ MaxDelay + MaxWait <= Wrap
    /\ RefreshInterval + MaxWait <= Wrap
    /\ Stale + MaxPass <= Wrap

VARIABLES
    step,       \* where the pass is: start, sensor, sample, panel
    nowMs,      \* millis() at the start of the pass
    lastMs,     \* the anchor of the sampling deadline
    sensor,     \* ready, or down: NOT_FOUND and INIT_FAILED
    window,     \* its Backoff (base, delay, armedAt, failed), armed while it is down
    sample,     \* the last attempt to take a sample: taken, at, valid
    energy,     \* the integrator: total, last, continuous
    panel,      \* last (refresh), started, and what it shows: dashes or a value
  (* history: the time itself *)
    clock,
    passAt, sampledAt, failedAt, stampedAt, shownAt,
    failures,   \* attempts that failed since the sensor was last ready
    forward, reverse   \* time measured with power flowing either way

pacing == <<lastMs, sampledAt>>
sensing == <<sensor, window, failedAt, failures>>
measuring == <<sample, energy, stampedAt, forward, reverse>>
showing == <<panel, shownAt>>
timingVars == <<step, nowMs, pacing, sensing, measuring, showing, clock, passAt>>

Millis == clock % Wrap

-------------------------------------------------------------------------------
(* Deadlines and windows *)

\* MUTANT: times are compared as they stand.
ElapsedUnwrapped(now, since) == now - since

\* Unsigned subtraction.
Elapsed(now, since) == (now - since) % Wrap

\* withJitter: on top of the base, and never past the cap.
Jittered(base) == {Min({base + extra, MaxDelay}) : extra \in 0 .. (base * JitterPercent) \div 100}

\* A window that was reset: a new jitter, disarmed.
Reset == [base : {Initial}, delay : Jittered(Initial), armedAt : {window.armedAt}, failed : {FALSE}]

\* armAfterFailure: the first failure waits the initial window that the reset
\* rolled, each further one doubles the base first.
ArmedAfterFailure ==
    LET base == Min({2 * window.base, MaxDelay})
    IN IF window.failed
       THEN [base : {base}, delay : Jittered(base), armedAt : {Millis}, failed : {TRUE}]
       ELSE {[window EXCEPT !.armedAt = Millis, !.failed = TRUE]}

\* PowerSensor::fail
Fails ==
    /\ sensor' = "down"
    /\ window' \in ArmedAfterFailure
    /\ failedAt' = clock
    /\ failures' = failures + 1

\* PowerSensor::begin
Begins ==
    \/ sensor' = "ready" /\ window' \in Reset /\ failures' = 0 /\ UNCHANGED failedAt
    \/ Fails

\* setup(): the deadlines count from before the sensor was begun.
TimingInit ==
    /\ step = "start"
    /\ clock \in Boot .. Boot + 1
    /\ passAt = Boot /\ nowMs = Boot % Wrap
    /\ lastMs = Boot % Wrap /\ sampledAt = Boot
    /\ sensor \in {"ready", "down"}
    /\ \E delay \in Jittered(Initial) :
          window = [base |-> Initial, delay |-> delay,
                    armedAt |-> IF sensor = "down" THEN Millis ELSE 0, failed |-> sensor = "down"]
    /\ failedAt = clock /\ failures = IF sensor = "down" THEN 1 ELSE 0
    /\ sample = [taken |-> FALSE, at |-> 0, valid |-> FALSE]
    /\ energy = [total |-> 0, last |-> 0, continuous |-> FALSE]
    /\ panel = [last |-> 0, started |-> FALSE, shows |-> "dashes"]
    /\ stampedAt = Boot /\ shownAt = Boot /\ forward = 0 /\ reverse = 0

-------------------------------------------------------------------------------
(* A pass of the loop *)

\* Time passes, but a pass is never longer than its bounded waits: the only one
\* is for the broker, after the panel (mqtt_manager.cpp:119).
Elapse ==
    /\ clock < End
    /\ clock - passAt < IF step = "start" THEN MaxWait ELSE MaxPass
    /\ clock' = clock + 1
    /\ UNCHANGED <<step, nowMs, pacing, sensing, measuring, showing, passAt>>

StartPass ==
    /\ step = "start" /\ step' = "sensor"
    /\ nowMs' = Millis /\ passAt' = clock
    /\ UNCHANGED <<pacing, sensing, measuring, showing, clock>>

\* PowerSensor::tick
TickSensor ==
    /\ step = "sensor" /\ step' = "sample"
    /\ IF sensor = "down" /\ Elapsed(nowMs, window.armedAt) >= window.delay
         THEN Begins ELSE UNCHANGED sensing
    /\ UNCHANGED <<nowMs, pacing, measuring, showing, clock, passAt>>

\* MUTANT: an invalid sample is skipped over.
IntegratedAcrossGaps(valid, power) ==
    LET total == energy.total + power * Elapsed(Millis, energy.last)
    IN IF ~valid THEN energy
       ELSE [total |-> IF energy.total = 0 \/ total < 0 THEN 0 ELSE total,
             last |-> Millis, continuous |-> TRUE]

\* EnergyIntegrator::update: only between two valid samples, never below zero.
Integrated(valid, power) ==
    LET total == energy.total + power * Elapsed(Millis, energy.last)
    IN IF ~valid THEN [energy EXCEPT !.continuous = FALSE]
       ELSE IF ~energy.continuous THEN [energy EXCEPT !.continuous = TRUE, !.last = Millis]
       ELSE [energy EXCEPT !.last = Millis, !.total = IF total < 0 THEN 0 ELSE total]

\* An attempt, stamped when the sensor is asked.
Takes(valid, power) ==
    /\ sample' = [taken |-> TRUE, at |-> Millis, valid |-> valid]
    /\ energy' = Integrated(valid, power)
    /\ stampedAt' = clock
    /\ forward' = forward + (IF valid /\ sample.valid /\ power = 1 THEN clock - stampedAt ELSE 0)
    /\ reverse' = reverse + (IF valid /\ sample.valid /\ power = -1 THEN clock - stampedAt ELSE 0)

\* PowerSensor::read: not ready, gone from the bus, or asked for its values.
Read ==
    \/ sensor = "down" /\ Takes(FALSE, 0) /\ UNCHANGED sensing
    \/ sensor = "ready" /\ Takes(FALSE, 0) /\ Fails
    \/ sensor = "ready" /\ UNCHANGED sensing
       /\ \E valid \in BOOLEAN, power \in {-1, 1} : Takes(valid, power)

\* One firing for an overdue deadline, which counts from the pass again.
SampleWhenDue ==
    /\ step = "sample" /\ step' = "panel"
    /\ IF Elapsed(nowMs, lastMs) >= SampleInterval
         THEN lastMs' = nowMs /\ sampledAt' = passAt /\ Read
         ELSE UNCHANGED <<pacing, sensing, measuring>>
    /\ UNCHANGED <<nowMs, showing, clock, passAt>>

Fresh == sample.taken /\ Elapsed(nowMs, sample.at) < Stale

\* Then the network, which may wait, and the next pass.
RefreshPanel ==
    /\ step = "panel" /\ step' = "start"
    /\ IF panel.started /\ Elapsed(nowMs, panel.last) < RefreshInterval
         THEN UNCHANGED showing
         ELSE /\ panel' = [last |-> nowMs, started |-> TRUE,
                           shows |-> IF Fresh /\ sample.valid THEN "value" ELSE "dashes"]
              /\ shownAt' = passAt
    /\ UNCHANGED <<nowMs, pacing, sensing, measuring, clock, passAt>>

TimingNext == Elapse \/ StartPass \/ TickSensor \/ SampleWhenDue \/ RefreshPanel

TimingSpec == TimingInit /\ [][TimingNext]_timingVars

-------------------------------------------------------------------------------
(* Properties *)

\* The boot total is what was measured and nothing else: the time between two
\* neighbouring attempts that both were valid, whatever failed, was skipped or
\* wrapped in between; reverse flow can only lower it, and not below zero.
\* (measurement.cpp:47 "drop continuity so the gap is never integrated".)
EnergyHonest ==
    /\ energy.total <= forward
    /\ energy.total >= forward - reverse

\* The sensor is tried again no sooner than its window after it really failed,
\* twice as long each time and at most the cap, and in the first pass after it.
RetriesPaced ==
    LET waited == passAt - failedAt
        least == Min({Initial * 2 ^ (failures - 1), MaxDelay})
        retried == sensor' # sensor \/ failedAt' # failedAt
    IN step = "sensor" /\ step' = "sample" /\ sensor = "down" =>
         /\ retried => waited >= least
         /\ waited >= MaxDelay => retried

\* A sample is taken in every pass that starts an interval after the last one.
SamplesPaced ==
    step = "sample" /\ step' = "panel" => (sampledAt' # sampledAt <=> passAt - sampledAt >= SampleInterval)

\* And the panel is refreshed in every pass that starts an interval after the
\* last refresh.
PanelPaced ==
    step = "panel" /\ step' = "start" /\ panel.started =>
      (shownAt' # shownAt <=> passAt - shownAt >= RefreshInterval)

\* display.h:36 and 59-61: a panel that is refreshed shows no reading that was
\* refused or that is older than "now", and dashes only instead of such a one.
\* The exception is a reading stamped after the pass began: its age wraps
\* (main.cpp:249), so the panel may show dashes instead of it until it is next
\* refreshed.
PanelCurrent ==
    LET measured == sample.taken /\ sample.valid
        stampedLate == stampedAt > passAt
    IN step = "panel" /\ panel' # panel =>
         /\ panel'.shows = "value" => measured /\ passAt - stampedAt < Stale
         /\ panel'.shows = "dashes" /\ measured => clock - stampedAt >= Stale \/ stampedLate

\* No retry, sample or refresh is early, late or lost because millis() wrapped or
\* because two steps of a pass read it at different times (scheduler.h:28 and
\* backoff.h:37 "Rollover-safe"), and no reading is shown that is not current;
\* what two readings of the clock in one pass may cost is one refresh with
\* dashes, the exception PanelCurrent names.
OnSchedule == [][RetriesPaced /\ SamplesPaced /\ PanelPaced /\ PanelCurrent]_timingVars
===============================================================================
