# AIoT PowerGuard in TLA+

PowerGuard measures the power a household device draws.  A node (ESP8266,
C++) samples a sensor and publishes readings over MQTT QoS 1.  A backend
(Python, asyncio, paho-mqtt, SQLite) stores them, judges them with an anomaly
model and broadcasts them over WebSocket to a dashboard (TypeScript).  This
directory models that path, from the sensor's clock to the chart in the
browser, and what surrounds it: the training and release of the model, the
history pages, the program that stands in for a node.  It says what is promised
about a reading, in which order threads, callbacks and messages may meet, and
what of it holds for every configuration.

Every definition is translated from the code under `src/`; `PROJECT.json`
("map") names the lines of each.  "External" marks what is not in the
repository and is modelled from how the code relies on it: the MQTT broker,
paho's network thread, the ASGI server, sqlite3 under the ORM, the Wi-Fi stack
and the MQTT library of the node, the operating system; and, for the browser,
the backend itself.

    tlc -workers 2 -config MCDelivery.cfg MCDelivery      # a run
    tlapm DeliveryProofs.tla                              # the proofs

## 1. The system

Paths are relative to `src/backend/src/powerguard`, `src/firmware/src`,
`src/frontend/src` and `src/ml/src/powerguard_ml`.

| part | state it keeps | operations | hard behaviour |
|---|---|---|---|
| connection state machine (`mqtt/client.py`) | generation, pending SUBACKs, health, SUBACK timer, retry timer, attempt, deferred failure | paho callbacks, `_schedule_on_loop`, `_supersede_retry_for`, `_attempt_reconnect`, `_run_reconnect`, `stop` | three threads; failures at any moment; timers that are due while what cancels them waits |
| delivery and acknowledgement (`mqtt/client.py`) | ingress queue, outgoing PUBACKs, `_redelivery_requested` | `_on_message`, `_enqueue`, `_drain`, `acknowledge`, `_withhold`, the drain of `stop` | redelivery, lost PUBACKs, records that outlive their session, process death |
| ingestion (`mqtt/ingestion.py`, `mqtt/validation.py`) | sequence tracking per boot | `handle`, the telemetry and status paths, the verdict | a failure on either side of a commit |
| persistence (`db/repositories.py`, `db/uow.py`, `db/models.py`) | telemetry, anomalies, devices | insert or resolve a duplicate, upserts, `mark_stale`, history pages | transactions of two threads; a commit whose session fails to close |
| status tracker and stale scan (`device_status.py`, `bootstrap.py`) | last reported status per device | `record`, `_stale_scan_loop`, `_mark_stale` | the scan races with messages, row and report are separate steps |
| WebSocket hub and endpoint (`realtime/hub.py`, `api/routes/websocket.py`) | subscriptions, bounded queues, counters | `subscribe`, `publish`, `unsubscribe`, `device_stream` | slow clients, clients that vanish, a slot released twice or never |
| REST API (`api/routes`, `api/dependencies.py`, `api/errors.py`) | none | read requests over the repositories | cursors while rows are inserted |
| inference loading and shadow mode (`inference/`) | the loaded model and its mode | `build_inference` | files that change or tear while they are checked |
| configuration, logging, entry (`config.py`, `observability.py`, `main.py`) | settings | parse, start | none of its own |
| migrations and scripts | schema | upgrade, probe | none of its own |
| synthetic publisher (`src/backend/scripts/publish_synthetic.py`) | plan, session, will, link, network loop | plan, publish, drop, hand off, say goodbye | unconfirmed publishes, interrupts, two boots in one run |
| dashboard stream (`realtime/*.ts`) | socket, retry timers, held rows, anchor, catch-up | seed, open, frame, page, retry, leave | pages older than the socket, answers that come late |
| dashboard hooks and views (`hooks`, `components`, `App.tsx`) | request state | fetch, abort, render | none beyond the stream |
| node: loop, queue, Wi-Fi and MQTT (`main.cpp`, `telemetry.cpp`, `wifi_manager.cpp`, `mqtt_manager.cpp`) | manager states, windows, the bounded queue | one pass of `loop` | the network changes between any two calls of a pass |
| node: timing and measurement (`scheduler.cpp`, `backoff.cpp`, `measurement.cpp`, `power_sensor.cpp`) | deadlines, windows, energy total, sensor state | `due`, `armAfterFailure`, `update`, `read` | a 32-bit clock, read twice in a pass |
| node: configuration, diagnostics, display | the refresh of the panel | validate, format, draw | the age of what is shown |
| anomaly model online (`adapter.py`, `gate.py`) | the window of a device, a count of high windows | `evaluate`, acceptance gate | windows across reboots, gaps, crashes |
| anomaly model offline (`preprocess.py`, `train.py`, `review.py`, `artifact.py`, ...) | the files of an artifact | prepare, review, train, save | which data may promote a model |
| launcher scripts | processes | start, stop | operating system |

How they meet: the node publishes to the broker; paho's network thread calls
`_on_message` and posts `_enqueue` to the application loop; one drain worker
takes records off the queue and awaits the ingestion handler, which runs its
transactions on worker threads; after the handler the worker acknowledges or
withholds.  The handler publishes events to the hub and reports statuses to
the tracker; so does the stale scan, from the same loop but with transactions
of its own thread.  Endpoints on the loop move events from the hub to clients,
and the dashboard merges a REST seed with the frames that follow.  The handler
asks the model about each reading it has committed; the model was loaded from
files that a trainer wrote from the same table.

What makes each part correct, in one line: a reading is acknowledged only once
durable and broadcast at most once; the connection always comes back and reports
only health it has earned, but for the race of finding 3; a subscriber sees every event or loses its
connection; the row, the tracker and the subscribers agree about a device; the
node announces itself before it sends readings and counts each one it drops;
the chart never hides a hole; the model is asked about windows it was trained
on, and acts only if an operator vouched for its data.

## 2. The modules

### ReliableIngest — what the backend promises

The abstract specification, free of threads and queues: publications are
routed to the persistent session, their effects are applied, a reading may be
announced once it is stored, and a publication is released (confirmed to the
broker) only once its effect stands.  `Delivery` is shown to implement it.

### Delivery — one QoS 1 delivery from broker to database and back

State: the broker's side (`routed`, `inflight`, `released`, `missed`), the
session, the callbacks scheduled on the loop (`loopq`), the ingress queue, the
record in the worker's hands with its phase, paho's outgoing packets (`out`),
and the durable `db`.  One action per step between two awaits: `Deliver` is
`_on_message`, `Enqueue` is `_enqueue`, `Take`/`Persist`/`Resume`/`Flag` are the
worker and its two transactions, `Acknowledge` and `Withhold` end a record.
`PersistFails` fails before the commit or after it (the commit stands and
closing the session raises).  `Crash`, `ConnectionLost`, `Start`, `StopBegin`,
`StopDisconnect` and `StopFinish` interrupt anything.  `judged` counts the
verdicts about a reading, and `cutShort` holds the readings whose handler the end
of a process or a failed close interrupted; both are history.  Validation is abstracted
to three disjoint kinds of publication.  The connection machine appears as a
session that is down, open (CONNACK) or confirmed (all SUBACKs).

### MqttSession — who may connect, and when a session is usable

The paho callbacks (`On*`), the callbacks of the loop (`Call*`, served in
order), the timers, one attempt at a time on a worker thread, and `stop`.
`_on_subscribe` is two steps, because the loop may run between the SUBACK it
records and the verdict it draws from an empty set.  A timer that is due sits
among the ready callbacks and can still be cancelled.

One timing assumption, named in the module: looking a host up and dialling it
takes longer than the few statements `_on_subscribe` has left, so a dial does
not begin and end inside that callback (`DialOver`).  `HealthEarned` does not
speak of a session that is being stopped: `stop` clears the pending set while
a SUBACK may be in hand, and the health it then reports is withdrawn at once.
It names two more states in which a session counts as usable.  Its disconnect
may be on the way (`leaving`).  And after the race of finding 3 an attempt gives
up the socket of a session that has become usable without reporting anything
(client.py:796-827): against client.py:295, "confirmed and not since lost", the
health stands, through failed dials too, until a CONNACK or a failure is reported.
`replaced` says that this, and nothing else, is why no connection is open.

### EventHub — subscriptions, overflow and the endpoint

All on one loop; a step is what one coroutine does between two awaits.  The
lookup, the accept and the send are awaits that may end well, raise, or find
the client gone.  Events of a device are numbered, so that a hole shows.

### DeviceStatus — one row, two writers, one tracker

The worker and the scan each read, write and commit in a thread of their own
and report on the loop afterwards.  The module keeps what SQLite and the ORM
make observable: a SELECT locks nothing, a flush locks the database until the
commit, and only the columns that differ from what was read are written.
Time is abstracted to `fresh`, `aging`, `old` relative to the cutoff of a scan.
`raced` remembers the devices whose two writers have overlapped or whose report
was lost; it is history, no action reads it.

### FirmwareUplink — the loop of the node

`at` walks through one pass in the order of `loop`: sampling, `wifi().tick`,
`mqtt().tick`, the telemetry deadline, the drain.  Between any two of them the
link may come or go, the broker may close the connection and a window may
elapse.  A publish that fails may have arrived all the same.  Windows and
timeouts are elapsed or not; their arithmetic is in `FirmwareTiming`.  Two
branches are left out because no state reaches them: a
manager in idle always has its window armed, and no queued sample is refused
by `formatTelemetryJson` (it is valid, its energy is finite and not negative,
and the longest document fits).  `disconnectGracefully` has no caller.

### FirmwareTiming — the node and its clock

The same pass from the side of the clock: `loop` reads `millis()` once, the
sensor reads it again when it takes a sample or fails, and time passes between
any two steps (`Elapse`, at most `MaxPass` within one pass).  The variables of
the code hold `millis()` modulo `Wrap`; the true times are history variables,
so that the properties compare what the code believes with what really passed.
Electrical values are a power of 1 or -1 or an invalid sample.  The windows of
Wi-Fi and MQTT are the same class, armed with the time of the pass.

### DashboardStream — one device in the browser

A step is one browser callback.  The seed, the socket (`Opens`, `Frame`,
`SocketCloses`, `SocketTimer`, `TakesOver`), the catch-up (`Reconcile`,
`PageArrives`, `Concludes`, `CatchUpTimer`), the button (`RetryOffered`,
`RetryNow`) and the end of the view (`Leave`).  A row is its id.  The backend is
external here: it commits a row, publishes it, and answers requests with a page
or an error; an answer is computed (`Answer`) some time before it is read, so
that a page may be older than the socket.  Ids and receive times are in the
same order (without that see `HistoryPages`).

### HistoryPages — walking the history

The readings and the anomalies of a device, the window and the limit of a
query, the refusals, the page that proves a next page by one row more, and the
client that hands the cursor back, while rows are inserted with times of a wall
clock that may step back.

### Preparation and FeatureWindow — the windows of the anomaly model

`Preparation` has no variables: contiguity, segments, windows, the split, the
audit and the gate's counts.  A dataset is a set of rows, as a table is, and is
listed in the order of time where the code sorts it; a segment is a list, and what
preparation makes of a dataset is a set of segments.
The audit always goes by a stride of two (`AuditStride`); preparation and the gate
by the one the manifest declares (`Stride`).
`FeatureWindow` is the online adapter over the table that ingestion fills: its
deque, its count of high windows, restarts, and the two ways in which a stored
reading is never evaluated: a crash between the commit and the evaluation
(`CrashUnevaluated`), and a commit whose session fails to close (`StoreUnevaluated`,
the failure `PersistFails` of `Delivery`).  In the second the delivery is withheld
and its redelivery is a duplicate, but the process lives on with its deque.  The
readings around the missing one may then be joined, as the default stride of two
bridges one lost number: the adapter scores a window offline preparation does not
cut, and passes over those that hold the missing reading.  So `SameWindows` and
`VerdictReproduced` compare with what preparation cuts from the evaluated rows,
and with the table where no unevaluated row lies in the stretch (`Intact`).  The
model's score is a predicate on a window (`Extreme`).  An engine that raises is
left out, as `evaluate` is written not to.

`GateAndAuditAgree` says in which direction each count may err.  The gate counts
rows and never expects a window where the fit gets none, which is the only thing
the fit refuses (`model.py:111`).  But how many it expects is an upper bound: of
rows in fragments, training may be left with fewer windows than the gate
announced, and with fewer than its own minimum of 50 and 20.  The gate's split
is fixed at 0.8 while `--train-fraction` may be another; the module has one split
for both, the default.

### ModelRelease — how a model may come to act

An operator's manifest, the review of a dataset by it, the gate, the training
run, the two writes of a save (`OpenPickle` to `WriteMetadata`, with a crash
between any two), and the start of a backend in the steps in which it looks at
the files: the loader's metadata, the checks, the engine's own metadata, the
checksum, the pickle.  `raced` records which of these looks a save overtook.

### SyntheticPublisher — the stand-in for a node

The plan of a run (scenarios, their sequence numbers, boots, the cap, the split
into sessions) and the walk over it: publish and wait, drop the connection, set
the next will, reconnect, say goodbye, with failures, interrupts and a lost link
between any two steps, and the exit code.

## 3. The runs

| run | what it asks | bounds |
|---|---|---|
| `delivery` | no publication is released before its effect is committed; one broadcast at most; a verdict at most, between commit and broadcast, whose failure costs no broadcast; a graceful stop delivers the acknowledgements it gives; the refinement | one reading and one status, a queue of 1, one lost connection, one failure, two lives of the process |
| `delivery_live` | every publication the broker holds is released in the end | one reading, one rejected message, one lost connection, two failures |
| `delivery_withheld` | finding 1 | one reading, two failures |
| `delivery_restart` | finding 2 | one reading |
| `mqtt_session` | one attempt; health is earned or explained; never deaf with nothing pending; a stop is final; recovery | two filters, three faults of any kind |
| `session_spared` | finding 3 | two filters, two faults |
| `event_hub` | the cap, the accounting of slots, completeness for each subscriber, close frames, freed slots | three clients for two slots, a queue of 1, two events |
| `event_hub_slots` | finding 4 | one client |
| `device_view` | agreement of row, tracker and subscribers; silence is noticed; reports revive; the chart never hides a hole; one socket or timer; the view catches up | one device, three storage failures; pages of one row, a view of two, four rows, two failures of network or backend |
| `device_status_offline` | finding 5 | one device, no failure |
| `firmware` | status first; no uncounted loss; the queue drains; measured energy only; retries, samples and the panel on time | a queue of 2, two publishes per pass, four attempts to sample, three faults; a clock of 16 values over ten units of time, passes of up to two |
| `workbench` | online windows and verdicts are the offline ones wherever every row was evaluated; gate and audit err in one direction only; only validated and untorn models; attested data; one boot per will; exit codes; gaps as announced; pages complete | windows of 2, four rows, one restart, one row stored by a session that fails to close; two training runs, one start; 38 invocations; three readings, pages of at most two |

Three runs check several modules at once, as a disjoint union: their MC modules
extend all the parts (whose variables have names of their own), a variable `part`
is chosen at the start, the modules of the other parts stand still, and their
inputs are fixed, so that nothing is multiplied.  `MCWorkbench` has four parts
(adapter, release, publisher, pages), `MCDeviceView` two (status, stream),
`MCFirmware` two (uplink, timing).

Why these bounds suffice.  In `delivery` a queue of one makes "full" reachable
with a second record, and the interesting episodes (a redelivery that meets the
record it duplicates, a crash between commit and PUBACK, a commit whose close
fails, a second life over the database of the first) need one fault each, and
two kinds together to interact.  Each publication has a packet id of its own
there, so the reuse of an id while a record still holds it is assumed away
(`FreshMids`, section 6), not caught.  In `mqtt_session` the pair of a failure and a
failure while the first is being repaired needs two faults; the third covers a
shutdown in between.  A filter is confirmed in any order, so two filters give
"some but not all".  In `event_hub` three clients exceed a cap of two, and two
events exceed a queue of one.  Devices do not interact in `DeviceStatus` (every
action changes one device, and a scan's selection is per device), so one is
enough; the theorem below is for any set.  In `device_view` a view of two rows
and pages of one make every end of a catch-up reachable: complete, truncated,
out of pages and out of rows; two failures lose a socket during the repair of
a failed page (three were tried and change nothing but the time).  In `firmware`
four samples overflow a queue of two twice, with failed publishes before and
after; the clock wraps in the middle of the time observed, the intervals (3 to
sample, 2 to go stale, a window of 2 to 5) are small against the wrap as the real
ones are, and a pass is long enough to make every step of it late.  In
`workbench` windows of two rows are the smallest with a difference in them, and
a capture of seven rows over two power cycles gives the reviewer rows to keep and
to refuse; a release needs one training run to be overtaken by a second.

Every bound is a CONSTANT with a name: `MaxLives`, `MaxDrops`, `MaxFailures`,
`MaxFaults`, `MaxEvents`, `MaxSeq`, `MaxRows`, `MaxRestarts`, `MaxUnseen`, `MaxRuns`,
`MaxStarts`, `MaxReadings`, `MaxPages`, `MaxPass`, `MaxWait`, `Boot` and `End`; a
size of the code that a run makes small is one too: `Window`, `Limit`,
`MaxPoints`, `MaxLimit`, `Cap`, `QueueCapacity`, `Wrap`.  They limit what goes
wrong or how much is produced, never what the code may do about it.

`CHECK_DEADLOCK FALSE` stands where the system may really stop: the process may
be left off (`Delivery`), `stop` has returned (`MqttSession`), every client has
come and gone and no event is left (`EventHub`), and `workbench`, whose parts all
end: a program exits, a table is full.  `DeviceStatus` and
`FirmwareUplink` never stop and are checked for deadlock; the parts that share
their runs are bounded in time or rows and may stand still at the end.

The type invariants of the modules with proofs are proved and not checked again
in the runs, except those of `workbench` and of the stream in `device_view`.

Each property of a passing run has a mutant: a plausible bug in one definition
(`\* MUTANT:` in the modules), under which the property fails.

## 4. Fairness

Weak fairness only, and only of what the code's scheduling provides.

* `Delivery`: the loop serves its callbacks and the worker, a transaction ends,
  paho writes what is queued, the broker delivers what it holds and reads
  PUBACKs, a lost session is rebuilt (that it is, is `Recovers` of
  `MqttSession`).  Nobody is obliged to start or stop the process.
* `MqttSession`: the loop serves callbacks and due timers, a dial returns, a
  broker that has not fallen silent answers.  The SUBACK timeout is obliged to
  fire only when the broker is mute.
* `EventHub`: each coroutine continues when its await is over; a lookup and an
  accept end one way or another.
* `DeviceStatus`: the worker finishes what it began, the scan loop goes on, time
  passes.  No device is obliged to report.
* `FirmwareUplink`: the loop runs, windows elapse, and an access point that is
  asked answers unless the attempt times out (`AttemptTimesOut` is a fault).
* `DashboardStream`: each browser callback that stays due runs, the backend
  publishes what it committed and answers or fails every request.  `fetch` is
  called without a timeout, so an answer that never comes is outside what the
  code handles; failures are bounded, and nobody is obliged to press the button.

The other modules are checked for safety only.

`EventuallyReleased` is conditional: the queue must not be saturated for ever
(a broker whose window exceeds the queue starves the last record by dropping
the session again and again), and no delivery is withheld in the interval of
finding 1.  Both conditions are spelled out next to the property.

## 5. Findings

1. **A withheld delivery nobody redelivers** (`delivery_withheld`).
   `_redelivery_requested` is reset by the last SUBACK of a session, but
   redelivery starts with the CONNACK.  A record withheld in between finds the
   flag set by the session before and requests nothing.
2. **A restart loses what is published meanwhile** (`delivery_restart`).
   `stop` unsubscribes, so the persistent session holds nothing for the next
   start, unlike the comment on it says.
3. **A working session dropped for an old failure** (`session_spared`).  A retry
   that is due runs before the callback that supersedes it.
4. **A slot that is never released** (`event_hub_slots`).  `accept` is awaited
   after `subscribe` and before the `try` whose `finally` unsubscribes.
5. **An explicit offline overwritten** (`device_status_offline`).  The stale scan
   updates the ids it selected without repeating the condition.

Other disagreements were met while modelling.  No run is spent on them; where a
property would fail because of one, its statement names the exception.

* The node: a reading whose publish failed goes to the back of the queue, so a
  later overflow does not drop the oldest, unlike `telemetry.h` says.
* The node: `main.cpp:249` subtracts the time of a sample from the time of the
  pass that took it.  A sample stamped after the pass began has an age that
  wraps, so the panel shows dashes until the next refresh, although
  `display.h:36` and `display.h:59` keep dashes for older readings.
  `PanelCurrent` states what they say and names this one exception: such a
  reading may be withheld, and need not be, so mending the code breaks nothing
  in it.  A sampling
  interval above `kSampleStaleAfterMs` shows dashes in between as well.
* The node: the MQTT window is armed with the time at which the pass began, while
  the connect attempt in it may block; the wait that remains is shorter than the
  window, unlike the sensor's (`power_sensor.cpp:62`).
* The dashboard's hook would accept a retry during the seed and could then move
  its anchor past a hole; `ConnectionBanner` does not offer the button there.
* Pages: after a step back of the wall clock a walk over the history skips or
  repeats rows, because the cursor compares ids in an order of times
  (`PagedOnce` speaks of a steady clock).
* Review: `parse_manifest` admits an abnormal event with label 0, and its rows are
  trained on (`PromotedIsAttested`).
* Release: the loader decides by metadata it read before the engine reads its
  own; a retraining in place in between can activate an unvalidated model
  (`raced` in `ActiveIsValidated`).
* Evaluation: offline flags count high windows across segments, the online count
  restarts at every gap (`VerdictReproduced` states the inclusion).
* Evaluation: "a window the model was trained on and a window it is asked to score
  are cut the same way" (`preprocess.py:86`) fails around a row whose session failed
  to close, as described under `FeatureWindow`.
* Publisher: the gap scenario "skips sequence numbers, so the backend counts a gap"
  (`publish_synthetic.py:92`), but with one or two samples no reading follows the
  jump, and with `--scenario all`, or `normal,gap` from nine samples on (the
  default count included), readings are repeated under one boot and the jump
  clears none of them.  The backend then counts no gap.  `ScenarioGaps` names both
  as exceptions and asks only that no second gap is counted there; a plan cut by `MAX_MESSAGES` right behind a drop ends
  in an IndexError; an interrupt between the reconnect and the assignment of the
  new session says goodbye under the dead boot (`DeadStaysDead`); an
  unconfirmed publication ends in a DISCONNECT that discards the will, and the
  retained status may stay online, with exit code 1.

## 6. What is proved

Assumptions: the ASSUMEs of the modules, which TLC evaluates on the values of the
runs.  They say that sizes are natural numbers, that kinds of publication are
disjoint and each has a packet id, that a window has two rows at least, that a
configured directory is that of a device, as is a row, that a dataset is finite and
its rows are told apart by time and id, that a manifest lists intervals, that a query is to one
of the two endpoints, that a command line of the publisher names scenarios and a
count, and (`TimingAssumption`) that an interval and the wait it may meet fit
in one wrap of the clock.  Theorems that need a broker
which does not reuse a packet id while a record may still hold it say so in
their statement (`ASSUME FreshMids`): `acknowledge` names an id and nothing
else, so without it a record that outlives its session could confirm another
publication.

**Delivery** (`DeliveryProofs`).  `TypeCorrect`, and `InferenceIsolated` for
whatever packet ids the broker uses: a reading is judged at most once, between its
commit and its broadcast; an anomaly has such a verdict behind it; and a committed
reading is broadcast or in its handler, unless that was cut short.
`Durability` and `SingleBroadcast` come from one inductive invariant `IInv`.
"Released implies decided" is not inductive: a PUBACK is written long before
the broker reads it, and the record it belongs to may be in any queue.  `IInv`
says that every PUBACK on the way belongs to a decided publication
(`PubacksJustified`), what each phase of the worker implies about the database
(`WorkDecided`), and that a reading whose phase is `stored` has not been
broadcast (`StoredIsSilent`).  `GracefulStop` and `DeliveryImplements` use
`WInv`, which follows the records (everything queued was sent), the wire
(nothing is on a wire that is down) and the acknowledgements given while
draining (arrived, or on their way ahead of the DISCONNECT).  The refinement
maps every action to an abstract step or a stutter; `announced` is the set of
keys with an event.

**MqttSession** (`MqttSessionProofs`).  `SessionTyped` and `SingleOwner`: no
retry is armed while an attempt is in flight or once `stop` has begun.  The
proof goes action by action over every callback that may arm a timer.
`HealthNeverFeigned` rests on `AwaitedOrGranted`: as long as a session may still
become healthy, every filter is either pending or granted on this connection; and
on what an attempt finds when it gives up a socket, which is remembered until a
CONNACK or a report withdraws the health.
`NothingRevives` needs to know more than the end of `stop`: `StopInv` says what
holds from its beginning on (nothing pending, no SUBACK timer) and what no
attempt still in its thread can leave behind (`TransportGone`).  `NeverLeftDeaf`:
an adapter that is not usable has a dial, a retry, a SUBACK deadline or a posted
callback under way.  What is under way is mostly a callback the loop has yet to
run, and a callback behind it may cancel it, so its invariant speaks of the order
of the queue: a deadline to be armed is not disarmed later (`ArmsLast`), whatever
a confirmation cancels is scheduled again behind it (`Answered`), and the two
halves of `_on_subscribe` report once (`OneReport`); lemmas say how each survives
a callback queued at the end and one taken from the head.

**EventHub** (`EventHubProofs`).  `HubTyped`, `CapNeverExceeded`,
`SlotReleasedOnce`, `StreamUnbroken`, for any number of connections and any
queue size, from one invariant: an endpoint holds its slot exactly in the phases
between subscribe and unsubscribe, nothing is queued for a connection before
it subscribes, and the dispatch that finds a queue full unregisters it in the
same step.  The count of slots goes through cardinalities of finite sets.

**DeviceStatus** (`DeviceStatusProofs`).  `StatusTyped` and `StatusAgrees`.
`Agreed` speaks of devices with nothing in flight; the invariant follows an
undisturbed device through both exchanges: what the worker read is still the
row, what it wrote stays until it is reported, what the scan selected stays
online until marked and stale until reported.

**FirmwareUplink** (`FirmwareProofs`).  `UplinkTyped`, `UplinkStatusFirst`,
`UplinkLossIsCounted`, for every capacity.  The flag `statusPublished` never
survives a session, and the queue holds no reading twice, so that a reading
leaves it exactly when it is delivered or counted; lemmas say what `Tail`,
`Append` and `Push` do to the elements of a sequence.

**FirmwareTiming** (`FirmwareProofs`).  `TimesTrue`, `EnergyAlwaysHonest`
and `AlwaysOnSchedule`, for every width of `millis()` and every interval that
`TimingAssumption` admits.  Each variable holds the true time of an event cut to
the width, so a difference is right while the two events are less than a wrap
apart; `DeadlineInv` and `PassInv` say how far apart they can be, which depends
on where the pass stands: what it has seen to is current, what it has yet to
come to is late by the wait of one pass at most.  Doubling of the backoff needs
that a power of two doubles, proved by counting subsets.

**DashboardStream** (`DashboardStreamProofs`).  `StreamTyped`, `AtMostOneOwner`
and `HistoryAlwaysHonest`, for every page size and retention.  That a chart
never hides a hole is not inductive: the invariant says what the anchor proves
(everything up to it is shown or older than the view), what an answer in flight
will prove when it is merged (it may be older than the socket), and that the
rows beyond the anchor are either in the frames held or still to be delivered by
this socket.

**FeatureWindow** (`AnomalyModelProofs`).  `WindowsContiguous`: with the types,
`WindowSound` is inductive; lemmas say that appending a contiguous row to a sound
window, and dropping its oldest, leave it sound.  `OnlineIsOffline` compares the
deque, which sees one row at a time and forgets, with a preparation that sees the
whole table.  The lemmas between them are about lists: `InOrder` puts the row with
n - 1 earlier ones at place n, a segment is a longest contiguous stretch of that
list, so the windows of the segments are exactly its contiguous stretches of
`Window` rows, and a new newest row adds only the stretches that end in it.  The
invariant then says that the deque is the longest contiguous and undivided stretch
that ends at the newest evaluated row of the owner, up to its size (`FollowInv`).
It speaks of the list of the evaluated rows; that a stretch of them without an
unevaluated row between its ends is a stretch of the whole table, and the other
way round, is a lemma (`IntactStretch`).  `VerdictsAreOffline`
adds the counter: it has reached n exactly if the n newest windows, all in one
undivided stretch, are high.  The offline flags are reached through the places of
the rows that windows are about, which follow each other within a segment.
`CountsAlwaysAgree` counts: the stretches of a list begin each with a row of its
own, so a list has at most as many windows as rows that can begin one; in one
unbroken segment every such row does, and each side of the split of such a segment
is unbroken again.  That a side with rows enough for a window has one goes through
its ends: the first `Window` rows of what preparation keeps, and the last, lie in one
segment.  For the audit, a larger stride joins whatever a smaller one joins, so no
row leaves a segment that is long enough.  The few inductions over naturals in these lemmas go through the well-foundedness of
`<`, in the form that every non-empty set of naturals has a least member.

**ModelRelease** (`AnomalyModelProofs`).  `ValidatedActs` and `OwnPickleOnly`, for
every dataset, manifest, configuration and number of runs.  `LoadInv` says what
each step of the load has established, `LookInv` that the directory still shows
it unless `raced` says otherwise.  `PromotedRowsAttested` follows a row from the
artifact back to the manifest: preparation adds no row to those it is given, the
selection and the labels keep those that are normal, and the first interval that
covers such a row is an approved one, which no event overlaps, or an event that was
declared normal.

**SyntheticPublisher** (`WorkbenchProofs`).  `FinishedStaysFinished` and
`ExitNeverLies`, for every command line and cap.  Both need that the planner
gives each session a boot id of its own (`WellPlanned`, proved as `PlansWell`):
in what one scenario makes, and in what several make one behind the other, the
boot id of a message is the first one and the number of drops before it; a cut at
the cap leaves that so; and the messages with equally many drops before them are an
unbroken stretch, which is where the list is cut.  For the walk, one invariant ties
each of its stages to the session whose will the open connection carries, and
another (`TruthInv`) says that what has been heard, goodbyes aside, is the list up
to the place reached, and that a connection which is gone has left an offline or a
will behind.  Readings are put together by recursion over the scenarios and over
the numbers of the readings; the lemma `StepsLead` says once that such a recursion
has a value at every step.

`GapsAsPlanned`, for every number of samples and every cap: what the backend counts
of a run that exits with 0 is what its scenario was made to show, with the two
exceptions of section 5.  `Skipping` is a
set of readings and no counter, so that it can be reasoned about: a reading is in it
if readings of its boot came before and it is more than one ahead of all of them.
`ExitNeverLies` gives what arrived; `Tally` counts it one message at a time, which
shows that drops and goodbyes leave the count alone.  Then each scenario by its own
argument.  Where each reading follows one that is not far behind (`Steady`), nothing
is counted; that survives joining lists of different boots and a cut at any place,
which is why the cap does not matter for a normal, duplicate, status, reconnect or
malformed run.  The out-of-order scenario is tallied index by index: after n of them
the readings are those through n plus n div 3, and the fourth of each four is
counted.  The gap scenario is settled by place: before the jump a reading is its own
index, from the jump on four more, so only the first one behind it can be ahead of
all, and is unless the readings of a run before it reach that far.  For these two the
property asks that the cap leaves the scenario whole.

**HistoryPages** (`WorkbenchProofs`).  `HistoryPagedOnce`, for every table, window
and limit: while the clock is steady the order of times is that of ids, a page
is the newest rows beyond the cursor, and what has been delivered is exactly what
was wanted from the cursor upwards, while rows inserted since are newer.

**MCWorkbench** (`WorkbenchProofs`).  `WorkbenchTyped`: the types of the four
components it puts side by side.  What takes an argument is the release: a save
writes the number of an artifact that exists (`SavesLatest`), and an artifact is
named after a row it was fitted on, of which there is one, or no window would be
left to train on (`TrainedTyped`).

Only model-checked:

* every liveness property (`EventuallyReleased`, `Recovers`, `DroppedIsClosed`,
  `GoneIsReleased`, `SilenceIsNoticed`, `ReportingRevives`, `ViewCatchesUp`,
  `Drains`): fairness and ENABLED are out of the prover's reach.

## 7. What is not modelled, and the plan

Not modelled at all: parsing of settings, logging and metrics, the migration,
`check_broker.py`, `check_contracts.py`, the launcher scripts, the digits and
serial output of the node, the views of the dashboard except when they offer a
retry, `liveState.ts` (a pure function of an age), the numerical fit, the
metrics of an evaluation and the synthetic generator.  They keep no protocol
state, are formatting, or are numerical code no bounded instance says much about.

Simplifications inside modelled parts: the sequence-gap counters of `Ingestion`
are only logged and left out (the rule they count by is in `ScenarioGaps`); one
drain worker, as the code starts one; the branch for a rejected stored reading
cannot be reached behind the CHECKs of the table; two trainers in one
directory are not modelled, nor the command line argument that names a
calibration; the dashboard's anomaly marks follow its rows and are left out, as
are the exact delays of its retries.

What would come next: a composition of `DeviceStatus` with `EventHub` for what a
subscriber may conclude about a device.
