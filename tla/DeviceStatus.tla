---------------------------- MODULE DeviceStatus ----------------------------
(***************************************************************************)
(* The status of a device, which three writers change: telemetry and status*)
(* messages, one at a time through the drain worker of Delivery, and the   *)
(* stale scan.  Each writes the row of the device in a thread of its own   *)
(* and reports the transition later, on the loop, to the tracker and the   *)
(* subscribers.                                                            *)
(*                                                                         *)
(* A timestamp matters only through the cutoff of a scan: it is "fresh",   *)
(* "aging" once stale_after_s have passed since, and "old" when it lies    *)
(* before the cutoff of the latest scan.                                   *)
(*                                                                         *)
(* External: sqlite3 opens its transaction at the first statement that     *)
(* writes, so a SELECT sees the last commit and locks nothing, while a     *)
(* flush holds the write lock until the commit.  The ORM writes only the   *)
(* columns whose value differs from the one it read.                       *)
(***************************************************************************)
EXTENDS Naturals

CONSTANTS
    Devices,
    MaxFailures      \* bound: storage failures

ASSUME MaxFailuresAssumption == MaxFailures \in Nat

Statuses == {"online", "offline", "stale"}
Instants == {"fresh", "aging", "old"}

VARIABLES
  (* storage *)
    status,      \* devices.status per device; "none" without a row
    seen,        \* devices.last_seen_at
    failures,    \* storage failures so far
  (* the drain worker *)
    worker,      \* idle, reading, writing, recording
    msg,         \* the message in hand: device, kind, dup(licate), at (received_at)
    saw,         \* the status its transaction read
  (* the stale scan *)
    scan,        \* asleep, selecting, updating, rereading, reporting, failed
    ids,         \* the devices it selected
    found,       \* the statuses it read back
  (* what the loop knows and tells *)
    tracker,     \* DeviceStatusTracker._current
    shown,       \* the last device.status frame
  (* history *)
    raced        \* devices whose two writers have overlapped, or whose report was lost

storage == <<status, seen, failures>>
workerVars == <<worker, msg, saw>>
scanVars == <<scan, ids, found>>
loopVars == <<tracker, shown>>
vars == <<storage, workerVars, scanVars, loopVars, raced>>

\* A status message carries online or offline; telemetry implies online.
Messages == [device : Devices, kind : {"telemetry", "online", "offline"},
             dup : BOOLEAN, at : Instants]

NoMessage == [kind |-> "none"]

Says(m) == IF m.kind = "telemetry" THEN "online" ELSE m.kind

TypeOK ==
    /\ status \in [Devices -> Statuses \cup {"none"}]
    /\ seen \in [Devices -> Instants]
    /\ failures \in 0..MaxFailures
    /\ worker \in {"idle", "reading", "writing", "recording"}
    /\ IF worker = "idle" THEN msg = NoMessage ELSE msg \in Messages
    /\ saw \in Statuses \cup {"none"}
    /\ scan \in {"asleep", "selecting", "updating", "rereading", "reporting", "failed"}
    /\ ids \subseteq Devices
    /\ found \in [Devices -> Statuses \cup {"none"}]
    /\ tracker \in [Devices -> Statuses \cup {"none"}]
    /\ shown \in [Devices -> Statuses \cup {"none"}]
    /\ raced \subseteq Devices
    /\ scan \in {"updating", "rereading", "reporting"} => ids # {}
    /\ \A d \in ids : status[d] # "none"

Unknown == [d \in Devices |-> "none"]

\* A new process over the rows an earlier one left.
Init ==
    /\ status \in [Devices -> Statuses \cup {"none"}]
    /\ seen = [d \in Devices |-> "aging"]
    /\ failures = 0
    /\ worker = "idle" /\ saw = "none" /\ msg = NoMessage
    /\ scan = "asleep" /\ ids = {}
    /\ found = Unknown
    /\ tracker = Unknown
    /\ shown = Unknown
    /\ raced = {}

\* MUTANT: a stale device is taken for known until it says otherwise.
RecordUnlessStale(d, s) ==
    tracker' = IF tracker[d] = "stale" THEN tracker ELSE [tracker EXCEPT ![d] = s]

\* DeviceStatusTracker.record.
Record(d, s) == tracker' = [tracker EXCEPT ![d] = s]

Busy(d) == worker # "idle" /\ msg.device = d

\* The worker is done with its message.
Done == worker' = "idle" /\ msg' = NoMessage /\ saw' = "none"

\* The scan loop goes back to sleep.
Sleeps == scan' = "asleep" /\ ids' = {} /\ found' = Unknown

Fails == failures < MaxFailures /\ failures' = failures + 1

-------------------------------------------------------------------------------
(* The drain worker *)

\* The next message of the queue reaches ingestion.  It was received a moment
\* ago: it ages here if it had waited.
Take ==
    /\ worker = "idle"
    /\ worker' = "reading"
    /\ \E m \in Messages :
          /\ m.at = "fresh"
          /\ m.dup => m.kind = "telemetry" /\ status[m.device] # "none"
          /\ msg' = m
          /\ raced' = IF m.device \in ids THEN raced \cup {m.device} ELSE raced
    /\ UNCHANGED <<storage, saw, scanVars, loopVars>>

\* _upsert reads the row outside any transaction.
ReadRow ==
    /\ worker = "reading"
    /\ saw' = status[msg.device]
    /\ worker' = "writing"
    /\ UNCHANGED <<storage, msg, scanVars, loopVars, raced>>

Later(a, b) ==
    \/ a = "fresh" /\ b # "fresh"
    \/ a = "aging" /\ b = "old"

\* MUTANT: a stale device is not revived by what it sends.
UpsertKeepsStale(d) ==
    /\ status' = [status EXCEPT ![d] = IF saw \in {Says(msg), "stale"} THEN @ ELSE Says(msg)]
    /\ seen' = [seen EXCEPT ![d] = IF saw = "none" \/ Later(msg.at, @) THEN msg.at ELSE @]

\* The flush of _upsert: a status equal to the one read is not written, and
\* last_seen_at only moves forward.
Upsert(d) ==
    /\ status' = [status EXCEPT ![d] = IF saw = Says(msg) THEN @ ELSE Says(msg)]
    /\ seen' = [seen EXCEPT ![d] = IF saw = "none" \/ Later(msg.at, @) THEN msg.at ELSE @]

\* The transaction commits.
Commit ==
    /\ worker = "writing" /\ ~msg.dup
    /\ Upsert(msg.device)
    /\ worker' = "recording"
    /\ UNCHANGED <<failures, msg, saw, scanVars, loopVars, raced>>

\* A duplicate reading rolls back, the upsert included, and reports nothing.
RollBack ==
    /\ worker = "writing" /\ msg.dup
    /\ Done
    /\ UNCHANGED <<storage, scanVars, loopVars, raced>>

\* Any step of the transaction fails: nothing is written, the delivery withheld.
Withhold ==
    /\ worker \in {"reading", "writing"}
    /\ Fails
    /\ Done
    /\ UNCHANGED <<status, seen, scanVars, loopVars, raced>>

\* Closing the session fails after the commit: written, but never reported.
CommitUnheard ==
    /\ worker = "writing" /\ ~msg.dup
    /\ Fails
    /\ Upsert(msg.device)
    /\ Done
    /\ raced' = raced \cup {msg.device}
    /\ UNCHANGED <<scanVars, loopVars>>

\* Back on the loop.  Only a status message is also broadcast as a status.
Report ==
    /\ worker = "recording"
    /\ Done
    /\ Record(msg.device, Says(msg))
    /\ shown' = IF msg.kind = "telemetry" THEN shown
                ELSE [shown EXCEPT ![msg.device] = Says(msg)]
    /\ UNCHANGED <<storage, scanVars, raced>>

-------------------------------------------------------------------------------
(* The stale scan *)

\* The cutoff is computed on the loop, before the thread starts.
Behind(t) == IF t = "aging" THEN "old" ELSE t

ScanStarts ==
    /\ scan = "asleep"
    /\ scan' = "selecting"
    /\ seen' = [d \in Devices |-> Behind(seen[d])]
    /\ msg' = IF worker = "idle" THEN msg ELSE [msg EXCEPT !.at = Behind(@)]
    /\ UNCHANGED <<status, failures, worker, saw, ids, found, loopVars, raced>>

Silent == {d \in Devices : status[d] = "online" /\ seen[d] = "old"}

NextPhase(selected) == IF selected = {} THEN "asleep" ELSE "updating"

\* mark_stale selects outside any transaction.
Select ==
    /\ scan = "selecting"
    /\ ids' = Silent
    /\ scan' = NextPhase(Silent)
    /\ raced' = raced \cup {d \in Silent : Busy(d)}
    /\ UNCHANGED <<storage, workerVars, found, loopVars>>

\* The UPDATE names the selected ids and nothing else; it commits.
MarkStale ==
    /\ scan = "updating"
    /\ status' = [d \in Devices |-> IF d \in ids THEN "stale" ELSE status[d]]
    /\ scan' = "rereading"
    /\ UNCHANGED <<seen, failures, workerVars, ids, found, loopVars, raced>>

ReRead ==
    /\ scan = "rereading"
    /\ found' = [d \in Devices |-> IF d \in ids THEN status[d] ELSE "none"]
    /\ scan' = "reporting"
    /\ UNCHANGED <<storage, workerVars, ids, loopVars, raced>>

\* A statement, the commit, the re-read or the close fails, in the thread.
ScanFails ==
    /\ scan \in {"selecting", "updating", "rereading"}
    /\ Fails
    /\ scan' = "failed"
    /\ raced' = IF scan = "rereading" THEN raced \cup ids ELSE raced
    /\ UNCHANGED <<status, seen, workerVars, ids, found, loopVars>>

\* Back on the loop: what the tracker already knows is not broadcast.
ReportStale ==
    /\ scan = "reporting"
    /\ tracker' = [d \in Devices |-> IF d \in ids THEN "stale" ELSE tracker[d]]
    /\ shown' = [d \in Devices |->
                    IF d \in ids /\ tracker[d] # "stale" THEN found[d] ELSE shown[d]]
    /\ Sleeps
    /\ UNCHANGED <<storage, workerVars, raced>>

\* MUTANT: an exception ends the loop.
SurvivesNot == FALSE

\* The except clause: counted, logged, and the loop goes on.
Survives == TRUE

ScanResumes ==
    /\ scan = "failed"
    /\ Survives
    /\ Sleeps
    /\ UNCHANGED <<storage, workerVars, loopVars, raced>>

-------------------------------------------------------------------------------
(* Time passes *)

RowAges(d) ==
    /\ seen[d] = "fresh"
    /\ seen' = [seen EXCEPT ![d] = "aging"]
    /\ UNCHANGED <<status, failures, workerVars, scanVars, loopVars, raced>>

MessageAges ==
    /\ worker # "idle" /\ msg.at = "fresh"
    /\ msg' = [msg EXCEPT !.at = "aging"]
    /\ UNCHANGED <<storage, worker, saw, scanVars, loopVars, raced>>

-------------------------------------------------------------------------------
Worker == Take \/ ReadRow \/ Commit \/ RollBack \/ Withhold \/ CommitUnheard \/ Report
Scan == ScanStarts \/ Select \/ MarkStale \/ ReRead \/ ScanFails \/ ReportStale \/ ScanResumes

Next == Worker \/ Scan \/ (\E d \in Devices : RowAges(d)) \/ MessageAges

Spec == Init /\ [][Next]_vars

\* Time passes, threads end and the loop runs what they return; the scan loop
\* wakes again.  No device has to send anything.
Fairness ==
    /\ WF_vars(ReadRow) /\ WF_vars(Commit \/ RollBack) /\ WF_vars(Report)
    /\ WF_vars(Scan)
    /\ \A d \in Devices : WF_vars(RowAges(d))

FairSpec == Spec /\ Fairness

-------------------------------------------------------------------------------
(* Properties *)

Settled(d) == ~Busy(d) /\ d \notin ids

\* device_status.py "the row in devices remains authoritative": when nothing is
\* in flight for a device, the tracker agrees with its row and the subscribers
\* know a device that went stale, unless its two writers have overlapped or the
\* report of a commit was lost.
Agreed ==
    \A d \in Devices : Settled(d) /\ d \notin raced =>
        /\ tracker[d] \in {"none", status[d]}
        /\ tracker[d] = "stale" => shown[d] = "stale"

Heard(d) == worker = "recording" /\ msg.device = d

\* A device that falls silent does not stay online for ever, whatever scans fail
\* and whatever its last message overlapped.
SilenceIsNoticed ==
    \A d \in Devices : status[d] = "online" ~> status[d] # "online" \/ Heard(d)

\* A device that goes on reporting comes back online, although one reading may
\* lose its update of the row to a scan.
ReportingRevives ==
    \A d \in Devices :
        []<>(Heard(d) /\ msg.kind = "telemetry")
            => []<>(status[d] = "online")

\* repositories.py:190 "An explicit offline stays offline": the scan never
\* replaces what the device itself announced.
OfflineStays == [][\A d \in Devices : status[d] = "offline" => status'[d] # "stale"]_vars
===============================================================================
