------------------------- MODULE DeviceStatusProofs -------------------------
(***************************************************************************)
(* Proofs about DeviceStatus, for every set of devices and any number of   *)
(* failures: type correctness, and the agreement of tracker, row and       *)
(* subscribers for a device whose two writers have never overlapped.       *)
(*                                                                         *)
(* Agreed speaks of devices with nothing in flight.  The invariant follows *)
(* an undisturbed device through both exchanges: what the worker read is   *)
(* still the row, what it wrote is the row until it is reported, and a     *)
(* device the scan selected stays online until the scan marks it, then     *)
(* stale until the scan reports it.                                        *)
(***************************************************************************)
EXTENDS DeviceStatus, TLAPS

\* What the loop has told matches the row.
Told(d) == tracker[d] \in {"none", status[d]}

\* The tracker holds "stale" only for a device shown as stale.
Announced(d) == tracker[d] = "stale" => shown[d] = "stale"

\* The exchange of the worker with an undisturbed device.
WorkerTrue(d) ==
    Busy(d) =>
        /\ d \notin ids
        /\ worker = "writing" => saw = status[d]
        /\ worker = "recording" => status[d] = Says(msg)

\* The exchange of the scan with an undisturbed device.
ScanTrue(d) ==
    d \in ids =>
        /\ scan = "updating" => status[d] = "online"
        /\ scan \in {"rereading", "reporting"} =>
              status[d] = "stale" /\ tracker[d] \in {"none", "online"}
        /\ scan = "reporting" => found[d] = "stale"

Undisturbed(d) ==
    /\ WorkerTrue(d)
    /\ ScanTrue(d)
    /\ Announced(d)
    /\ Told(d) \/ (Busy(d) /\ worker = "recording")
               \/ (d \in ids /\ scan \in {"rereading", "reporting"})

NothingSelected == scan \in {"asleep", "selecting"} => ids = {}

Inv == NothingSelected /\ \A d \in Devices : d \notin raced => Undisturbed(d)

-----------------------------------------------------------------------------
LEMMA SaysType == \A m \in Messages : Says(m) \in {"online", "offline"}
  BY DEF Messages, Says

LEMMA BehindType == \A t \in Instants : Behind(t) \in Instants
  BY DEF Instants, Behind

\* Every reachable state of DeviceStatus is well typed, and neither a message
\* in hand nor a selection of the scan outlives its exchange.
THEOREM StatusTyped == Spec => []TypeOK
<1> USE MaxFailuresAssumption
<1>1. Init => TypeOK
  BY DEF Init, TypeOK, Unknown, Statuses, Instants
<1>2. TypeOK /\ [Next]_vars => TypeOK'
  <2> SUFFICES ASSUME TypeOK, [Next]_vars PROVE TypeOK'
    OBVIOUS
  <2> USE DEF TypeOK, Statuses
  <2>1. CASE Take
    BY <2>1 DEF Take, storage, scanVars, loopVars, Messages, NoMessage
  <2>2. CASE ReadRow
    BY <2>2 DEF ReadRow, storage, scanVars, loopVars, Messages
  <2>3. CASE Commit
    <3>1. msg \in Messages /\ Says(msg) \in {"online", "offline"}
      BY <2>3, SaysType DEF Commit
    <3>2. msg.device \in Devices /\ msg.at \in Instants
      BY <3>1 DEF Messages
    <3> QED
      BY <2>3, <3>1, <3>2 DEF Commit, Upsert, scanVars, loopVars
  <2>4. CASE RollBack
    BY <2>4 DEF RollBack, Done, storage, scanVars, loopVars
  <2>5. CASE Withhold
    BY <2>5 DEF Withhold, Fails, Done, scanVars, loopVars
  <2>6. CASE CommitUnheard
    <3>1. msg \in Messages /\ Says(msg) \in {"online", "offline"}
      BY <2>6, SaysType DEF CommitUnheard
    <3>2. msg.device \in Devices /\ msg.at \in Instants
      BY <3>1 DEF Messages
    <3> QED
      BY <2>6, <3>1, <3>2 DEF CommitUnheard, Upsert, Fails, Done, scanVars, loopVars
  <2>7. CASE Report
    <3>1. msg \in Messages /\ Says(msg) \in {"online", "offline"}
      BY <2>7, SaysType DEF Report
    <3>2. msg.device \in Devices
      BY <3>1 DEF Messages
    <3> QED
      BY <2>7, <3>1, <3>2 DEF Report, Record, Done, storage, scanVars
  <2>8. CASE ScanStarts
    <3>1. seen' \in [Devices -> Instants]
      BY <2>8, BehindType DEF ScanStarts
    <3>2. worker # "idle" => msg' \in Messages
      BY <2>8, BehindType DEF ScanStarts, Messages
    <3> QED
      BY <2>8, <3>1, <3>2 DEF ScanStarts, loopVars
  <2>9. CASE Select
    BY <2>9 DEF Select, Silent, NextPhase, storage, workerVars, loopVars
  <2>10. CASE MarkStale
    BY <2>10 DEF MarkStale, workerVars, loopVars
  <2>11. CASE ReRead
    BY <2>11 DEF ReRead, storage, workerVars, loopVars
  <2>12. CASE ScanFails
    BY <2>12 DEF ScanFails, Fails, workerVars, loopVars
  <2>13. CASE ReportStale
    BY <2>13 DEF ReportStale, Sleeps, Unknown, storage, workerVars
  <2>14. CASE ScanResumes
    BY <2>14 DEF ScanResumes, Sleeps, Unknown, storage, workerVars, loopVars
  <2>15. ASSUME NEW d \in Devices, RowAges(d) PROVE TypeOK'
    BY <2>15 DEF RowAges, Instants, workerVars, scanVars, loopVars
  <2>16. CASE MessageAges
    BY <2>16 DEF MessageAges, Messages, Instants, storage, scanVars, loopVars
  <2>17. CASE UNCHANGED vars
    BY <2>17 DEF vars, storage, workerVars, scanVars, loopVars
  <2> QED
    BY <2>1, <2>2, <2>3, <2>4, <2>5, <2>6, <2>7, <2>8, <2>9, <2>10, <2>11, <2>12,
       <2>13, <2>14, <2>15, <2>16, <2>17 DEF Next, Worker, Scan
<1> QED
  BY <1>1, <1>2, PTL DEF Spec

-----------------------------------------------------------------------------
LEMMA InvStep == TypeOK /\ Inv /\ [Next]_vars => Inv'
<1> SUFFICES ASSUME TypeOK, Inv, [Next]_vars PROVE Inv'
  OBVIOUS
<1> DEFINE Goal == NothingSelected' /\ \A d \in Devices : d \notin raced' => Undisturbed(d)'
<1> SUFFICES Goal
  BY DEF Inv
<1> USE DEF TypeOK, Statuses, Inv, NothingSelected, Undisturbed, WorkerTrue, ScanTrue,
            Announced, Told, Busy
<1>1. CASE Take
  BY <1>1 DEF Take, storage, scanVars, loopVars
<1>2. CASE ReadRow
  BY <1>2 DEF ReadRow, storage, scanVars, loopVars
<1>3. CASE Commit
  <2>1. msg \in Messages /\ msg.device \in Devices
    BY <1>3 DEF Commit, Messages
  <2>2. msg.device \notin raced => status'[msg.device] = Says(msg)
    BY <1>3, <2>1 DEF Commit, Upsert
  <2>3. \A d \in Devices : d # msg.device => status'[d] = status[d]
    BY <1>3 DEF Commit, Upsert
  <2> QED
    BY <1>3, <2>1, <2>2, <2>3 DEF Commit, scanVars, loopVars
<1>4. CASE RollBack
  BY <1>4 DEF RollBack, Done, storage, scanVars, loopVars
<1>5. CASE Withhold
  BY <1>5 DEF Withhold, Done, scanVars, loopVars
<1>6. CASE CommitUnheard
  <2>1. \A d \in Devices : d # msg.device => status'[d] = status[d]
    BY <1>6 DEF CommitUnheard, Upsert
  <2> QED
    BY <1>6, <2>1 DEF CommitUnheard, Done, scanVars, loopVars
<1>7. CASE Report
  <2>1. msg \in Messages /\ Says(msg) \in {"online", "offline"} /\ msg.device \in Devices
    BY <1>7, SaysType DEF Report, Messages
  <2>2. /\ tracker'[msg.device] = Says(msg)
        /\ \A d \in Devices : d # msg.device =>
              tracker'[d] = tracker[d] /\ shown'[d] = shown[d]
    BY <1>7, <2>1 DEF Report, Record
  <2> QED
    BY <1>7, <2>1, <2>2 DEF Report, Done, storage, scanVars
<1>8. CASE ScanStarts
  <2>1. worker # "idle" =>
          /\ msg \in Messages
          /\ msg'.device = msg.device /\ msg'.kind = msg.kind
    BY <1>8 DEF ScanStarts, Messages
  <2> QED
    BY <1>8, <2>1 DEF ScanStarts, Says, loopVars
<1>9. CASE Select
  BY <1>9 DEF Select, Silent, NextPhase, storage, workerVars, loopVars
<1>10. CASE MarkStale
  BY <1>10 DEF MarkStale, workerVars, loopVars
<1>11. CASE ReRead
  BY <1>11 DEF ReRead, storage, workerVars, loopVars
<1>12. CASE ScanFails
  BY <1>12 DEF ScanFails, workerVars, loopVars
<1>13. CASE ReportStale
  BY <1>13 DEF ReportStale, Sleeps, storage, workerVars
<1>14. CASE ScanResumes
  BY <1>14 DEF ScanResumes, Sleeps, storage, workerVars, loopVars
<1>15. ASSUME NEW d \in Devices, RowAges(d) PROVE Goal
  BY <1>15 DEF RowAges, workerVars, scanVars, loopVars
<1>16. CASE MessageAges
  <2>1. msg \in Messages /\ msg'.device = msg.device /\ msg'.kind = msg.kind
    BY <1>16 DEF MessageAges, Messages
  <2> QED
    BY <1>16, <2>1 DEF MessageAges, Says, storage, scanVars, loopVars
<1>17. CASE UNCHANGED vars
  BY <1>17 DEF vars, storage, workerVars, scanVars, loopVars
<1> QED
  BY <1>1, <1>2, <1>3, <1>4, <1>5, <1>6, <1>7, <1>8, <1>9, <1>10, <1>11, <1>12,
     <1>13, <1>14, <1>15, <1>16, <1>17 DEF Next, Worker, Scan

\* The tracker, the row and the subscribers agree about every device with
\* nothing in flight whose two writers have never overlapped and whose commits
\* were all reported.
THEOREM StatusAgrees == Spec => []Agreed
<1>1. Init => Inv
  BY DEF Init, Inv, NothingSelected, Undisturbed, WorkerTrue, ScanTrue, Announced, Told,
         Busy, Unknown
<1>2. Inv => Agreed
  BY DEF Inv, Undisturbed, Announced, Told, Agreed, Settled
<1> QED
  BY <1>1, <1>2, InvStep, StatusTyped, PTL DEF Spec
=============================================================================
