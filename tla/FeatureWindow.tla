---------------------------- MODULE FeatureWindow ----------------------------
(***************************************************************************)
(* The online adapter of the anomaly model: a deque of the newest readings *)
(* of the artifact's device, and a count of consecutive windows above the  *)
(* threshold.  Both live in memory; the readings themselves are committed  *)
(* before the adapter sees them, one at a time, in the order of their ids. *)
(*                                                                         *)
(* The same rows are what the model is trained and evaluated on offline    *)
(* (Preparation).  Online and offline work differs in what is lost.  A     *)
(* restart empties the deque.  And a stored reading may never be evaluated:*)
(* after a crash between the commit and the evaluation, or after a commit  *)
(* whose session fails to close, the delivery is withheld and its          *)
(* redelivery is a duplicate, which goes no further.  In the second case   *)
(* the process lives on with its deque, which then joins the readings on   *)
(* both sides of the missing one if the stride allows it.                  *)
(*                                                                         *)
(* An engine that raises is left out: evaluate() is written not to.        *)
(* The receive times come from one wall clock and do not step back here.   *)
(***************************************************************************)
EXTENDS Preparation

CONSTANTS
    Owner,           \* the device of the artifact
    Readings,        \* what devices publish: device, boot, seq and load
    Gaps,            \* times that may pass between two readings
    Consecutive,     \* windows above the threshold before a verdict
    Extreme(_),      \* is the score of a window at or above the threshold?
    MaxRows,         \* bound: readings stored
    MaxRestarts,     \* bound: restarts and crashes
    MaxUnseen        \* bound: unevaluated rows up to which a session may fail to close

ASSUME WindowAssumption ==
    Gaps \subseteq Nat /\ MaxRestarts \in Nat /\ MaxUnseen \in Nat /\ Consecutive \in Nat \ {0}

VARIABLES
    stored,     \* the telemetry table, oldest row first
    window,     \* the deque of the owner
    runs,       \* consecutive windows above the threshold
    scored,     \* history: every window that was scored
    verdicts,   \* history: ids of the readings a verdict was given about
    unseen,     \* history: ids of stored rows that were never evaluated
    cuts,       \* history: a window over rows n and n + 1 was lost, for each n here
    restarts    \* restarts so far

adapter == <<window, runs, scored, verdicts>>
windowVars == <<stored, adapter, unseen, cuts, restarts>>

Rows == [id : Nat, device : {r.device : r \in Readings}, boot : {r.boot : r \in Readings},
         seq : {r.seq : r \in Readings}, load : {r.load : r \in Readings},
         at : Nat, regime : {"none"}]

WindowTypeOK ==
    /\ stored \in Seq(Rows)
    /\ window \in Seq(Rows)
    /\ runs \in Nat
    /\ scored \subseteq Seq(Rows)
    /\ verdicts \subseteq Nat
    /\ unseen \subseteq Nat
    /\ cuts \subseteq Nat
    /\ restarts \in 0 .. MaxRestarts

WindowInit ==
    /\ stored = <<>>
    /\ window = <<>>
    /\ runs = 0
    /\ scored = {}
    /\ verdicts = {}
    /\ unseen = {}
    /\ cuts = {}
    /\ restarts = 0

Now == IF stored = <<>> THEN 0 ELSE Last(stored).at

RowOf(reading, gap) ==
    [id |-> Len(stored) + 1, device |-> reading.device, boot |-> reading.boot,
     seq |-> reading.seq, load |-> reading.load, at |-> Now + gap, regime |-> "none"]

\* The unique key is the authority: a known reading is a duplicate, which is
\* acknowledged and goes no further.
IsNew(reading) ==
    \A i \in DOMAIN stored :
        <<stored[i].device, stored[i].boot, stored[i].seq>>
            # <<reading.device, reading.boot, reading.seq>>

Stores(row) == Len(stored) < MaxRows /\ stored' = Append(stored, row)

\* May the row extend the window?
Joins(row) == window = <<>> \/ IsContiguous(Last(window), row)

\* A deque with maxlen Window.
Pushed(row) ==
    LET grown == IF Joins(row) THEN Append(window, row) ELSE <<row>>
    IN IF Len(grown) > Window THEN Tail(grown) ELSE grown

\* MUTANT: the run of high windows survives a window that was thrown away.
RunOfThroughGaps(row, full, high) ==
    IF ~full THEN runs ELSE IF high THEN runs + 1 ELSE 0

RunOf(row, full, high) ==
    LET kept == IF Joins(row) THEN runs ELSE 0
    IN IF ~full THEN kept ELSE IF high THEN kept + 1 ELSE 0

\* MUTANT: a reboot or a hole does not invalidate the window.
ScoreThroughGaps(row) ==
    LET grown == Append(window, row)
        next == IF Len(grown) > Window THEN Tail(grown) ELSE grown
        full == Len(next) = Window
        run == RunOf(row, full, Extreme(next))
    IN /\ window' = next
       /\ runs' = run
       /\ scored' = IF full THEN scored \cup {next} ELSE scored
       /\ verdicts' = IF full /\ run >= Consecutive THEN verdicts \cup {row.id} ELSE verdicts

\* evaluate() of a reading of the owner.
Score(row) ==
    LET next == Pushed(row)
        full == Len(next) = Window
        run == RunOf(row, full, Extreme(next))
    IN /\ window' = next
       /\ runs' = run
       /\ scored' = IF full THEN scored \cup {next} ELSE scored
       /\ verdicts' = IF full /\ run >= Consecutive THEN verdicts \cup {row.id} ELSE verdicts

\* A reading is committed and evaluated.  One of another device leaves no
\* trace in the window of the owner.
Ingest(reading, gap) ==
    LET row == RowOf(reading, gap)
    IN /\ IsNew(reading)
       /\ Stores(row)
       /\ IF reading.device = Owner THEN Score(row) ELSE UNCHANGED adapter
       /\ UNCHANGED <<unseen, cuts, restarts>>

\* The commit succeeds and the session fails to close: the delivery is withheld
\* as after any storage failure, and the redelivery will be a duplicate.  The
\* reading is stored, and the adapter never hears of it.
StoreUnevaluated(reading, gap) ==
    /\ Cardinality(unseen) < MaxUnseen
    /\ IsNew(reading)
    /\ Stores(RowOf(reading, gap))
    /\ unseen' = unseen \cup {RowOf(reading, gap).id}
    /\ UNCHANGED <<adapter, cuts, restarts>>

\* A new process starts with an empty window.
Forgets ==
    /\ restarts < MaxRestarts
    /\ restarts' = restarts + 1
    /\ window' = <<>>
    /\ runs' = 0
    /\ UNCHANGED <<scored, verdicts>>

\* A restart between two readings.
Restart ==
    /\ Forgets
    /\ cuts' = cuts \cup {Len(stored)}
    /\ UNCHANGED <<stored, unseen>>

\* A crash after the commit of a reading and before its evaluation.
CrashUnevaluated(reading, gap) ==
    /\ IsNew(reading)
    /\ Stores(RowOf(reading, gap))
    /\ Forgets
    /\ unseen' = unseen \cup {RowOf(reading, gap).id}
    /\ cuts' = cuts \cup {Len(stored)}

WindowNext ==
    \/ \E reading \in Readings, gap \in Gaps :
          \/ Ingest(reading, gap)
          \/ StoreUnevaluated(reading, gap)
          \/ CrashUnevaluated(reading, gap)
    \/ Restart

WindowSpec == WindowInit /\ [][WindowNext]_windowVars

-------------------------------------------------------------------------------
(* Properties *)

Contiguous(rows) == \A i \in 1 .. Len(rows) - 1 : IsContiguous(rows[i], rows[i + 1])

\* A vector means something only if its readings are one contiguous stretch of
\* one device: the window and every window scored from it are contiguous runs
\* of the owner's readings, never longer than Window, and those scored exactly
\* that long.  (adapter.py:180, features.py:50.)
WindowSound ==
    /\ Len(window) <= Window
    /\ \A w \in scored \cup {window} :
          Contiguous(w) /\ \A i \in DOMAIN w : w[i].device = Owner
    /\ \A w \in scored : Len(w) = Window

\* The owner's rows in the table, and those of them the adapter was given.
Captured == OfDevice(ToSet(stored), Owner)
Evaluated == {row \in Captured : row.id \notin unseen}

OfflineSegments == Prepare(Captured)
OnlineSegments == Prepare(Evaluated)

\* No restart fell between the first and the last row of the stretch.
Undivided(stretch) == \A n \in cuts : ~ (stretch[1].id <= n /\ n < Last(stretch).id)

\* The adapter was given every row of the owner from the first to the last.
Intact(stretch) ==
    \A row \in Captured : stretch[1].id <= row.id /\ row.id <= Last(stretch).id => row.id \notin unseen

\* The windows scored online are exactly the windows offline preparation cuts
\* from the rows that were evaluated, except those a restart divided.  Of the
\* stored rows they are exactly the offline windows too, wherever no stored row
\* went unevaluated: nothing is scored that training would not have seen, and
\* nothing is passed over.  (preprocess.py:86 "a window the model was trained
\* on and a window it is asked to score are cut the same way".)
SameWindows ==
    /\ scored = {w \in BuildMatrix(OnlineSegments) : Undivided(w)}
    /\ {w \in scored : Intact(w)}
         = {w \in BuildMatrix(OfflineSegments) : Undivided(w) /\ Intact(w)}

\* Every window of the stretch is high.
Sustained(stretch) == \A w \in SegmentMatrix(stretch) : Extreme(w)

\* The stretches of segments just long enough for a verdict.
Verdictable(segments) ==
    UNION {Stretches(segment, Window + Consecutive - 1) : segment \in segments}

\* What the offline evaluation flags: it goes through the windows in the order
\* of the readings they are about and counts across the segments it concatenates.
Flagged(windows) ==
    LET anchors == InOrder({Last(w) : w \in windows})
        flags == Suppress([i \in DOMAIN anchors |->
                              \E w \in windows : Last(w) = anchors[i] /\ Extreme(w)], Consecutive)
    IN {anchors[i].id : i \in {j \in DOMAIN anchors : flags[j]}}

\* The readings a verdict is given about online are exactly those that end a
\* run of high windows inside one contiguous stretch of the evaluated rows, a
\* stretch no restart divided.  The offline evaluation (model.py:86) of those
\* rows flags all of them and perhaps others (adapter.py:196 starts again at
\* every gap).  And a run of high windows in the stored rows that nothing
\* divided and no unevaluated row interrupts gets its verdict online and its
\* flag offline.
VerdictReproduced ==
    /\ verdicts = {Last(stretch).id : stretch \in
                      {s \in Verdictable(OnlineSegments) : Sustained(s) /\ Undivided(s)}}
    /\ verdicts \subseteq Flagged(BuildMatrix(OnlineSegments))
    /\ \A s \in Verdictable(OfflineSegments) :
          Sustained(s) /\ Undivided(s) /\ Intact(s) =>
             Last(s).id \in verdicts \cap Flagged(BuildMatrix(OfflineSegments))

\* What the gate and the audit tell of a dataset from a count of its rows.  The
\* gate expects windows on a side of the split exactly if training gets one
\* there, so a dataset it passes for its windows does not fail at fit time,
\* and one it blocks for having none would have failed.  How many it expects
\* is exact on one unbroken segment and never too few; of fragments it may
\* expect more than training gets.  The audit calls usable exactly the rows
\* preparation keeps if both go by one stride, no fewer if the audit's is the
\* larger and no more if it is the smaller.
\* (gate.py:207, gate.py:231, sqlite_source.py:224.)
GateAndAuditAgree ==
    LET expected == GateWindows(Captured)
        fitted == TrainingMatrices(Captured)
        audited == AuditUsable(InOrder(Captured))
    IN /\ fitted.train # {} <=> expected.train > 0
       /\ fitted.calibration # {} <=> expected.calibration > 0
       /\ Cardinality(fitted.train) <= expected.train
       /\ Cardinality(fitted.calibration) <= expected.calibration
       /\ Cardinality(OfflineSegments) = 1 =>
             /\ Cardinality(fitted.train) = expected.train
             /\ Cardinality(fitted.calibration) = expected.calibration
       /\ Stride <= AuditStride => Kept(OfflineSegments) <= audited
       /\ Stride >= AuditStride => Kept(OfflineSegments) >= audited
===============================================================================
