----------------------------- MODULE Preparation -----------------------------
(***************************************************************************)
(* How the anomaly pipeline cuts stored readings into windows: the one     *)
(* contiguity rule, the offline preparation of a dataset, the windows and  *)
(* verdicts taken from it, the audit of a database and the split of a      *)
(* dataset into a training and a calibration side.  Pure: no variables.    *)
(*                                                                         *)
(* A reading is a record with an id, a device, a boot, a seq and the time  *)
(* at which it was received, in units of the time tolerance's grain.  A    *)
(* dataset is a set of readings, as a table is; a list is what its rows    *)
(* make in the order of time.                                              *)
(* sensor_status is left out: the table's CHECK admits "ok" alone, and so  *)
(* are values that are not finite, which the validation refuses.           *)
(***************************************************************************)
EXTENDS Integers, Sequences, FiniteSets, SequencesExt, FiniteSetsExt

CONSTANTS
    Window,          \* features.WINDOW, 30 in the code
    Stride,          \* expected_seq_stride of the artifact or manifest
    Tolerance,       \* cadence_seconds * GAP_TOLERANCE_FACTOR
    SplitNum, SplitDen   \* train_fraction, 8/10 in the code

\* The constants are in the ranges the code admits: two rows make the
\* smallest window with a difference in it, and check_stride bounds a stride.
ASSUME PreparationAssumption ==
    /\ Window \in Nat \ {0, 1}
    /\ Stride \in Nat \ {0}
    /\ Tolerance \in Nat \ {0}
    /\ SplitNum \in Nat \ {0} /\ SplitDen \in Nat \ {0} /\ SplitNum < SplitDen

IsContiguousBy(stride, previous, current) ==
    /\ current.boot = previous.boot
    /\ current.seq - previous.seq \in 1 .. stride
    /\ current.at - previous.at \in 1 .. Tolerance

\* The rule under the stride the artifact or the manifest names.
IsContiguous(previous, current) == IsContiguousBy(Stride, previous, current)

Earlier(a, b) == a.at < b.at \/ (a.at = b.at /\ a.id < b.id)

\* The rows of a dataset, oldest first: n - 1 rows are earlier than row n.
InOrder(rows) ==
    LET place(row) == Cardinality({other \in rows : Earlier(other, row)}) + 1
    IN [n \in 1 .. Cardinality(rows) |-> CHOOSE row \in rows : place(row) = n]

\* Of the rows with one id the earliest is kept.
Deduped(rows) == {row \in rows : \A other \in rows : other.id = row.id => ~Earlier(other, row)}

\* Where a segment begins: at the first row, and at one its predecessor does
\* not continue.
Starts(list) == {n \in DOMAIN list : n = 1 \/ ~IsContiguous(list[n - 1], list[n])}

\* Where the segment that begins at n ends: before the next one begins.
EndOf(list, n) == Max({m \in n .. Len(list) : Starts(list) \cap (n + 1 .. m) = {}})

Cut(list) == {SubSeq(list, n, EndOf(list, n)) : n \in Starts(list)}

\* What prepare() raises on: it fits one device under one calibration.
Refuses(rows) ==
    Cardinality({row.device : row \in rows}) > 1 \/ Cardinality({row.regime : row \in rows}) > 1

\* MUTANT: a segment one row short of a window is kept.
PrepareShort(rows) == {segment \in Cut(InOrder(Deduped(rows))) : Len(segment) >= Window - 1}

Prepare(rows) == {segment \in Cut(InOrder(Deduped(rows))) : Len(segment) >= Window}

OfDevice(rows, device) == {row \in rows : row.device = device}

RowsOf(segments) == UNION {ToSet(segment) : segment \in segments}

\* Segments have no row in common.
Kept(segments) == Cardinality(RowsOf(segments))

\* Every stretch of that many rows in a list.
Stretches(list, size) ==
    {SubSeq(list, first, first + size - 1) : first \in 1 .. (Len(list) - size + 1)}

\* Every complete trailing window of a segment.
SegmentMatrix(segment) == Stretches(segment, Window)

BuildMatrix(segments) == UNION {SegmentMatrix(segment) : segment \in segments}

\* A flag wherever that many windows above the threshold end.
Suppress(above, consecutive) ==
    [i \in DOMAIN above |->
        i >= consecutive /\ \A j \in (i - consecutive + 1) .. i : above[j]]

\* The audit of a database knows no manifest: it always takes the stride of
\* this build (EXPECTED_SEQ_STRIDE).
AuditStride == 2

\* It pairs neighbours of the table in order: the rows that share a segment
\* with row i lie between the same cuts.
AuditSegment(list, i) ==
    LET cuts == {k \in 2 .. Len(list) : ~IsContiguousBy(AuditStride, list[k - 1], list[k])}
    IN {j \in DOMAIN list : \A k \in cuts : (k <= i) <=> (k <= j)}

\* It reports how many rows lie in segments of at least one window.
AuditUsable(list) == Cardinality({i \in DOMAIN list : Cardinality(AuditSegment(list, i)) >= Window})

\* The rows before and after the split, in time order.
TimeSplit(rows) ==
    LET ordered == InOrder(rows)
        cut == (Len(ordered) * SplitNum) \div SplitDen
    IN [train |-> ToSet(SubSeq(ordered, 1, cut)),
        calibration |-> ToSet(SubSeq(ordered, cut + 1, Len(ordered)))]

\* The two matrices a training run is fitted and calibrated on: the kept rows
\* are merged, split in time and prepared again on each side.
TrainingMatrices(rows) ==
    LET split == TimeSplit(RowsOf(Prepare(rows)))
    IN [train |-> BuildMatrix(Prepare(split.train)),
        calibration |-> BuildMatrix(Prepare(split.calibration))]

\* How many windows the gate expects of that many rows.
ApproximateWindows(n) == IF n >= Window THEN n - Window + 1 ELSE 0

\* What the gate expects of each side, from the number of kept rows alone.
GateWindows(rows) ==
    LET usable == Kept(Prepare(rows))
        trainRows == (usable * SplitNum) \div SplitDen
    IN [train |-> ApproximateWindows(trainRows),
        calibration |-> ApproximateWindows(usable - trainRows)]
===============================================================================
