------------------------------ MODULE Backfill ------------------------------
(***************************************************************************)
(* Gaps in a series of candles: their detection (detect_gaps in            *)
(* data/gap_detector.py), the report of the validation of the same series  *)
(* (validate_candle_series in data/validation.py), and the chunks in which *)
(* a gap is requested again (plan_backfill_chunks), one step per pass of   *)
(* its loop.  A candle is its time stamp.                                  *)
(***************************************************************************)
EXTENDS Integers, Sequences, Selection

CONSTANTS
    Interval,    \* interval_ms
    MaxChunk,    \* max_chunk_size
    Series,      \* series of time stamps, sorted or not
    NoSeries

ASSUME BackfillAssumption ==
    /\ Interval \in Nat \ {0} /\ MaxChunk \in Nat \ {0}
    /\ Series \subseteq Seq(Nat) /\ NoSeries \notin Series

VARIABLES
    series,     \* the series that is looked at, or NoSeries
    gaps,       \* what detect_gaps returned: [start, end], both included
    report,     \* the ValidationReport of the series
    gap,        \* the gap whose chunks are planned, 0 before the first
    chunks,     \* its chunks so far
    cursor,     \* current_start
    planned     \* the chunks of the gaps that are done

fillVars == <<series, gaps, report, gap, chunks, cursor, planned>>

Span == [start : Int, end : Int]

NoReport == [valid |-> TRUE, duplicates |-> {}, gaps |-> <<>>]

\* The gap before the i-th candle.
GapBefore(s, i) == [start |-> s[i - 1] + Interval, end |-> s[i] - Interval]

\* detect_gaps
DetectedGaps(s) ==
    LET at == Where(s, {i \in 2..Len(s) : s[i] - s[i - 1] > Interval})
    IN  [n \in 1..Len(at) |-> GapBefore(s, at[n])]

\* Variant for mutation: equal neighbours are left to the check of duplicates,
\* which knows the candle before only.
ReportNeighbours(s) ==
    LET at == Where(s, {i \in 2..Len(s) : s[i] > s[i - 1] /\ s[i] - s[i - 1] > Interval})
        twice == {i \in 2..Len(s) : s[i] = s[i - 1]}
    IN  [valid |-> twice = {}, duplicates |-> {s[i] : i \in twice},
         gaps |-> [n \in 1..Len(at) |-> GapBefore(s, at[n])]]

\* validate_candle_series; the candles themselves are taken to be sound.
ReportOf(s) ==
    LET at == Where(s, {i \in 2..Len(s) : s[i] > s[i - 1] /\ s[i] - s[i - 1] > Interval})
        twice == {i \in 1..Len(s) : \E j \in 1..(i - 1) : s[j] = s[i]}
        back == {i \in 2..Len(s) : s[i] <= s[i - 1]}
    IN  [valid |-> twice = {} /\ back = {}, duplicates |-> {s[i] : i \in twice},
         gaps |-> [n \in 1..Len(at) |-> GapBefore(s, at[n])]]

-----------------------------------------------------------------------------

FillInit ==
    /\ series = NoSeries /\ gaps = <<>> /\ report = NoReport
    /\ gap = 0 /\ chunks = <<>> /\ cursor = 0 /\ planned = <<>>

(* A series is validated and its gaps are detected. *)
Inspect ==
    /\ series = NoSeries
    /\ series' \in Series
    /\ gaps' = DetectedGaps(series')
    /\ report' = ReportOf(series')
    /\ UNCHANGED <<gap, chunks, cursor, planned>>

GapDone == gap > 0 => cursor > gaps[gap].end

(* The next gap; one that ends before it starts has no chunks. *)
PlanGap ==
    /\ series # NoSeries /\ GapDone /\ gap < Len(gaps)
    /\ gap' = gap + 1
    /\ cursor' = gaps[gap + 1].start
    /\ chunks' = <<>>
    /\ planned' = planned \o chunks
    /\ UNCHANGED <<series, gaps, report>>

\* Variant for mutation: the end of a chunk is taken to be excluded.
ChunkEndLong(start, end) ==
    IF start + MaxChunk * Interval < end THEN start + MaxChunk * Interval ELSE end

ChunkEnd(start, end) ==
    IF start + MaxChunk * Interval - Interval < end
    THEN start + MaxChunk * Interval - Interval ELSE end

\* Variant for mutation: the interval is added twice.
NextStartSkips(end) == end + 2 * Interval

NextStart(end) == end + Interval

(* One pass of the loop. *)
PlanChunk ==
    /\ series # NoSeries /\ ~GapDone
    /\ LET end == ChunkEnd(cursor, gaps[gap].end) IN
       /\ chunks' = Append(chunks, [start |-> cursor, end |-> end])
       /\ cursor' = NextStart(end)
    /\ UNCHANGED <<series, gaps, report, gap, planned>>

FillDone ==
    /\ series # NoSeries /\ GapDone /\ gap = Len(gaps)
    /\ series' = NoSeries /\ gaps' = <<>> /\ report' = NoReport
    /\ gap' = 0 /\ chunks' = <<>> /\ cursor' = 0 /\ planned' = <<>>

FillNext == Inspect \/ PlanGap \/ PlanChunk \/ FillDone

FillSpec == FillInit /\ [][FillNext]_fillVars

-----------------------------------------------------------------------------
(* Properties *)

(* Gaps and chunks are ranges of time stamps. *)
FillTypeOK ==
    /\ series \in Series \cup {NoSeries}
    /\ gaps \in Seq(Span) /\ report.gaps \in Seq(Span)
    /\ gap \in 0..Len(gaps)
    /\ chunks \in Seq(Span) /\ planned \in Seq(Span)
    /\ cursor \in Int

(* The chunks of a gap are a tiling of it: they begin with the gap, each    *)
(* goes on one interval after the one before, none is longer than one       *)
(* request answers or reaches beyond the gap, and the last leaves no bar of *)
(* it over, also when the series is off the grid (gap_detector.py:33-51).   *)
ChunksTile ==
    gap > 0 =>
        /\ chunks = <<>> => cursor = gaps[gap].start
        /\ \A i \in 1..Len(chunks) :
              /\ chunks[i].start =
                    IF i = 1 THEN gaps[gap].start ELSE chunks[i - 1].end + Interval
              /\ chunks[i].start <= chunks[i].end /\ chunks[i].end <= gaps[gap].end
              /\ chunks[i].end - chunks[i].start <= (MaxChunk - 1) * Interval
        /\ GapDone /\ chunks # <<>> => gaps[gap].end - chunks[Len(chunks)].end < Interval

Stamps(s) == {s[i] : i \in 1..Len(s)}
Increasing(s) == \A i \in 2..Len(s) : s[i - 1] < s[i]
OnGrid(s) == \A i \in 2..Len(s) : (s[i] - s[1]) % Interval = 0

BarsOf(c) == {t \in c.start..c.end : (t - c.start) % Interval = 0}

\* How many chunks ask for a bar.
AskedBy(t) ==
    LET all == planned \o chunks
    IN  {i \in 1..Len(all) : t \in BarsOf(all[i])}

(* Nothing is lost between two snapshots: once the chunks of a sound series *)
(* are planned, every bar from its first to its last is either in it or     *)
(* asked for, exactly once (gap_detector.py:4).                             *)
BackfillCompletes ==
    /\ series # NoSeries /\ GapDone /\ gap = Len(gaps)
    /\ series # <<>> /\ Increasing(series) /\ OnGrid(series)
    => \A t \in {u \in series[1]..series[Len(series)] : (u - series[1]) % Interval = 0} :
          \/ t \in Stamps(series) /\ AskedBy(t) = {}
          \/ t \notin Stamps(series) /\ \E i \in 1..Len(planned \o chunks) : AskedBy(t) = {i}

(* The two detectors agree on every series, sound or not, and a series is   *)
(* reported as valid exactly when it is increasing: the separate checks of  *)
(* duplicates and of order add up to that (validation.py:97-111).           *)
DetectorsAgree ==
    series # NoSeries =>
        /\ report.gaps = gaps
        /\ report.valid <=> Increasing(series)

(* Gaps are found alike and requested whole, without an overlap.            *)
BackfillIsExact == ChunksTile /\ BackfillCompletes /\ DetectorsAgree

=============================================================================
