----------------------------- MODULE Intervals ------------------------------
(***************************************************************************)
(* Half-open intervals [lo, hi) of instants and the sequences of them that *)
(* coverage is stored and computed in: normalisation of stored segments,   *)
(* the gaps of a request, fetch windows, and what rows and windows prove.  *)
(***************************************************************************)
EXTENDS TimeGrid

CONSTANTS
  MonthFirsts,  \* the instants calendar months start at
  WindowBars    \* DEFAULT_COALESCE_WINDOW_BARS

ASSUME IntervalsAssumption ==
  /\ MonthFirsts \subseteq Nat
  /\ WindowBars \in Nat \ {0}

Window(lo, hi) == [lo |-> lo, hi |-> hi]
Segment(lo, hi, status) == [lo |-> lo, hi |-> hi, status |-> status]
Instants(i) == i.lo .. (i.hi - 1)

Larger(a, b)  == IF a < b THEN b ELSE a
Smaller(a, b) == IF a < b THEN a ELSE b

-----------------------------------------------------------------------------
(* Stored coverage.                                                        *)

\* Neighbours that touch and agree become one.
JoinsNever(l, r) == FALSE
Joins(l, r) == l.hi = r.lo /\ l.status = r.status
CoalesceAcrossHoles(segments) ==
  FoldLeft(LAMBDA merged, s :
             IF merged # <<>> /\ Last(merged).status = s.status
             THEN Append(Front(merged), Segment(Last(merged).lo, s.hi, s.status))
             ELSE Append(merged, s),
           <<>>, segments)
Joined(merged, s) ==
  IF merged # <<>> /\ Joins(Last(merged), s)
  THEN Append(Front(merged), Segment(Last(merged).lo, s.hi, s.status))
  ELSE Append(merged, s)
Coalesce(segments) == FoldLeft(Joined, <<>>, segments)

\* Sorted, disjoint, and no two neighbours that could be one.
Normal(segments) ==
  \A i \in 1..(Len(segments) - 1) :
    LET l == segments[i]  r == segments[i+1]
    IN  l.hi < r.lo \/ (l.hi = r.lo /\ l.status # r.status)

\* Where segments overlap, "available" takes precedence.
BestStatus(segments, lo, hi) ==
  LET over == {segments[i].status : i \in {j \in DOMAIN segments :
                 segments[j].lo <= lo /\ segments[j].hi >= hi}}
  IN  IF over = {} THEN "missing"
      ELSE IF "available" \in over THEN "available" ELSE "unavailable"

\* The pieces between neighbouring end points that some segment covers.
Elementary(segments) ==
  LET points == Ascending({s.lo : s \in ToSet(segments)} \cup {s.hi : s \in ToSet(segments)})
      pieces == [i \in 1..(Len(points) - 1) |->
                   Segment(points[i], points[i+1],
                           BestStatus(segments, points[i], points[i+1]))]
  IN  Only(pieces, {p \in ToSet(pieces) : p.status # "missing"})

NormalizeSegments(segments) ==
  IF Normal(segments) THEN segments ELSE Coalesce(Elementary(segments))

\* What stored segments say of one instant.
StatusAt(segments, t) ==
  IF \E i \in DOMAIN segments : t \in Instants(segments[i])
  THEN segments[CHOOSE i \in DOMAIN segments : t \in Instants(segments[i])].status
  ELSE "missing"

-----------------------------------------------------------------------------
(* Gaps and fetch windows.                                                 *)

\* covered_and_gaps: what of [lo, hi) is not available, in order.
Gaps(segments, lo, hi) ==
  LET normal == NormalizeSegments(segments)
      inside == Only(normal, {s \in ToSet(normal) : s.hi > lo /\ s.lo < hi})
      visit(seen, s) ==
        LET from == Larger(s.lo, lo)
            to   == Smaller(s.hi, hi)
            hole == IF from > seen.cursor
                    THEN <<Segment(seen.cursor, from, "missing")>> ELSE <<>>
            gap  == IF s.status = "available" THEN <<>>
                    ELSE <<Segment(from, to, s.status)>>
        IN  [gaps |-> seen.gaps \o hole \o gap, cursor |-> to]
      seen == FoldLeft(visit, [gaps |-> <<>>, cursor |-> lo], inside)
  IN  IF seen.cursor < hi
      THEN Append(seen.gaps, Segment(seen.cursor, hi, "missing")) ELSE seen.gaps

MissingGaps(segments, lo, hi) ==
  LET gaps == Gaps(segments, lo, hi)
  IN  Only(gaps, {g \in ToSet(gaps) : g.status = "missing"})

\* One provider request and the gaps it is made for.
FetchWindow(gaps) == [lo |-> gaps[1].lo, hi |-> Last(gaps).hi, gaps |-> gaps]

\* _coalesce_fetch_ranges: a gap joins the open window if it ends within
\* WindowBars bars of the window's start; one wider gap stays whole.
FitsAlways(bar, window, gap) == TRUE
Fits(bar, window, gap) == gap.hi <= AdvanceBars(bar, window.lo, WindowBars)

CoalesceFetchRanges(bar, gaps) ==
  LET Fetch(windows, gap) ==
        IF windows # <<>> /\ Fits(bar, Last(windows), gap)
        THEN Append(Front(windows), FetchWindow(Append(Last(windows).gaps, gap)))
        ELSE Append(windows, FetchWindow(<<gap>>))
  IN  FoldLeft(Fetch, <<>>, gaps)

\* The families fetch every gap by itself.
WindowPerGap(gaps) == [i \in DOMAIN gaps |-> FetchWindow(<<gaps[i]>>)]

-----------------------------------------------------------------------------
(* What rows and observed windows prove.                                   *)

\* Bars of [lo, hi), the first and the last clipped to it.
ClippedBarsUnfloored(bar, lo, hi, present) ==
  LET starts == BarStarts(bar, lo, hi)
  IN  [i \in DOMAIN starts |->
         Segment(starts[i], Smaller(hi, NextBoundary(bar, starts[i])),
                 IF starts[i] \in present THEN "available" ELSE "unavailable")]
ClippedBars(bar, lo, hi, present) ==
  LET starts == BarStarts(bar, Floor(bar, lo), hi)
  IN  [i \in DOMAIN starts |->
         Segment(Larger(lo, starts[i]), Smaller(hi, NextBoundary(bar, starts[i])),
                 IF starts[i] \in present THEN "available" ELSE "unavailable")]

BarSegments(bar, lo, hi, present) == Coalesce(ClippedBars(bar, lo, hi, present))

\* iter_month_slices: [lo, hi) cut where months start.
MonthSlices(lo, hi) ==
  LET cuts == Ascending({lo, hi} \cup {m \in MonthFirsts : lo < m /\ m < hi})
  IN  [i \in 1..(Len(cuts) - 1) |-> Window(cuts[i], cuts[i+1])]

\* evaluate_observation_coverage: inside observed windows a bar without a
\* row is unavailable; covered intervals come before the others.
ObservationSegments(bar, lo, hi, present, observed) ==
  LET inside == Only(observed, {w \in ToSet(observed) :
                                  Larger(lo, w.lo) < Smaller(hi, w.hi)})
      facts  == Coalesce(FlattenSeq([i \in DOMAIN inside |->
                  ClippedBars(bar, Larger(lo, inside[i].lo), Smaller(hi, inside[i].hi),
                              present)]))
  IN  Only(facts, {f \in ToSet(facts) : f.status = "available"})
        \o Only(facts, {f \in ToSet(facts) : f.status # "available"})

\* Rows alone prove their own bars; bars that touch are one window.
RowWindows(bar, rows) ==
  LET Extend(windows, t) ==
        IF windows # <<>> /\ Last(windows).hi = t
        THEN Append(Front(windows), Window(Last(windows).lo, NextBoundary(bar, t)))
        ELSE Append(windows, Window(t, NextBoundary(bar, t)))
  IN  FoldLeft(Extend, <<>>, rows)

\* _available_segments: the runs of consecutive rows of one month file.
AvailableSegments(bar, rows) ==
  LET runs == RowWindows(bar, rows)
  IN  [i \in DOMAIN runs |-> Segment(runs[i].lo, runs[i].hi, "available")]
=============================================================================
