------------------------------ MODULE Backfill ------------------------------
(***************************************************************************)
(* Syncing one dataset from a venue, seen as intervals of time: the gaps   *)
(* of a request become fetch windows, every window is paged (Paging), what *)
(* the pages prove becomes coverage and the rows in the gaps are stored.   *)
(* The venue has the rows of a fixed set; what it answers may be short,    *)
(* out of bounds or out of order.  Publication, locks and crashes are      *)
(* BarSync's and FamilySync's subject: here a call records all or nothing. *)
(***************************************************************************)
EXTENDS Paging

CONSTANTS
  Horizon,    \* requests end by this instant, venues one later
  Requests,   \* the ranges [lo, hi) a caller asks for, as pairs
  UsedRoutes, \* the venues' page loops
  UsedBars,   \* the datasets' grids
  Worlds,     \* what a venue may have: sets of instants
  Strays      \* instants a venue may make up off the grid

ASSUME BackfillAssumption ==
  /\ Horizon \in Nat
  /\ Requests \subseteq (0..Horizon) \X (0..Horizon)
  /\ UsedRoutes \subseteq Routes
  /\ \A b \in UsedBars : IsGrid(b, Horizon)
  /\ Worlds \subseteq SUBSET (0..(Horizon + 1))
  /\ Strays \subseteq 0..(Horizon + 1)

VARIABLES
  coverage,  \* the catalog's segments of the dataset
  stored     \* the timestamps of the rows in its month files

data == <<coverage, stored>>
fixed == <<route, bar, world>>
vars == <<route, bar, world, call, coverage, stored>>

Init ==
  /\ route \in UsedRoutes
  /\ bar \in UsedBars
  /\ \E w \in Worlds : world = IF IsFunding THEN w ELSE {Floor(bar, t) : t \in w}
  /\ call = Idle
  /\ coverage = <<>>
  /\ stored = {}

-----------------------------------------------------------------------------
(* The call.                                                               *)

\* Bars are fetched in windows over several gaps, other families by gap.
WindowsFor(gaps) ==
  IF IsBars THEN CoalesceFetchRanges(bar, gaps) ELSE WindowPerGap(gaps)

\* A request without a missing gap is answered from the store.
StartSync(lo, hi) ==
  /\ At("idle")
  /\ lo < hi
  /\ ~IsFunding => Aligned(bar, lo) /\ Aligned(bar, hi)
  /\ LET gaps == MissingGaps(coverage, lo, hi)
     IN  /\ gaps # <<>>
         /\ call' = Opened([Idle EXCEPT !.lo = lo, !.hi = hi,
                                        !.windows = WindowsFor(gaps)], 1)
  /\ UNCHANGED <<fixed, data>>

\* Every observed window, clipped to every gap and cut at months.
BarFacts(present) ==
  FlattenSeq([i \in DOMAIN Observed |->
    FlattenSeq([j \in DOMAIN W.gaps |->
      LET lo == Larger(Observed[i].lo, W.gaps[j].lo)
          hi == Smaller(Observed[i].hi, W.gaps[j].hi)
          slices == IF lo < hi THEN MonthSlices(lo, hi) ELSE <<>>
      IN  FlattenSeq([k \in DOMAIN slices |->
            BarSegments(bar, slices[k].lo, slices[k].hi, present)])])])

FundingFacts ==
  [i \in DOMAIN Observed |-> Segment(Observed[i].lo, Observed[i].hi, "available")]

FactsOf(present) ==
  IF IsBars THEN BarFacts(present)
  ELSE IF IsFunding THEN FundingFacts
  ELSE ObservationSegments(bar, W.lo, W.hi, present, Observed)

\* The observation of a window passed every check; rows that an earlier
\* sync stored between the gaps are dropped again.
FinishWindow ==
  /\ At("exhausted")
  /\ ValidObservation
  /\ LET present == ToSet(call.rows)
         done == [call EXCEPT !.facts = @ \o FactsOf(present),
                              !.kept = @ \cup {t \in present :
                                         \E g \in ToSet(W.gaps) : t \in Instants(g)}]
     IN  call' = IF call.at < Len(call.windows) THEN Opened(done, call.at + 1)
                 ELSE [done EXCEPT !.pc = "fetched"]
  /\ UNCHANGED <<fixed, data>>

\* apply_coverage_batch, in the transaction that indexes the new files.
Record ==
  /\ At("fetched")
  /\ coverage' = IF call.facts = <<>> THEN coverage
                 ELSE NormalizeSegments(coverage \o call.facts)
  /\ stored' = stored \cup call.kept
  /\ call' = Idle
  /\ UNCHANGED fixed

\* Any error ends the call: nothing of it has been recorded.
Stops ==
  /\ ~At("idle")
  /\ call' = Idle
  /\ UNCHANGED <<fixed, data>>

\* maintenance.rebuild, between calls: coverage is what files prove, month
\* by month; a funding file proves nothing of the time between its events.
Rebuild ==
  /\ At("idle")
  /\ LET slices == MonthSlices(0, Horizon)
         inSlice(s) == Ascending({t \in stored : t \in Instants(s)})
     IN  coverage' = IF IsFunding THEN <<>>
                     ELSE NormalizeSegments(FlattenSeq([i \in DOMAIN slices |->
                            AvailableSegments(bar, inSlice(slices[i]))]))
  /\ UNCHANGED <<fixed, call, stored>>

-----------------------------------------------------------------------------
(* The venue.                                                              *)

\* The first limit rows of [since, bound).
Honest(since, bound, limit) ==
  LET rows == Ascending({t \in world : since <= t /\ t < bound})
  IN  SubSeq(rows, 1, Smaller(limit, Len(rows)))

\* The venues whose answers are taken as exhaustive omit no row; a venue's
\* funding history may end early; others may leave out any row.
Exhaustive == route.kind \in {"bounded", "binanceFunding"}
Truthful(honest) ==
  IF Exhaustive THEN {honest}
  ELSE IF IsFunding THEN {SubSeq(honest, 1, n) : n \in 0..Len(honest)}
  ELSE {Ascending(rows) : rows \in SUBSET ToSet(honest)}

\* A row too early, too late or off the grid; since or the end ignored;
\* the newest row first.
Wild(since, bound, limit) ==
  LET honest == Honest(since, bound, limit)
      strays == {t \in world : t < since \/ t >= bound}
                  \cup {t \in Strays : ~IsFunding /\ ~Aligned(bar, t)}
  IN  {<<t>> \o honest : t \in strays} \cup {honest \o <<t>> : t \in strays}
        \cup {Honest(W.lo, bound, limit), Honest(since, Horizon + 2, limit + 1),
              Reverse(honest)}

Answers(since, bound, limit) ==
  Truthful(Honest(since, bound, limit)) \cup Wild(since, bound, limit)

BoundedAnswers ==
  LET accept == IF route.acceptEnd THEN 1 ELSE 0
      bars == Len(BarStarts(bar, call.cursor, PageEnd))
  IN  Answers(call.cursor, PageEnd + accept, Smaller(route.maxBars, bars + accept))

LatestRow == IF world = {} THEN <<>> ELSE <<Max(world)>>

\* Bars of unknown endpoints and reference bars are asked for without an end.
BoundedReply == \E page \in BoundedAnswers : BoundedPage(page)
GenericReply ==
  \E page \in Answers(call.cursor, Horizon + 2, GenericLimit) :
    (page = <<>> /\ GenericEmptyPage) \/ GenericPage(page)
ProbeReply == \E page \in {<<>>, LatestRow} : GenericProbe(page)
ReferenceReply ==
  \E page \in Answers(call.cursor, Horizon + 2, PageLimit) :
    (page = <<>> /\ ReferenceEmptyPage) \/ ReferencePage(page)
FundingReply == \E page \in Answers(call.cursor, W.hi, PageLimit) : FundingPage(page)
\* A start older than Binance keeps is refused: that is an empty page.
OpenInterestReply ==
  \E page \in Answers(call.cursor, W.hi, PageLimit) \cup {<<>>} : OpenInterestPage(page)

Page ==
  /\ \/ At("paging") /\ route.kind = "bounded" /\ BoundedReply
     \/ At("paging") /\ route.kind = "generic" /\ GenericReply
     \/ ProbeReply
     \/ At("paging") /\ route.kind = "reference" /\ ReferenceReply
     \/ At("paging") /\ IsFunding /\ FundingReply
     \/ At("paging") /\ route.kind = "oi" /\ OpenInterestReply
  /\ UNCHANGED <<fixed, data>>

Retry == TransientError /\ UNCHANGED <<fixed, data>>

CallStep == Stops \/ Page \/ Retry \/ FinishWindow \/ Record
Next == CallStep \/ Rebuild \/ \E r \in Requests : StartSync(r[1], r[2])

Spec == Init /\ [][Next]_vars

\* The caller's thread runs on: each reply, error or step is followed by
\* another.  Nothing makes a caller start a sync.
FairSpec == Spec /\ WF_vars(CallStep)

-----------------------------------------------------------------------------
(* Properties.                                                             *)

Statuses == {"available", "unavailable"}

\* The call's counters and sequences stay what the code's bounds make them:
\* no page is retried more than MaxRetries times (client.py, fetch_page).
BackfillTypeOK ==
  /\ route \in UsedRoutes /\ bar \in UsedBars
  /\ call.pc \in {"idle", "paging", "probing", "exhausted", "fetched"}
  /\ call.at \in 0..Len(call.windows)
  /\ call.attempts \in 0..MaxRetries
  /\ call.pages \in 0..MaxPages
  /\ call.cursor \in 0..Horizon
  /\ call.last \in {NoTime} \cup world \cup Strays
  /\ ToSet(call.rows) \subseteq world \cup Strays
  /\ stored \subseteq world
  /\ \A s \in ToSet(coverage) : s.lo < s.hi /\ s.status \in Statuses

\* After any sequence of syncs over overlapping ranges, in any venue, the
\* stored segments are sorted, disjoint and maximal: normalize_segments
\* trusts a sequence that looks so, and every reader trusts the catalog.
SegmentsCanonical ==
  \A i \in 1..(Len(coverage) - 1) :
    LET l == coverage[i]  r == coverage[i+1]
    IN  l.hi < r.lo \/ (l.hi = r.lo /\ l.status # r.status)

\* Coverage and files agree: a bar is available exactly if its row is
\* stored, whatever gaps, windows, pages and months it came through; and no
\* event of the venue is missing from funding history stated available.
RowsBacked ==
  IF IsFunding
  THEN \A e \in world : StatusAt(coverage, e) = "available" => e \in stored
  ELSE \A t \in 0..(Horizon - 1) :
         StatusAt(coverage, t) = "available" <=> Floor(bar, t) \in stored

\* The fetch windows of a call ask for exactly the missing time of its
\* request, each instant once and in order, and a window over several gaps
\* spans at most WindowBars bars (_coalesce_fetch_ranges).
WindowsExact ==
  LET gaps == FlattenSeq([i \in DOMAIN call.windows |-> call.windows[i].gaps])
  IN  ~At("idle") =>
        /\ \A t \in call.lo..(call.hi - 1) :
             StatusAt(coverage, t) = "missing"
               <=> Cardinality({i \in DOMAIN gaps : t \in Instants(gaps[i])}) = 1
        /\ \A i \in 1..(Len(gaps) - 1) : gaps[i].hi < gaps[i+1].lo
        /\ call.lo <= gaps[1].lo /\ Last(gaps).hi <= call.hi
        /\ \A w \in ToSet(call.windows) :
             Len(w.gaps) > 1 => w.hi <= AdvanceBars(bar, w.lo, WindowBars)

\* A sync that succeeds against a venue taken as exhaustive leaves nothing
\* of its request missing: empty pages, partial first and last bars and
\* bars cut by a month included.
SyncCloses ==
  [][ (Record /\ Exhaustive) =>
        \A t \in call.lo..(call.hi - 1) : StatusAt(coverage', t) # "missing" ]_vars

\* Coverage only ever states what an observer of the whole venue would, and
\* what it states available stays so, rebuilds included (funding excepted).
Told == [t \in 0..(Horizon - 1) |-> StatusAt(coverage, t)]
Truth == [t \in 0..(Horizon - 1) |->
            IF IsFunding \/ Floor(bar, t) \in world THEN "available" ELSE "unavailable"]
Kept == IF IsFunding THEN {} ELSE {"available"}
Slots == INSTANCE SlotCoverage WITH told <- Told, truth <- Truth
ImplementsSlotCoverage == Slots!Init /\ [][Slots!Next(Kept)]_<<Told, Truth>>

\* Whatever pages a venue answers, a call ends: every loop moves its cursor
\* or gives up (pagination.py, reference_pagination.py, oi_pagination.py,
\* funding_pagination.py).
CallsReturn == ~At("idle") ~> At("idle")
=============================================================================
