------------------------------- MODULE Paging -------------------------------
(***************************************************************************)
(* The page loops of the CCXT provider: how one fetch window is requested  *)
(* page by page, which pages are accepted, when the loop ends and what the *)
(* pages prove was observed.  A page is the sequence of its timestamps;    *)
(* a page whose overlap contradicts an earlier row, or that cannot be read *)
(* as rows, ends the call like every rejected page (Stops, in Backfill).   *)
(***************************************************************************)
EXTENDS Intervals

CONSTANTS
  PageLimit,   \* rows a page is asked for (page_limit)
  MaxRetries,  \* retries of a transient error, per page
  MaxPages     \* page budget of a loop (max_pages, the funding call bound)

ASSUME PagingAssumption ==
  /\ PageLimit \in Nat \ {0}
  /\ MaxRetries \in Nat
  /\ MaxPages \in Nat \ {0}

VARIABLES
  route,  \* which page loop this dataset's venue needs, fixed
  bar,    \* the dataset's grid, fixed
  world,  \* the timestamps at which the venue has a row, fixed
  call    \* the sync in progress

\* maxBars: the profile's page size, or CCXT's advertised limit of an unknown
\* endpoint; maxSpan and acceptEnd: the rest of an ObservationProfile.
Kinds == {"bounded", "generic", "reference", "oi", "funding", "binanceFunding"}
Routes == [kind : Kinds, maxBars : Nat \ {0}, maxSpan : Nat \ {0}, acceptEnd : BOOLEAN]

IsBars    == route.kind \in {"bounded", "generic"}
IsFunding == route.kind \in {"funding", "binanceFunding"}

NoTime == -1
Idle == [pc |-> "idle", lo |-> 0, hi |-> 0, windows |-> <<>>, at |-> 0,
         cursor |-> 0, rows |-> <<>>, observed |-> <<>>, pages |-> 0,
         attempts |-> 0, last |-> NoTime, facts |-> <<>>, kept |-> {}]

At(pc) == call.pc = pc
W == call.windows[call.at]

\* The loop starts over with window i.
Opened(c, i) ==
  [c EXCEPT !.pc = "paging", !.at = i, !.cursor = c.windows[i].lo, !.rows = <<>>,
            !.observed = <<>>, !.pages = 0, !.attempts = 0, !.last = NoTime]

NonDecreasing(page) == \A i \in 1..(Len(page) - 1) : page[i] <= page[i+1]
Increasing(page)    == \A i \in 1..(Len(page) - 1) : page[i] < page[i+1]
Before(page, t)     == Only(page, {x \in ToSet(page) : x < t})
Merged(page)        == Ascending(ToSet(call.rows) \cup ToSet(page))

Turn(more) == IF more THEN "paging" ELSE "exhausted"

-----------------------------------------------------------------------------
(* Bars of a profiled endpoint: pages are windows of time, and an answered *)
(* page is evidence for its window, rows or not.                           *)

BoundedLimit == Smaller(PageLimit, route.maxBars)

\* _advance: as many bars as the page and the profile's span allow.
PageEnd ==
  LET after[k \in 0..BoundedLimit] ==
        IF k = 0 THEN call.cursor
        ELSE LET cursor == after[k-1]
                 next   == NextBoundary(bar, cursor)
             IN  IF cursor >= W.hi \/ next - call.cursor > route.maxSpan
                 THEN cursor ELSE next
  IN  Smaller(W.hi, after[BoundedLimit])

\* _validate_page; a venue known to send the candle at the end may do so.
WithinPage(page) ==
  /\ NonDecreasing(page)
  /\ \A t \in ToSet(page) :
       (call.cursor <= t /\ t < PageEnd) \/ (route.acceptEnd /\ t = PageEnd)

BoundedPageIfRows(page) ==
  /\ At("paging") /\ route.kind = "bounded"
  /\ PageEnd > call.cursor
  /\ WithinPage(page)
  /\ call' = IF page = <<>> THEN [call EXCEPT !.attempts = 0]
             ELSE [call EXCEPT !.rows = @ \o Before(page, PageEnd),
                               !.observed = Append(@, Window(call.cursor, PageEnd)),
                               !.cursor = PageEnd,
                               !.attempts = 0,
                               !.pc = Turn(PageEnd < W.hi)]
BoundedPage(page) ==
  /\ At("paging") /\ route.kind = "bounded"
  /\ PageEnd > call.cursor
  /\ WithinPage(page)
  /\ call' = [call EXCEPT !.rows = @ \o Before(page, PageEnd),
                          !.observed = Append(@, Window(call.cursor, PageEnd)),
                          !.cursor = PageEnd,
                          !.attempts = 0,
                          !.pc = Turn(PageEnd < W.hi)]

-----------------------------------------------------------------------------
(* Bars of an unknown endpoint: rows move the cursor, within a budget of   *)
(* pages, and only rows are evidence.                                      *)

GenericLimit == Smaller(PageLimit, route.maxBars)

RequestBars == Smaller(Len(BarStarts(bar, W.lo, W.hi)), MaxPages * GenericLimit)

\* Two pages more than the bars need.
PageBudget ==
  Smaller((RequestBars + GenericLimit - 1) \div GenericLimit + 2, MaxPages)

InBudget == call.pages + 1 < PageBudget

\* An empty first page may mean that the venue does not reach back as far.
GenericEmptyPage ==
  /\ At("paging") /\ route.kind = "generic"
  /\ call' = [call EXCEPT !.attempts = 0,
                          !.pc = IF call.pages = 0 THEN "probing" ELSE "exhausted"]

\* The venue's latest rows; paging goes on from the first in range.
GenericProbe(page) ==
  /\ At("probing")
  /\ NonDecreasing(page)
  /\ LET inRange == Only(page, {t \in ToSet(page) : W.lo <= t /\ t < W.hi})
     IN  call' = [call EXCEPT !.rows = Merged(inRange),
                              !.cursor = IF inRange = <<>> THEN @ ELSE inRange[1],
                              !.pages = @ + 1,
                              !.attempts = 0,
                              !.pc = Turn(inRange # <<>> /\ InBudget)]

\* Rows may repeat the last row of the page before, and nothing earlier.
HonorsSince(page) ==
  /\ NonDecreasing(page)
  /\ \A t \in ToSet(page) : t >= call.cursor \/ t = call.last

GenericPage(page) ==
  /\ At("paging") /\ route.kind = "generic"
  /\ page # <<>>
  /\ HonorsSince(page)
  /\ LET inRange == Before(page, W.hi)
         reachedEnd == inRange # page
         next == IF inRange = <<>> THEN call.cursor ELSE NextBoundary(bar, Last(inRange))
     IN  /\ inRange # <<>> => next > call.cursor
         /\ call' = [call EXCEPT !.rows = Merged(inRange),
                                 !.last = IF inRange = <<>> THEN @ ELSE Last(inRange),
                                 !.cursor = next,
                                 !.pages = @ + 1,
                                 !.attempts = 0,
                                 !.pc = Turn(~reachedEnd /\ next < W.hi /\ InBudget)]

-----------------------------------------------------------------------------
(* Reference bars: strictly ascending over all pages; only an empty page,  *)
(* a row at the end or the cursor at the end finishes the loop.            *)

ReferenceEmptyPage ==
  /\ At("paging") /\ route.kind = "reference"
  /\ call' = [call EXCEPT !.attempts = 0, !.pc = "exhausted"]

ReferencePage(page) ==
  /\ At("paging") /\ route.kind = "reference"
  /\ page # <<>>
  /\ Increasing(page)
  /\ page[1] > call.last /\ page[1] >= call.cursor
  /\ LET inRange == Before(page, W.hi)
         next == IF inRange = <<>> THEN call.cursor ELSE NextBoundary(bar, Last(inRange))
         more == inRange = page /\ next < W.hi
     IN  /\ \A t \in ToSet(inRange) : Aligned(bar, t)
         /\ more => call.pages + 1 < MaxPages
         /\ call' = [call EXCEPT !.rows = @ \o inRange,
                                 !.last = Last(page),
                                 !.cursor = next,
                                 !.pages = @ + 1,
                                 !.attempts = 0,
                                 !.pc = Turn(more)]

-----------------------------------------------------------------------------
(* Settled funding and open interest: the cursor moves just past the last  *)
(* row, rows may repeat, and a page shorter than asked for is the last.    *)

HonorsBounds(page) ==
  /\ NonDecreasing(page)
  /\ \A t \in ToSet(page) : W.lo <= t /\ t < W.hi

ShortPage(page) == Len(page) < PageLimit

Progress(page) == ~ShortPage(page) => Last(page) >= call.cursor

HistoryPage(page, more) ==
  /\ HonorsBounds(page)
  /\ Progress(page)
  /\ call' = [call EXCEPT !.rows = Merged(page),
                          !.cursor = IF ShortPage(page) THEN @ ELSE Last(page) + 1,
                          !.pages = @ + 1,
                          !.attempts = 0,
                          !.pc = Turn(more)]

FundingPage(page) ==
  /\ At("paging") /\ IsFunding
  /\ call.pages < MaxPages
  /\ HistoryPage(page, ~ShortPage(page) /\ Last(page) + 1 < W.hi)

\* The budget is checked before the cursor is: the last page it allows must
\* be a short one.
OpenInterestPage(page) ==
  /\ At("paging") /\ route.kind = "oi"
  /\ \A t \in ToSet(page) : Aligned(bar, t)
  /\ ~ShortPage(page) => call.pages + 1 < MaxPages
  /\ HistoryPage(page, ~ShortPage(page) /\ Last(page) + 1 < W.hi)

-----------------------------------------------------------------------------
(* Transport: a transient error is retried, a bounded number of times.     *)

MayAlwaysRetry == TRUE
MayRetry == call.attempts < MaxRetries

TransientError ==
  /\ At("paging") \/ At("probing")
  /\ MayRetry
  /\ call' = [call EXCEPT !.attempts = @ + 1]

-----------------------------------------------------------------------------
(* The observation of an exhausted loop.                                   *)

\* Binance's funding history is exhaustive; of other venues' a row proves
\* the time up to itself.
FundingObservedWhole == <<Window(W.lo, W.hi)>>
FundingObserved ==
  IF route.kind = "binanceFunding" THEN <<Window(W.lo, W.hi)>>
  ELSE IF call.rows = <<>> THEN <<>>
  ELSE <<Window(W.lo, Smaller(W.hi, Last(call.rows) + 1))>>

\* Of open interest and of unknown endpoints each row proves its own bar.
Observed ==
  CASE route.kind = "bounded" -> call.observed
    [] route.kind \in {"generic", "reference"} -> RowWindows(bar, call.rows)
    [] route.kind = "oi" ->
         [i \in DOMAIN call.rows |->
            Window(call.rows[i], NextBoundary(bar, call.rows[i]))]
    [] IsFunding -> FundingObserved

-----------------------------------------------------------------------------
(* What the runtimes and the quality checks let through.                   *)

\* Bars are sorted into a frame, other rows come in order.
Frame == IF IsBars THEN SortSeq(call.rows, <) ELSE call.rows

WindowsInside(windows) ==
  /\ \A i \in DOMAIN windows : W.lo <= windows[i].lo /\ windows[i].hi <= W.hi
  /\ \A i \in 1..(Len(windows) - 1) : windows[i].hi <= windows[i+1].lo

WindowsAligned(windows) ==
  \A i \in DOMAIN windows : Aligned(bar, windows[i].lo) /\ Aligned(bar, windows[i].hi)

RowsObserved(rows, windows) ==
  \A t \in ToSet(rows) : \E w \in ToSet(windows) : t \in Instants(w)

RowsOnGrid(rows) == \A t \in ToSet(rows) : Aligned(bar, t)

ValidOnGrid ==
  /\ RowsOnGrid(call.rows)
  /\ WindowsInside(Observed) /\ WindowsAligned(Observed)
  /\ RowsObserved(call.rows, Observed)
  /\ Increasing(Frame)

ValidFunding ==
  /\ WindowsInside(Observed)
  /\ RowsObserved(call.rows, Observed)
  /\ Increasing(Frame)

ValidObservation ==
  IF IsFunding THEN ValidFunding ELSE ValidOnGrid
=============================================================================
