------------------------- MODULE BackfillInvariant -------------------------
(***************************************************************************)
(* Why coverage and files agree: what holds in every reachable state of    *)
(* Backfill and follows from one state to the next.  DataInv, CallInv and  *)
(* BackedInv need each other: a call's bounds hold only because the gaps   *)
(* it fetches end where bars do, and they do because coverage, which they  *)
(* are cut from, never splits a bar.                                       *)
(***************************************************************************)
EXTENDS Backfill

(* The sets that segments, windows and gaps are members of.                *)
Span == {s \in [lo : Nat, hi : Nat] : s.lo < s.hi}
Fact == {s \in [lo : Nat, hi : Nat, status : Statuses] : s.lo < s.hi}
Gap  == {s \in [lo : Nat, hi : Nat, status : Statuses \cup {"missing"}] : s.lo < s.hi}
Fetch == {w \in [lo : Nat, hi : Nat, gaps : Seq(Gap)] :
            /\ w.gaps # <<>>
            /\ w.lo = w.gaps[1].lo /\ w.hi = Last(w.gaps).hi}

\* An interval of the sequence lies over the instant; one of that status.
Over(intervals, t) == \E i \in 1..Len(intervals) : t \in Instants(intervals[i])
Shows(segments, t, status) ==
  \E i \in 1..Len(segments) : t \in Instants(segments[i]) /\ segments[i].status = status

\* The gaps of a window lie in it; several of them in WindowBars bars.
Holds(w) == \A i \in 1..Len(w.gaps) : w.lo <= w.gaps[i].lo /\ w.gaps[i].hi <= w.hi
Narrow(b, w) == Len(w.gaps) > 1 => w.hi <= AdvanceBars(b, w.lo, WindowBars)
GapsOf(windows) == [i \in DOMAIN windows |-> windows[i].gaps]
AllGaps(windows) == FlattenSeq(GapsOf(windows))

-----------------------------------------------------------------------------
(* The venue, the catalog and the files.                                   *)

Instant == 0..Horizon

DataInv ==
  /\ route \in UsedRoutes /\ bar \in UsedBars
  /\ world \subseteq 0..(Horizon + 1)
  /\ ~IsFunding => \A t \in world : Aligned(bar, t)
  /\ coverage \in Seq(Fact) /\ Normal(coverage)
  /\ stored \subseteq world

\* Segments and rows prove each other, no bar is split, and no row is later
\* than every request.
Backs(segments, rows) ==
  /\ \A e \in rows : e < Horizon
  /\ IF IsFunding THEN \A e \in world : Shows(segments, e, "available") => e \in rows
     ELSE \A t \in Instant :
            /\ Shows(segments, t, "available") <=> Floor(bar, t) \in rows
            /\ Shows(segments, t, "unavailable") <=>
                 Shows(segments, Floor(bar, t), "unavailable")

BackedInv == Backs(coverage, stored) /\ Backs(call.facts, call.kept)

\* What is stated unavailable, the venue does not have.
True(segments) ==
  \A t \in Instant : Shows(segments, t, "unavailable") =>
                       ~IsFunding /\ Floor(bar, t) \notin world
TruthInv == True(coverage) /\ True(call.facts)

-----------------------------------------------------------------------------
(* The call.                                                               *)

\* What pages hold: rows of the venue, and rows off the grid.
PageRows == world \cup {t \in Strays : ~IsFunding /\ ~Aligned(bar, t)}

Calls ==
  [pc : {"idle", "paging", "probing", "exhausted", "fetched"},
   lo : Instant, hi : Instant, windows : Seq(Fetch), at : Nat,
   cursor : Instant, rows : Seq(PageRows), observed : Seq(Span),
   pages : 0..MaxPages, attempts : 0..MaxRetries,
   last : {NoTime} \cup world \cup Strays, facts : Seq(Fact), kept : SUBSET world]

\* The windows of a call are made of the missing time of its request.
WindowsInv ==
  ~At("idle") =>
    /\ call.lo < call.hi
    /\ ~IsFunding => Aligned(bar, call.lo) /\ Aligned(bar, call.hi)
    /\ AllGaps(call.windows) = MissingGaps(coverage, call.lo, call.hi)
    /\ \A i \in 1..Len(call.windows) :
         /\ Holds(call.windows[i]) /\ Narrow(bar, call.windows[i])
         /\ ~IsBars => Len(call.windows[i].gaps) = 1
    /\ call.at \in 1..Len(call.windows)

\* A page loop stays in its window and in its budget.
Looping == call.pc \in {"paging", "probing", "exhausted"}
LoopInv ==
  Looping =>
    /\ W.lo <= call.cursor /\ call.cursor <= W.hi
    /\ \A i \in 1..Len(call.rows) : call.rows[i] < W.hi
    /\ (call.pc # "exhausted" /\ route.kind \in {"generic", "reference", "oi"})
         => call.pages < MaxPages
    /\ At("probing") => route.kind = "generic"

\* Pages of the venues taken as exhaustive leave no row out.
PagesInv ==
  Looping =>
    /\ route.kind = "bounded" =>
         /\ \A t \in Instant : Over(call.observed, t) <=> W.lo <= t /\ t < call.cursor
         /\ \A e \in world : W.lo <= e /\ e < call.cursor => e \in ToSet(call.rows)
         /\ At("exhausted") => call.cursor = W.hi
    /\ IsFunding =>
         /\ \A i, j \in 1..Len(call.rows) : i < j => call.rows[i] < call.rows[j]
         /\ \A e \in world : W.lo <= e /\ e < call.cursor => e \in ToSet(call.rows)
         /\ \A e \in world : W.lo <= e /\ call.rows # <<>> /\ e <= Last(call.rows)
              => e \in ToSet(call.rows)
    /\ (At("exhausted") /\ route.kind = "binanceFunding") =>
         \A e \in world : W.lo <= e /\ e < W.hi => e \in ToSet(call.rows)

\* What windows already fetched from such a venue leave is known.
Done(i) == i < call.at \/ At("fetched")
DoneInv ==
  (~At("idle") /\ Exhaustive) =>
    \A i \in 1..Len(call.windows) : Done(i) =>
      \A t \in Instant : Over(call.windows[i].gaps, t) => Over(call.facts, t)

CallInv ==
  /\ call \in Calls
  /\ At("idle") => call = Idle
  /\ WindowsInv
  /\ LoopInv

SyncInv == DataInv /\ CallInv /\ BackedInv
WholeInv == SyncInv /\ PagesInv /\ TruthInv /\ DoneInv
=============================================================================
