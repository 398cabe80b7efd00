------------------------------ MODULE TimeGrid ------------------------------
(***************************************************************************)
(* The time-bar grids of a dataset.  Instants are natural numbers.  A      *)
(* fixed unit steps evenly from the epoch, a calendar unit from one of its *)
(* starts (Mondays, firsts of months) to the next, so its bars differ in   *)
(* length.                                                                 *)
(***************************************************************************)
EXTENDS Integers, FiniteSetsExt, SequencesExt

\* step: the length of a fixed bar, or 0; starts: where calendar bars start.
IsCalendar(bar) == bar.step = 0

\* Boundaries lie on instants, the first of them is 0, and there is one after
\* every instant up to the horizon.
IsGrid(bar, horizon) ==
  /\ bar \in [step : Nat, starts : SUBSET Nat]
  /\ IsCalendar(bar) => /\ 0 \in bar.starts
                        /\ \A t \in 0..horizon : \E b \in bar.starts : t < b

\* The latest boundary at or before t.
Floor(bar, t) ==
  IF IsCalendar(bar) THEN Max({b \in bar.starts : b <= t})
  ELSE (t \div bar.step) * bar.step

Aligned(bar, t) == Floor(bar, t) = t

\* One bar on from a boundary.
StepFrom(bar, b) ==
  IF IsCalendar(bar) THEN Min({c \in bar.starts : c > b}) ELSE b + bar.step

\* The earliest boundary after t, never t itself.
NextBoundary(bar, t) == StepFrom(bar, Floor(bar, t))

AdvanceBars(bar, t, n) ==
  LET at[k \in 0..n] == IF k = 0 THEN t ELSE NextBoundary(bar, at[k-1])
  IN  at[n]

\* The elements of a sequence that are in a set, in order.
Only(seq, set) ==
  LET Keep(kept, x) == IF x \in set THEN Append(kept, x) ELSE kept
  IN  FoldLeft(Keep, <<>>, seq)

\* A finite set of instants, in order.
Ascending(times) ==
  IF times = {} THEN <<>> ELSE Only([i \in 1..(Max(times) + 1) |-> i - 1], times)

\* The starts of the bars from the boundary lo to hi.
BarStarts(bar, lo, hi) == Ascending({b \in lo..(hi - 1) : Aligned(bar, b)})
=============================================================================
