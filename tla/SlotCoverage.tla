---------------------------- MODULE SlotCoverage ----------------------------
(***************************************************************************)
(* What coverage promises, instant by instant: it only ever states what is *)
(* true of the venue, and keeps what it has stated available.              *)
(***************************************************************************)

VARIABLES
  told,  \* told[t]: the status coverage gives instant t
  truth  \* truth[t]: the status an observer of the whole venue gives it

Init == told = [t \in DOMAIN truth |-> "missing"]

\* A sync tells the truth about some instants.
Learn == \A t \in DOMAIN told : told'[t] \in {told[t], truth[t]}

\* A rebuild forgets statuses other than those that rows keep.
Forget(kept) ==
  \A t \in DOMAIN told :
    told'[t] # told[t] => told'[t] = "missing" /\ told[t] \notin kept

Next(kept) == (Learn \/ Forget(kept)) /\ UNCHANGED truth
=============================================================================
