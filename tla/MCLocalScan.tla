----------------------------- MODULE MCLocalScan -----------------------------
(* Small instances of LocalScan. *)
EXTENDS LocalScan, TLC

CONSTANTS p1, k1, m1, m2, v1, x, y

\* The last bar starts in month m2, the others in month m1.
MCMonthOf == [s \in Slots |-> IF s + 1 \in Slots THEN m1 ELSE m2]

MCAllBars == [v \in Providers |-> Slots]

\* Callers and readers ask for everything.
MCWhole == {Slots}

\* Values are only compared.
ValueSymmetry == Permutations(Values)
=============================================================================
