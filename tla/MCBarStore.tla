----------------------------- MODULE MCBarStore -----------------------------
(* Small instances of BarStore. *)
EXTENDS BarStore, TLC

CONSTANTS p1, p2, k1, m1, m2, v1, v2, x, y

\* The last bar starts in month m2, the others in month m1.
MCMonthOf == [s \in Slots |-> IF s + 1 \in Slots THEN m1 ELSE m2]

\* Every provider has every bar, or v2 does not have the last one.
MCAllBars == [v \in Providers |-> Slots]
MCRivals  == [v \in Providers |-> IF v = v2 THEN {s \in Slots : s + 1 \in Slots}
                                  ELSE Slots]

\* Callers ask for everything, or for one bar.
MCWhole  == {Slots}
MCSingle == {{s} : s \in Slots}

ProcSymmetry == Permutations(Procs)
=============================================================================
