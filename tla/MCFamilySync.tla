---------------------------- MODULE MCFamilySync ----------------------------
(* A small instance of FamilySync. *)
EXTENDS FamilyInvariant

CONSTANTS ccxt, archive, m1, m2, x, y

\* Two archive days and one more month: {0, 1} and {2} in m1, {3} in m2.
MCMonthOf == [s \in Slots |-> IF s = 3 THEN m2 ELSE m1]
MCDays == {{0, 1} \cap Slots, {2} \cap Slots, {3} \cap Slots} \ {{}}
MCRequests == {{0, 1}, {2, 3}}

\* Only the first slot is ever reported with a second value, and nobody has
\* anything at the second.
MCOffers == [s \in Slots |-> CASE s = 0 -> Values [] s = 1 -> {} [] OTHER -> {x}]
=============================================================================
