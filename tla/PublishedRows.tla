--------------------------- MODULE PublishedRows ---------------------------
(***************************************************************************)
(* What sync promises readers, without files, locks or calls: each dataset *)
(* has durable rows, some of which it shows.  Durable rows are replaced a  *)
(* month at a time and never removed; a transaction shows some of them and *)
(* settles slots that have no bar; a row that is shown stays as it is.     *)
(***************************************************************************)
CONSTANTS Keys, Months, Slots, MonthOf, Values, None

VARIABLES
  rows,    \* rows[k][s]: the durable row of slot s of dataset k, or None
  shown,   \* shown[k]: the slots a scan returns
  absent,  \* absent[k]: the slots known to have no bar
  open     \* there is a catalog

pubVars == <<rows, shown, absent, open>>

Durable(k) == {s \in Slots : rows[k][s] # None}

PubInit ==
  /\ rows = [k \in Keys |-> [s \in Slots |-> None]]
  /\ shown = [k \in Keys |-> {}]
  /\ absent = [k \in Keys |-> {}]
  /\ open = FALSE

\* One month of one dataset gets new rows; what is shown is untouched.
Replace(k, m) ==
  /\ open
  /\ \E new \in [Slots -> Values \cup {None}] :
       /\ rows' = [rows EXCEPT ![k] = new]
       /\ \A s \in Slots : MonthOf[s] # m \/ s \in shown[k] => new[s] = rows[k][s]
       /\ \A s \in Durable(k) : new[s] # None
  /\ UNCHANGED <<shown, absent, open>>

\* One transaction shows durable rows and settles slots without one.
Reveal(k) ==
  /\ open
  /\ \E more \in SUBSET Durable(k), none \in SUBSET (Slots \ shown[k]) :
       /\ more \cap none = {}
       /\ shown' = [shown EXCEPT ![k] = @ \cup more]
       /\ absent' = [absent EXCEPT ![k] = (@ \cup none) \ more]
  /\ UNCHANGED <<rows, open>>

\* The first call over an empty store creates the catalog.
Create ==
  /\ ~open
  /\ \A k \in Keys : Durable(k) = {}
  /\ open' = TRUE
  /\ UNCHANGED <<rows, shown, absent>>

PubNext ==
  \/ \E k \in Keys : Reveal(k) \/ \E m \in Months : Replace(k, m)
  \/ Create

PubSpec == PubInit /\ [][PubNext]_pubVars
=============================================================================
