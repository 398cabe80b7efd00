----------------------------- MODULE LocalScan -----------------------------
(***************************************************************************)
(* BarDataset.scan and scan_partial: one reader over the store of BarStore *)
(* It takes no lock.  It reads coverage and file index in one SQLite read  *)
(* snapshot, then opens the indexed month files one at a time, checks each *)
(* against the indexed hash, and returns the covered rows.  Calls, crashes *)
(* and rebuilds go on between its steps.                                   *)
(***************************************************************************)
EXTENDS BarStore

VARIABLE reader  \* the scan in progress, or its answer

scanVars == <<disk, temps, catalog, lock, gate, clock, proc, faulted, rebuild,
              reader>>

NoScan ==
  [pc |-> "idle", key |-> None, req |-> {}, strict |-> FALSE, covered |-> {},
   index |-> [m \in Months |-> NoFile], left |-> {}, rows |-> NoRows,
   outcome |-> "none"]

ScanTypeOK ==
  /\ reader \in
       [pc      : {"idle", "reading", "done"},
        key     : Keys \cup {None},
        req     : SUBSET Slots,
        strict  : BOOLEAN,            \* scan rather than scan_partial
        covered : SUBSET Slots,       \* the available slots of the snapshot
        index   : [Months -> File],   \* the indexed files of the snapshot
        left    : SUBSET Months,      \* required months still to be read
        rows    : Rows,
        outcome : {"none", "ok", "gaps", "error"}]
  /\ reader.pc = "reading" => reader.key \in Keys

ScanInit == Init /\ reader = NoScan

-----------------------------------------------------------------------------

Ends(scan, outcome) == [scan EXCEPT !.pc = "done", !.outcome = outcome]

\* read_local_facts and the checks made on it.  A file is required for every
\* month in which a covered bar starts, and it must be indexed.
TakeSnapshot(k, r, strict) ==
  LET covered == CoveredIn(catalog.coverage[k], r)
      required == {MonthOf[s] : s \in covered}
      scan == [NoScan EXCEPT !.pc = "reading", !.key = k, !.req = r,
                 !.strict = strict, !.covered = covered,
                 !.index = catalog.index[k], !.left = required]
  IN
  /\ reader.pc = "idle"
  /\ reader' =
       IF ~catalog.exists /\ ~StorageEmpty(disk, temps) THEN Ends(scan, "error")
       ELSE IF strict /\ covered # r THEN Ends(scan, "gaps")
       ELSE IF required \subseteq FileMonths(catalog.index[k]) THEN scan
       ELSE Ends(scan, "error")

\* _restrict_to_covered: a month file may hold rows that are not covered.
RestrictKeepsAll(rows, covered) == rows
RestrictToCovered(rows, covered) ==
  [s \in Slots |-> IF s \in covered THEN rows[s] ELSE None]

\* _verified_frame: the hash is checked and the rows read through one open
\* handle, so a file replaced in between does not matter.
HashIgnored(m) == TRUE
HashMatches(m) == disk[reader.key][m] = reader.index[m]

ReadFile(m) ==
  LET file == disk[reader.key][m] IN
  /\ reader.pc = "reading"
  /\ m \in reader.left
  /\ IF HashMatches(m)
     THEN reader' = [reader EXCEPT
                       !.left = @ \ {m},
                       !.rows = MergeFrames(@, RestrictToCovered(file.rows,
                                                                 reader.covered))]
     ELSE reader' = Ends(reader, "error")

ScanReturns ==
  /\ reader.pc = "reading"
  /\ reader.left = {}
  /\ reader' = Ends(reader, "ok")

NewScan ==
  /\ reader.pc = "done"
  /\ reader' = NoScan

ScanStep ==
  \/ \E k \in Keys, r \in Requests, strict \in BOOLEAN : TakeSnapshot(k, r, strict)
  \/ \E m \in Months : ReadFile(m)
  \/ ScanReturns
  \/ NewScan

ScanNext ==
  \/ Next /\ UNCHANGED reader
  \/ ScanStep /\ UNCHANGED vars

ScanSpec == ScanInit /\ [][ScanNext]_scanVars

-----------------------------------------------------------------------------

\* A scan answers for one instant: exactly the slots its snapshot covered,
\* each with the row that was indexed then, although the files were read
\* later, one by one, while calls and rebuilds went on; and a strict scan
\* answers for the whole request.
ScanAnswersSnapshot ==
  reader.outcome = "ok" =>
    /\ Held(reader.rows) = reader.covered
    /\ \A s \in reader.covered : reader.rows[s] = reader.index[MonthOf[s]].rows[s]
    /\ reader.strict => reader.covered = reader.req

(* The inductive invariant behind it.                                      *)

\* What has been read so far: the covered rows of the months already
\* verified, as the snapshot's index has them.
ReadSoFar ==
  (reader.pc = "reading" \/ reader.outcome = "ok") =>
    /\ reader.strict => reader.covered = reader.req
    /\ \A s \in reader.covered : reader.index[MonthOf[s]].rows[s] # None
    /\ Held(reader.rows) = {s \in reader.covered : MonthOf[s] \notin reader.left}
    /\ \A s \in Held(reader.rows) : reader.rows[s] = reader.index[MonthOf[s]].rows[s]
    /\ reader.outcome = "ok" => reader.left = {}

ScanInv == ScanTypeOK /\ ReadSoFar
=============================================================================
