----------------------------- MODULE StoreFacts -----------------------------
(***************************************************************************)
(* The values the local bar store is made of, and the pure functions that  *)
(* sync, rebuild and scan apply to them: canonical month files, catalog    *)
(* facts (coverage, file index, source lineage, ingestion runs) and the    *)
(* rules that turn a provider observation into new rows and new coverage.  *)
(*                                                                         *)
(* A slot is one bar boundary of a dataset's time grid; slot s is the bar  *)
(* [s, s+1).  A file's physical hash identifies its content, so the hash   *)
(* the catalog indexes is modelled by the content itself.                  *)
(***************************************************************************)
EXTENDS Naturals

CONSTANTS
  Procs,      \* callers of sync: operating-system processes or threads
  Keys,       \* dataset keys
  Months,     \* calendar months, the unit of a canonical Parquet file
  Slots,      \* bar boundaries
  MonthOf,    \* the month a bar starts in, hence the file that holds it
  Providers,  \* provider descriptor names
  Values,     \* the values a bar may be reported with
  Bars,       \* Bars[v]: the bars that really exist at provider v
  None        \* no row, no provider, no dataset

ASSUME StoreAssumption ==
  /\ Slots \subseteq Nat
  /\ MonthOf \in [Slots -> Months]
  /\ Bars \in [Providers -> SUBSET Slots]
  /\ None \notin Values
  /\ None \notin Providers
  /\ None \notin Keys

-----------------------------------------------------------------------------
(* Canonical files.                                                        *)

Rows   == [Slots -> Values \cup {None}]
NoRows == [s \in Slots |-> None]

\* A month file: the provider named in its metadata and the rows it holds.
File   == [prov : Providers \cup {None}, rows : Rows]
NoFile == [prov |-> None, rows |-> NoRows]

Held(rows) == {s \in Slots : rows[s] # None}

\* Every row of a canonical month file starts in that file's month.
MonthFile(m) == {f \in File : \A s \in Held(f.rows) : MonthOf[s] = m}

MergeFramesDropsExisting(existing, batch) == batch
MergeFrames(existing, batch) ==
  [s \in Slots |-> IF batch[s] # None THEN batch[s] ELSE existing[s]]

SplitByMonthKeepsAll(batch, m) == batch
SplitByMonth(batch, m) ==
  [s \in Slots |-> IF MonthOf[s] = m THEN batch[s] ELSE None]

BatchMonths(batch) == {MonthOf[s] : s \in Held(batch)}

\* classify_managed_storage: nothing would be lost by an empty catalog, as no
\* canonical file of any dataset is on disk and no temporary is left.
StorageEmptyIgnoresFiles(disk, temps) == \A k \in Keys : temps[k] = {}
StorageEmpty(disk, temps) ==
  \A k \in Keys : temps[k] = {} /\ \A m \in Months : disk[k][m] = NoFile

-----------------------------------------------------------------------------
(* Observations.  The clock counts the bars that are final, that is closed *)
(* for at least the finality grace, so bar s is final at instant t iff     *)
(* s < t.                                                                  *)

FetchWindow(gaps) == {s \in Slots : \E a, b \in gaps : a <= s /\ s <= b}

FinalizableKeepsAll(slots, evidence) == slots
Finalizable(slots, evidence) == {s \in slots : s < evidence}

FilterToRangesKeepsAll(rows, gaps) == rows
FilterToRanges(rows, gaps) ==
  [s \in Slots |-> IF s \in gaps THEN rows[s] ELSE None]

-----------------------------------------------------------------------------
(* Coverage.                                                               *)

Status   == {"missing", "available", "unavailable"}
Coverage == [Slots -> Status]
Nothing  == [s \in Slots |-> "missing"]

\* The segments an observation adds: every observed bar is available or not.
BarSegmentsAllAvailable(present, observed) ==
  [s \in Slots |-> IF s \in observed THEN "available" ELSE "missing"]
BarSegments(present, observed) ==
  [s \in Slots |-> IF s \notin observed THEN "missing"
                   ELSE IF s \in present THEN "available" ELSE "unavailable"]

\* Overlapping segments: available wins, and otherwise the later one.
PreferLater(old, new) == IF new = "missing" THEN old ELSE new
Prefer(old, new) ==
  IF "available" \in {old, new} THEN "available"
  ELSE IF new = "missing" THEN old ELSE new

ApplyCoverage(old, new) == [s \in Slots |-> Prefer(old[s], new[s])]

MissingIn(coverage, req) == {s \in req : coverage[s] = "missing"}
CoveredIn(coverage, req) == {s \in req : coverage[s] = "available"}

-----------------------------------------------------------------------------
(* The catalog.  A run of a caller is named by the caller: every call uses *)
(* a fresh run identifier, so only the status of its current one matters.  *)

RunStatus == {"none", "running", "completed", "failed"}

CatalogState ==
  [exists   : BOOLEAN,
   coverage : [Keys -> Coverage],
   index    : [Keys -> [Months -> File]],
   lineage  : [Keys -> Providers \cup {None}],
   runs     : [Procs -> RunStatus]]

NoCatalog ==
  [exists   |-> FALSE,
   coverage |-> [k \in Keys |-> Nothing],
   index    |-> [k \in Keys |-> [m \in Months |-> NoFile]],
   lineage  |-> [k \in Keys |-> None],
   runs     |-> [p \in Procs |-> "none"]]

\* Catalog.open installs an empty catalog when there is none.
RecordRun(cat, p, status) ==
  [cat EXCEPT !.exists = TRUE, !.runs[p] = status]

\* bind_source_lineage accepts the first provider and then only that one.
LineageIgnored(bound, provider) == TRUE
LineageAdmits(bound, provider) == bound \in {None, provider}

\* One catalog transaction of a successful sync: lineage, coverage, files
\* and the completed run.
CommittedCatalog(cat, p, k, provider, segments, prepared) ==
  LET changed == (\E m \in Months : prepared[m] # NoFile) \/ segments # Nothing
  IN  [exists   |-> TRUE,
       coverage |-> [cat.coverage EXCEPT ![k] = ApplyCoverage(@, segments)],
       index    |-> [cat.index EXCEPT ![k] =
                       [m \in Months |-> IF prepared[m] # NoFile
                                         THEN prepared[m] ELSE cat.index[k][m]]],
       lineage  |-> [cat.lineage EXCEPT ![k] = IF changed THEN provider ELSE @],
       runs     |-> [cat.runs EXCEPT ![p] = "completed"]]

\* terminal_commit_is_visible: this run is completed and every file it
\* published is indexed with the hash it published.
TerminalCommitAssumed(cat, p, k, prepared) == TRUE
TerminalCommitVisible(cat, p, k, prepared) ==
  /\ cat.runs[p] = "completed"
  /\ \A m \in Months : prepared[m] # NoFile => cat.index[k][m] = prepared[m]

-----------------------------------------------------------------------------
(* Rebuild: the catalog that canonical files alone can prove.              *)

FileMonths(files) == {m \in Months : files[m] # NoFile}

OneLineage(files) ==
  \A m, n \in FileMonths(files) : files[m].prov = files[n].prov

LineageOf(files) ==
  IF FileMonths(files) = {} THEN None
  ELSE files[CHOOSE m \in FileMonths(files) : TRUE].prov

RowCoverage(files) ==
  [s \in Slots |-> IF files[MonthOf[s]].rows[s] # None
                   THEN "available" ELSE "missing"]

RebuiltCatalog(files) ==
  [exists   |-> TRUE,
   coverage |-> [k \in Keys |-> RowCoverage(files[k])],
   index    |-> files,
   lineage  |-> [k \in Keys |-> LineageOf(files[k])],
   runs     |-> [p \in Procs |-> "none"]]
=============================================================================
