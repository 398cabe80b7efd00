-------------------------- MODULE LocalScanProofs --------------------------
(***************************************************************************)
(* A lock-free scan answers for the instant of its snapshot.  The reader   *)
(* depends on the store at two points only: its snapshot, where coverage   *)
(* is backed by the index (IInv), and the moment it reads a file, where    *)
(* the hash tells whether the file is still the one indexed then.          *)
(***************************************************************************)
EXTENDS LocalScan, BarStoreProofs

\* A file restricted to the covered slots holds the covered rows it has.
LEMMA RestrictFacts ==
  ASSUME NEW rows \in Rows, NEW covered \in SUBSET Slots
  PROVE  /\ RestrictToCovered(rows, covered) \in Rows
         /\ Held(RestrictToCovered(rows, covered)) = Held(rows) \cap covered
         /\ \A s \in covered : RestrictToCovered(rows, covered)[s] = rows[s]
BY DEF RestrictToCovered, Rows, Held

LEMMA ScanInitHolds == ScanInit => ScanInv
<1> SUFFICES ASSUME ScanInit PROVE ScanInv
  OBVIOUS
<1>1. reader = NoScan
  BY DEF ScanInit
<1>2. ScanTypeOK
  BY <1>1, NoFileType DEF NoScan, ScanTypeOK
<1> QED BY <1>1, <1>2 DEF ScanInv, ReadSoFar, NoScan

\* A scan that has failed answers nothing.
\* The type of a scan.
Scan == [pc : {"idle", "reading", "done"}, key : Keys \cup {None},
         req : SUBSET Slots, strict : BOOLEAN, covered : SUBSET Slots,
         index : [Months -> File], left : SUBSET Months, rows : Rows,
         outcome : {"none", "ok", "gaps", "error"}]

\* A scan that has failed answers nothing.
LEMMA FailedHolds ==
  ASSUME NEW scan \in Scan, NEW o \in {"gaps", "error"}, reader' = Ends(scan, o)
  PROVE  ScanInv'
<1> DEFINE new == [scan EXCEPT !.pc = "done", !.outcome = o]
<1>1. new \in Scan
  BY ZenonT(30) DEF Scan
<1>2. new.pc = "done" /\ new.outcome = o
  BY DEF Scan
<1>3. reader' = new
  BY DEF Ends
<1> HIDE DEF new
<1> QED BY <1>1, <1>2, <1>3 DEF Scan, ScanInv, ScanTypeOK, ReadSoFar

\* The scan a snapshot starts has read nothing, and every slot it will
\* answer for has an indexed row.
LEMMA SnapshotHolds ==
  ASSUME IInv, ScanInv, NEW k \in Keys, NEW r \in Requests,
         NEW strict \in BOOLEAN, TakeSnapshot(k, r, strict)
  PROVE  ScanInv'
<1> DEFINE covered == CoveredIn(catalog.coverage[k], r)
           required == {MonthOf[s] : s \in covered}
           index == catalog.index[k]
           scan == [NoScan EXCEPT !.pc = "reading", !.key = k, !.req = r,
                      !.strict = strict, !.covered = covered,
                      !.index = index, !.left = required]
<1>1. r \in SUBSET Slots /\ covered \in SUBSET Slots /\ required \in SUBSET Months
  BY SyncAssumption, StoreAssumption DEF CoveredIn
<1>2. index \in [Months -> File]
  BY DEF IInv, SyncInv, SyncTypeOK, CatalogState
<1>3. \A s \in covered : index[MonthOf[s]].rows[s] # None
  BY <1>1 DEF IInv, SyncInv, IndexBacked, CoveredIn
<1>4. NoRows \in Rows /\ Held(NoRows) = {}
  BY NoFileType
<1>5. NoScan \in Scan
  BY NoFileType DEF NoScan, Scan
<1>6. \/ reader' = Ends(scan, "error")
      \/ reader' = Ends(scan, "gaps")
      \/ reader' = scan /\ (strict => covered = r)
  BY DEF TakeSnapshot
<1>7. \A s \in covered : MonthOf[s] \in required
  OBVIOUS
<1> HIDE DEF covered, required, index
<1>8. scan \in Scan
  BY <1>1, <1>2, <1>5, ZenonT(60) DEF Scan
<1>9. /\ scan.pc = "reading" /\ scan.key = k /\ scan.req = r
      /\ scan.covered = covered /\ scan.index = index /\ scan.left = required
      /\ scan.rows = NoRows /\ scan.outcome = "none"
  BY DEF NoScan
<1>10. scan.strict = strict
  BY Zenon DEF NoScan
<1> HIDE DEF scan
<1>11. CASE reader' = scan /\ (strict => covered = r)
  <2>1. ScanTypeOK'
    BY <1>8, <1>9, <1>11 DEF ScanTypeOK, Scan
  <2>2. ReadSoFar'
    BY <1>3, <1>4, <1>7, <1>9, <1>10, <1>11 DEF ReadSoFar
  <2> QED BY <2>1, <2>2 DEF ScanInv
<1>12. CASE reader' = Ends(scan, "error") \/ reader' = Ends(scan, "gaps")
  BY <1>8, <1>12, FailedHolds
<1> QED BY <1>6, <1>11, <1>12

\* The file that is read is the file of the snapshot, or the scan ends.
LEMMA ReadHolds ==
  ASSUME IInv, ScanInv, NEW m \in Months, ReadFile(m)
  PROVE  ScanInv'
<1> DEFINE file == disk[reader.key][m]
           mine == RestrictToCovered(file.rows, reader.covered)
           rows == MergeFrames(reader.rows, mine)
<1>1. reader.pc = "reading" /\ m \in reader.left
  BY DEF ReadFile
<1>2. CASE ~HashMatches(m)
  <2>1. reader' = Ends(reader, "error")
    BY <1>2 DEF ReadFile
  <2> QED BY <2>1, FailedHolds DEF Scan, ScanInv, ScanTypeOK
<1>3. CASE HashMatches(m)
  <2>1. reader' = [reader EXCEPT !.left = @ \ {m}, !.rows = rows]
    BY <1>3 DEF ReadFile
  <2>2. file = reader.index[m] /\ reader.key \in Keys
    BY <1>1, <1>3 DEF HashMatches, ScanInv, ScanTypeOK
  <2>3. /\ file \in File /\ file.rows \in Rows
        /\ \A s \in Held(file.rows) : MonthOf[s] = m
    BY <2>2 DEF IInv, SyncInv, MonthsSorted, MonthFile, File
  <2>4. /\ reader.rows \in Rows /\ reader.covered \in SUBSET Slots
        /\ reader.index \in [Months -> File] /\ reader.left \in SUBSET Months
        /\ reader.strict \in BOOLEAN /\ reader.req \in SUBSET Slots
        /\ reader.outcome \in {"none", "ok", "gaps", "error"}
    BY DEF ScanInv, ScanTypeOK
  <2>5. /\ mine \in Rows /\ Held(mine) = Held(file.rows) \cap reader.covered
        /\ \A s \in reader.covered : mine[s] = file.rows[s]
    BY <2>3, <2>4, RestrictFacts
  <2> HIDE DEF mine, file
  <2>6. rows \in Rows /\ Held(rows) = Held(reader.rows) \cup Held(mine)
    BY <2>4, <2>5, MergeFacts
  <2>7. \A s \in Slots : rows[s] = IF mine[s] # None THEN mine[s] ELSE reader.rows[s]
    BY DEF MergeFrames
  <2> HIDE DEF rows
  <2>8. /\ reader'.pc = "reading" /\ reader'.strict = reader.strict
        /\ reader'.req = reader.req /\ reader'.covered = reader.covered
        /\ reader'.index = reader.index /\ reader'.left = reader.left \ {m}
        /\ reader'.rows = rows /\ reader'.outcome = reader.outcome
    BY <1>1, <2>1 DEF ScanInv, ScanTypeOK
  <2>9. ScanTypeOK'
    BY <1>1, <2>1, <2>6 DEF ScanInv, ScanTypeOK
  <2>10. /\ reader.strict => reader.covered = reader.req
         /\ \A s \in reader.covered : reader.index[MonthOf[s]].rows[s] # None
         /\ Held(reader.rows) = {s \in reader.covered : MonthOf[s] \notin reader.left}
         /\ \A s \in Held(reader.rows) :
              reader.rows[s] = reader.index[MonthOf[s]].rows[s]
         /\ reader.outcome # "ok"
    BY <1>1 DEF ScanInv, ReadSoFar
  <2>11. Held(mine) = {s \in reader.covered : MonthOf[s] = m}
    BY <2>2, <2>3, <2>4, <2>5, <2>10 DEF Held
  <2>12. Held(rows) = {s \in reader.covered : MonthOf[s] \notin reader.left \ {m}}
    BY <2>4, <2>6, <2>10, <2>11
  <2>13. \A s \in Held(rows) : rows[s] = reader.index[MonthOf[s]].rows[s]
    BY <2>2, <2>4, <2>5, <2>6, <2>7, <2>10, <2>11 DEF Held
  <2>14. ReadSoFar'
    BY <2>8, <2>10, <2>12, <2>13 DEF ReadSoFar
  <2> QED BY <2>9, <2>14 DEF ScanInv
<1> QED BY <1>2, <1>3

LEMMA ScanNextHolds ==
  ASSUME IInv, ScanInv, ScanNext PROVE ScanInv'
<1>1. CASE UNCHANGED reader
  BY <1>1 DEF ScanInv, ScanTypeOK, ReadSoFar
<1>2. CASE ScanReturns
  <2>1. /\ reader.pc = "reading" /\ reader.left = {}
        /\ reader' = [reader EXCEPT !.pc = "done", !.outcome = "ok"]
    BY <1>2 DEF ScanReturns, Ends
  <2>2. /\ reader'.pc = "done" /\ reader'.strict = reader.strict
        /\ reader'.req = reader.req /\ reader'.covered = reader.covered
        /\ reader'.index = reader.index /\ reader'.left = {}
        /\ reader'.rows = reader.rows
    BY <2>1 DEF ScanInv, ScanTypeOK
  <2>3. ScanTypeOK'
    BY <2>1 DEF ScanInv, ScanTypeOK
  <2> QED BY <2>1, <2>2, <2>3 DEF ScanInv, ReadSoFar
<1>3. CASE NewScan
  BY <1>3, NoFileType DEF NewScan, NoScan, ScanInv, ScanTypeOK, ReadSoFar
<1> QED BY <1>1, <1>2, <1>3, SnapshotHolds, ReadHolds DEF ScanNext, ScanStep

LEMMA ScanStoreHolds == ScanSpec => []IInv
<1>1. ScanInit => IInv
  BY StoreInitHolds DEF ScanInit
<1>2. IInv /\ [ScanNext]_scanVars => IInv'
  <2>1. ASSUME IInv, ScanNext PROVE IInv'
    BY <2>1, StoreNextHolds, StoreStutterHolds DEF ScanNext
  <2>2. ASSUME IInv, UNCHANGED scanVars PROVE IInv'
    BY <2>2, StoreStutterHolds DEF scanVars, vars
  <2> QED BY <2>1, <2>2
<1> QED BY <1>1, <1>2, PTL DEF ScanSpec

\* The invariant of the reader: what it has read of its snapshot is what the
\* snapshot's index names, and nothing it has to answer for is missing there.
THEOREM ScanSafety == ScanSpec => []ScanInv
<1>1. ScanInit => ScanInv
  BY ScanInitHolds
<1>2. IInv /\ ScanInv /\ [ScanNext]_scanVars => ScanInv'
  <2>1. ASSUME ScanInv, UNCHANGED scanVars PROVE ScanInv'
    BY <2>1 DEF scanVars, ScanInv, ScanTypeOK, ReadSoFar
  <2> QED BY <2>1, ScanNextHolds
<1> QED BY <1>1, <1>2, ScanStoreHolds, PTL DEF ScanSpec

\* A scan that returns rows answers for the instant of its snapshot, although
\* it holds no lock while calls, crashes and rebuilds replace the files.
THEOREM ScansAreSnapshots == ScanSpec => []ScanAnswersSnapshot
<1>1. ScanInv => ScanAnswersSnapshot
  <2> SUFFICES ASSUME ScanInv, reader.outcome = "ok"
               PROVE  /\ Held(reader.rows) = reader.covered
                      /\ \A s \in reader.covered :
                           reader.rows[s] = reader.index[MonthOf[s]].rows[s]
                      /\ reader.strict => reader.covered = reader.req
    BY DEF ScanAnswersSnapshot
  <2>1. Held(reader.rows) = reader.covered
    BY DEF ScanInv, ReadSoFar
  <2> QED BY <2>1 DEF ScanInv, ReadSoFar
<1> QED BY <1>1, ScanSafety, PTL
=============================================================================
