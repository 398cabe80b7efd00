--------------------------- MODULE BarStoreProofs ---------------------------
(***************************************************************************)
(* The safety theorems of the store under maintenance.  Calls and rebuild  *)
(* exclude each other only through the gate, so the heart of the argument  *)
(* is that a rebuild still sees on disk what it has read.                  *)
(***************************************************************************)
EXTENDS BarStore, BarSyncProofs

\* Who may take and leave the gate, and who may write a canonical file.
LEMMA SyncGate ==
  ASSUME SyncInv, SyncNext
  PROVE  \/ UNCHANGED <<gate, disk>>
         \/ /\ gate \in Procs
            /\ gate' = gate \/ gate' = NoOwner
         \/ gate = NoOwner /\ gate' \in Procs /\ UNCHANGED disk
<1> USE DEF SyncInv
<1>1. CASE Tick
  BY <1>1 DEF Tick
<1>2. ASSUME NEW p \in Procs, Step(p)
      PROVE  \/ UNCHANGED <<gate, disk>>
             \/ /\ gate \in Procs
                /\ gate' = gate \/ gate' = NoOwner
             \/ gate = NoOwner /\ gate' \in Procs /\ UNCHANGED disk
  <2>1. CASE Starts(p) \/ Locks(p) \/ Proceeds(p) \/ Enters(p) \/ Doubts(p) \/ Stops(p)
    BY <2>1 DEF Starts, Locks, Proceeds, Enters, Doubts, Stops, GateLeft
  <2>2. CASE ProviderReplies(p) \/ \E m \in Months : PrepareMonth(p, m)
    BY <2>2 DEF ProviderReplies, PrepareMonth
  <2>3. CASE \E m \in Months : PublishMonth(p, m)
    <3>1. gate = p /\ gate' = gate
      BY <2>3 DEF PublishMonth, LocksHeld
    <3> QED BY <3>1
  <2> QED BY <1>2, <2>1, <2>2, <2>3 DEF Step
<1> QED BY <1>1, <1>2, StepKinds

LEMMA StoreInitHolds == Init => IInv
<1> SUFFICES ASSUME Init PROVE IInv
  OBVIOUS
<1>1. SyncInv
  BY InitHolds DEF Init
<1>2. gate = NoOwner /\ rebuild = NoRebuild /\ rebuild.pc = "idle"
  BY DEF Init, SyncInit, NoRebuild
<1>3. NoRebuild \in [pc : {"idle", "read"}, files : [Keys -> [Months -> File]]]
  BY NoFileType DEF NoRebuild
<1>4. RebuildCurrent
  BY <1>2, RebuilderAssumption DEF RebuildCurrent
<1> QED BY <1>1, <1>2, <1>3, <1>4 DEF IInv, TypeOK, SyncInv

LEMMA SyncKeepsStore ==
  ASSUME IInv, SyncNext, UNCHANGED rebuild PROVE IInv'
<1>1. SyncInv'
  BY NextHolds DEF IInv
<1>2. RebuildCurrent'
  BY SyncGate, RebuilderAssumption DEF IInv, RebuildCurrent
<1>3. gate' \in Procs \cup {NoOwner, Rebuilder}
  BY SyncGate DEF IInv, TypeOK
<1> QED BY <1>1, <1>2, <1>3 DEF IInv, TypeOK, SyncInv

LEMMA RebuiltFacts ==
  ASSUME SyncTypeOK
  PROVE  LET new == RebuiltCatalog(disk) IN
         /\ new \in CatalogState
         /\ new.exists
         /\ new.index = disk
         /\ \A k \in Keys, s \in Slots :
              new.coverage[k][s] = "available" <=>
                disk[k][MonthOf[s]].rows[s] # None
<1> DEFINE cov == [k \in Keys |-> RowCoverage(disk[k])]
           lin == [k \in Keys |-> LineageOf(disk[k])]
           runs == [p \in Procs |-> "none"]
           new == RebuiltCatalog(disk)
<1>1. new = [exists |-> TRUE, coverage |-> cov, index |-> disk,
             lineage |-> lin, runs |-> runs]
  BY DEF RebuiltCatalog
<1>2. cov \in [Keys -> Coverage]
  BY DEF RowCoverage, Coverage, Status
<1>3. \A k \in Keys, s \in Slots :
        cov[k][s] = "available" <=> disk[k][MonthOf[s]].rows[s] # None
  BY DEF RowCoverage
<1>4. \A k \in Keys : LineageOf(disk[k]) \in Providers \cup {None}
  <2> TAKE k \in Keys
  <2>1. CASE FileMonths(disk[k]) = {}
    BY <2>1 DEF LineageOf
  <2>2. CASE FileMonths(disk[k]) # {}
    <3>1. (CHOOSE m \in FileMonths(disk[k]) : TRUE) \in Months
      BY <2>2 DEF FileMonths
    <3>2. \A m \in Months : disk[k][m].prov \in Providers \cup {None}
      BY DEF SyncTypeOK, File
    <3> QED BY <2>2, <3>1, <3>2 DEF LineageOf
  <2> QED BY <2>1, <2>2
<1>5. lin \in [Keys -> Providers \cup {None}] /\ runs \in [Procs -> RunStatus]
  BY <1>4 DEF RunStatus
<1>6. disk \in [Keys -> [Months -> File]]
  BY DEF SyncTypeOK
<1> HIDE DEF cov, lin, runs, new
<1>7. new \in CatalogState
  BY <1>1, <1>2, <1>5, <1>6 DEF CatalogState
<1>8. new.exists /\ new.index = disk /\ new.coverage = cov
  BY <1>1
<1> QED BY <1>3, <1>7, <1>8 DEF new

\* The calls do not notice that the catalog was replaced by what the files
\* prove, because everything they rely on is in their locks and the files.
LEMMA RebuildKeepsSync ==
  ASSUME IInv, RebuildReplaces
  PROVE  /\ SyncInv'
         /\ catalog' = RebuiltCatalog(disk)
<1> USE DEF IInv, SyncInv
<1>0. /\ rebuild.pc = "read" /\ gate = Rebuilder /\ rebuild.files = disk
      /\ UNCHANGED <<disk, temps, lock, clock, proc>>
      /\ gate' = NoOwner /\ faulted' = {}
      /\ catalog' = RebuiltCatalog(disk)
  BY DEF RebuildReplaces, RebuildCurrent
<1>1. /\ catalog' \in CatalogState /\ catalog'.exists /\ catalog'.index = disk
      /\ \A k \in Keys, s \in Slots :
           catalog'.coverage[k][s] = "available" <=> disk[k][MonthOf[s]].rows[s] # None
  BY <1>0, RebuiltFacts
<1>2. SyncTypeOK'
  BY <1>0, <1>1 DEF SyncTypeOK
<1>3. \A p \in Procs : gate # p /\ gate' # p
  BY <1>0, SyncAssumption, RebuilderAssumption
<1>4. LocksHeld'
  BY <1>0, <1>1, <1>3 DEF LocksHeld, At
<1>5. MonthsSorted'
  BY <1>0 DEF MonthsSorted
<1>6. \A p \in Procs : PreparedBy(p)' = PreparedBy(p)
  BY <1>0 DEF PreparedBy, PreparedMonths, AllPrepared, AllPublished, At
<1>7. PreparedCurrent'
  BY <1>6 DEF PreparedCurrent
<1>8. IndexBacked'
  BY <1>0, <1>1 DEF IndexBacked
<1>9. DriftOwned'
  BY <1>0, <1>1 DEF DriftOwned
<1> QED BY <1>0, <1>2, <1>4, <1>5, <1>7, <1>8, <1>9

LEMMA LossKeepsSync ==
  ASSUME IInv, CatalogLost PROVE SyncInv'
<1> USE DEF IInv, SyncInv
<1>0. /\ \A p \in Procs : At(p, "idle")
      /\ UNCHANGED <<disk, temps, lock, gate, clock, proc, faulted>>
      /\ catalog' = NoCatalog
  BY DEF CatalogLost
<1>1. /\ NoCatalog \in CatalogState /\ NoCatalog.exists = FALSE
      /\ \A k \in Keys, m \in Months : NoCatalog.index[k][m] = NoFile
      /\ \A k \in Keys, s \in Slots : NoCatalog.coverage[k][s] = "missing"
  BY NoFileType DEF NoCatalog, CatalogState, Nothing, Coverage, Status, RunStatus
<1>2. SyncTypeOK'
  BY <1>0, <1>1 DEF SyncTypeOK
<1>3. LocksHeld'
  BY <1>0, <1>1 DEF LocksHeld, At, Locked
<1>4. MonthsSorted'
  BY <1>0 DEF MonthsSorted
<1>5. \A p \in Procs : PreparedBy(p)' = PreparedBy(p)
  BY <1>0 DEF PreparedBy, PreparedMonths, AllPrepared, AllPublished, At
<1>6. PreparedCurrent'
  BY <1>5 DEF PreparedCurrent
<1>7. Held(NoFile.rows) = {}
  BY NoFileType DEF NoFile
<1>8. IndexBacked'
  BY <1>0, <1>1, <1>7 DEF IndexBacked
<1>9. DriftOwned'
  BY <1>0, <1>1 DEF DriftOwned
<1> QED BY <1>2, <1>3, <1>4, <1>6, <1>8, <1>9

\* Taking or leaving the gate without a change of files and catalog.
LEMMA GateKeepsSync ==
  ASSUME SyncInv, UNCHANGED <<disk, temps, catalog, lock, clock, proc, faulted>>,
         gate \notin Procs, gate' \notin Procs
  PROVE  SyncInv'
<1> USE DEF SyncInv
<1>1. SyncTypeOK'
  BY DEF SyncTypeOK
<1>2. LocksHeld'
  BY DEF LocksHeld, At
<1>3. MonthsSorted'
  BY DEF MonthsSorted
<1>4. \A p \in Procs : PreparedBy(p)' = PreparedBy(p)
  BY DEF PreparedBy, PreparedMonths, AllPrepared, AllPublished, At
<1>5. PreparedCurrent'
  BY <1>4 DEF PreparedCurrent
<1>6. IndexBacked'
  BY DEF IndexBacked
<1>7. DriftOwned'
  BY DEF DriftOwned
<1> QED BY <1>1, <1>2, <1>3, <1>5, <1>6, <1>7

LEMMA StoreNextHolds ==
  ASSUME IInv, Next PROVE IInv'
<1> USE SyncAssumption, RebuilderAssumption
<1>0. /\ NoRebuild \in [pc : {"idle", "read"}, files : [Keys -> [Months -> File]]]
      /\ NoRebuild.pc = "idle"
  BY NoFileType DEF NoRebuild
<1>1. CASE SyncNext /\ UNCHANGED rebuild
  BY <1>1, SyncKeepsStore
<1>2. CASE RebuildReads
  <2>1. gate = NoOwner /\ gate' = Rebuilder /\ UNCHANGED disk
    BY <1>2 DEF RebuildReads, GateFree
  <2>2. SyncInv'
    BY <1>2, <2>1, GateKeepsSync DEF IInv, RebuildReads
  <2>3. rebuild' = [pc |-> "read", files |-> disk] /\ rebuild'.pc = "read"
        /\ rebuild'.files = disk
    BY <1>2 DEF RebuildReads
  <2>4. rebuild' \in [pc : {"idle", "read"}, files : [Keys -> [Months -> File]]]
    BY <2>3 DEF IInv, TypeOK, SyncTypeOK
  <2> QED BY <2>1, <2>2, <2>3, <2>4 DEF IInv, TypeOK, RebuildCurrent, SyncInv
<1>3. CASE RebuildReplaces
  <2>1. gate' = NoOwner /\ rebuild' = NoRebuild
    BY <1>3 DEF RebuildReplaces
  <2> QED
    BY <1>0, <1>3, <2>1, RebuildKeepsSync DEF IInv, TypeOK, RebuildCurrent, SyncInv
<1>4. CASE RebuildFails
  <2>1. gate = Rebuilder /\ gate' = NoOwner /\ rebuild' = NoRebuild
    BY <1>4 DEF RebuildFails, IInv, RebuildCurrent
  <2>2. SyncInv'
    BY <1>4, <2>1, GateKeepsSync DEF IInv, RebuildFails
  <2> QED BY <1>0, <2>1, <2>2 DEF IInv, TypeOK, RebuildCurrent, SyncInv
<1>5. CASE CatalogLost
  <2>1. UNCHANGED <<gate, disk, rebuild>>
    BY <1>5 DEF CatalogLost
  <2> QED
    BY <1>5, <2>1, LossKeepsSync DEF IInv, TypeOK, RebuildCurrent, SyncInv
<1> QED BY <1>1, <1>2, <1>3, <1>4, <1>5 DEF Next, Maintenance

LEMMA StoreStutterHolds ==
  ASSUME IInv, UNCHANGED vars PROVE IInv'
<1>1. SyncInv'
  BY StutterHolds DEF vars, syncVars, IInv
<1> QED BY <1>1 DEF IInv, TypeOK, SyncInv, RebuildCurrent, vars

\* The inductive invariant: types, locks, what calls have prepared, coverage
\* backed by the index and the index by the files, differences owned by the
\* call that made them.
THEOREM StoreSafety == Spec => []IInv
<1>1. Init => IInv
  BY StoreInitHolds
<1>2. IInv /\ [Next]_vars => IInv'
  BY StoreNextHolds, StoreStutterHolds
<1> QED BY <1>1, <1>2, PTL DEF Spec

-----------------------------------------------------------------------------
(* What follows from it in every state.                                    *)

\* Available coverage is always backed by an indexed file and by the file on
\* disk, whatever callers, crashes and rebuilds do.
THEOREM CoverageIsBacked == Spec => []AvailableBacked
<1>1. IInv => AvailableBacked
  <2> SUFFICES ASSUME IInv, NEW k \in Keys, NEW s \in Slots,
                      catalog.coverage[k][s] = "available"
               PROVE  /\ catalog.index[k][MonthOf[s]].rows[s] # None
                      /\ disk[k][MonthOf[s]].rows[s] # None
    BY DEF AvailableBacked
  <2>1. MonthOf[s] \in Months
    BY StoreAssumption
  <2> QED BY <2>1 DEF IInv, SyncInv, IndexBacked, Held
<1> QED BY <1>1, StoreSafety, PTL

\* Catalog and files never disagree silently: a difference has an owner that
\* is still at work, or a dataset that is left for maintenance.
THEOREM DriftIsOwned == Spec => []NoSilentDrift
<1>1. IInv => NoSilentDrift
  <2> SUFFICES ASSUME IInv, NEW k \in Keys, lock[k] = NoOwner, k \notin faulted,
                      catalog.exists
               PROVE  catalog.index[k] = disk[k]
    BY DEF NoSilentDrift
  <2>1. \A m \in Months : catalog.index[k][m] = disk[k][m]
    BY SyncAssumption DEF IInv, SyncInv, DriftOwned
  <2>2. catalog.index[k] \in [Months -> File] /\ disk[k] \in [Months -> File]
    BY DEF IInv, SyncInv, SyncTypeOK, CatalogState
  <2> QED BY <2>1, <2>2
<1> QED BY <1>1, StoreSafety, PTL

-----------------------------------------------------------------------------
(* What no step may do.                                                    *)

\* No step of a caller, of maintenance or of an operator removes a row from a
\* canonical file.
THEOREM RowsAreNeverLost == Spec => RowsNeverLost
<1> DEFINE Grows == \A k \in Keys, m \in Months :
                      Held(disk[k][m].rows) \subseteq Held(disk'[k][m].rows)
<1>1. ASSUME IInv, Next PROVE Grows \/ UNCHANGED disk
  <2> USE <1>1 DEF IInv, SyncInv
  <2>1. CASE ~SyncNext
    BY <1>1, <2>1
    DEF Next, Maintenance, RebuildReads, RebuildReplaces, RebuildFails, CatalogLost
  <2>2. CASE Tick
    BY <2>2 DEF Tick
  <2>3. ASSUME NEW p \in Procs, Step(p) PROVE Grows \/ UNCHANGED disk
    <3>1. ASSUME NEW m \in Months, PublishMonth(p, m) PROVE Grows
      <4> DEFINE k == proc[p].key
      <4>1. /\ k \in Keys /\ proc[p].pc = "publishing"
            /\ m \in PreparedMonths(p) /\ m \notin proc[p].published
            /\ disk' = [disk EXCEPT ![k][m] = proc[p].prepared[m]]
        BY <3>1 DEF PublishMonth, SyncTypeOK, At
      <4>2. Held(disk[k][m].rows) \subseteq Held(proc[p].prepared[m].rows)
        BY <4>1, SMTT(60) DEF PreparedCurrent, PreparedBy, Locked
      <4> QED BY <4>1, <4>2 DEF SyncTypeOK
    <3>2. CASE ~\E m \in Months : PublishMonth(p, m)
      BY <2>3, <3>2
      DEF Step, Starts, Locks, Proceeds, Enters, Doubts, Stops, ProviderReplies,
          PrepareMonth
    <3> QED BY <3>1, <3>2
  <2> QED BY <2>1, <2>2, <2>3, StepKinds
<1>2. IInv /\ [Next]_vars => [Grows]_disk
  BY <1>1 DEF vars
<1> QED BY <1>2, StoreSafety, PTL DEF Spec, RowsNeverLost

\* What a step of a caller does to the facts of the catalog.
LEMMA SyncFacts ==
  ASSUME SyncInv, SyncNext
  PROVE  FactsKept \/ \E p \in Procs : FactsCommitted(p)
<1> USE DEF SyncInv
<1>1. UNCHANGED catalog => FactsKept
  BY FactsUnchanged
<1>2. CASE Tick
  BY <1>1, <1>2, SMTT(60) DEF Tick
<1>3. ASSUME NEW p \in Procs, Step(p)
      PROVE  FactsKept \/ FactsCommitted(p)
  BY <1>1, <1>3 DEF Step, Starts, Locks, Proceeds, Enters, Doubts, Stops,
                    ProviderReplies, PrepareMonth, PublishMonth
<1> QED BY <1>2, <1>3, StepKinds

\* Available coverage is not taken back while there is a catalog, although a
\* rebuild forgets everything but the files.
THEOREM AvailabilityIsSticky == Spec => AvailableIsSticky
<1> DEFINE Sticks == \A k \in Keys, s \in Slots :
                       (catalog.coverage[k][s] = "available" /\ catalog'.exists)
                         => catalog'.coverage[k][s] = "available"
<1>1. ASSUME IInv, Next PROVE Sticks
  <2> USE <1>1 DEF IInv, SyncInv
  <2>1. CASE SyncNext
    <3>1. CASE FactsKept
      BY <3>1 DEF FactsKept
    <3>2. ASSUME NEW p \in Procs, FactsCommitted(p) PROVE Sticks
      <4>1. \A k \in Keys : catalog.coverage[k] \in Coverage
        BY DEF SyncTypeOK, CatalogState
      <4>2. proc[p].key \in Keys
        BY <3>2 DEF FactsCommitted, At, SyncTypeOK
      <4>3. ASSUME NEW s \in Slots, catalog.coverage[proc[p].key][s] = "available"
            PROVE  catalog'.coverage[proc[p].key][s] = "available"
        BY <3>2, <4>1, <4>2, <4>3, NewSegmentsType, ApplyCoverageFacts
        DEF FactsCommitted
      <4> QED BY <3>2, <4>3 DEF FactsCommitted
    <3> QED BY <2>1, <3>1, <3>2, SyncFacts
  <2>2. CASE RebuildReplaces
    <3>1. \A k \in Keys, s \in Slots :
            catalog.coverage[k][s] = "available" => disk[k][MonthOf[s]].rows[s] # None
      BY StoreAssumption DEF IndexBacked, Held
    <3> QED BY <2>2, <3>1, RebuildKeepsSync, RebuiltFacts
  <2>3. CASE RebuildReads \/ RebuildFails
    BY <2>3 DEF RebuildReads, RebuildFails
  <2>4. CASE CatalogLost
    BY <2>4 DEF CatalogLost, NoCatalog
  <2> QED BY <1>1, <2>1, <2>2, <2>3, <2>4 DEF Next, Maintenance
<1>2. IInv /\ [Next]_vars => [Sticks]_catalog
  BY <1>1 DEF vars
<1> QED BY <1>2, StoreSafety, PTL DEF Spec, AvailableIsSticky

\* A catalog that appears indexes exactly the files on disk: no sync starts
\* over an index that ignores them.
THEOREM CatalogAppearsComplete == Spec => LossNeedsRebuild
<1> DEFINE Complete == (~catalog.exists /\ catalog'.exists) => catalog'.index = disk
<1>1. ASSUME IInv, Next PROVE Complete
  <2> USE <1>1 DEF IInv, SyncInv
  <2>1. CASE SyncNext
    <3> SUFFICES ASSUME ~catalog.exists, catalog'.exists PROVE catalog'.index = disk
      OBVIOUS
    <3>1. \A p \in Procs : ~FactsCommitted(p)
      BY DEF FactsCommitted, LocksHeld, At, Locked
    <3>2. FactsKept
      BY <2>1, <3>1, SyncFacts
    <3>3. \A k \in Keys, m \in Months : catalog'.index[k][m] = disk[k][m]
      BY <3>2 DEF FactsKept
    <3>4. disk \in [Keys -> [Months -> File]] /\ catalog'.index \in [Keys -> [Months -> File]]
      BY <3>2 DEF FactsKept, SyncTypeOK, CatalogState
    <3> QED BY <3>3, <3>4
  <2>2. CASE RebuildReplaces
    BY <2>2, RebuildKeepsSync, RebuiltFacts
  <2>3. CASE RebuildReads \/ RebuildFails \/ CatalogLost
    BY <2>3 DEF RebuildReads, RebuildFails, CatalogLost, NoCatalog
  <2> QED BY <1>1, <2>1, <2>2, <2>3 DEF Next, Maintenance
<1>2. IInv /\ [Next]_vars => [Complete]_catalog
  BY <1>1 DEF vars
<1> QED BY <1>2, StoreSafety, PTL DEF Spec, LossNeedsRebuild
=============================================================================
