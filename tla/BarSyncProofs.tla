--------------------------- MODULE BarSyncProofs ---------------------------
(***************************************************************************)
(* SyncInv is an inductive invariant of BarSync: it holds initially and    *)
(* every step of every caller preserves it.  The proof goes in two stages: *)
(* the effect of each action on the calls and on the catalog is stated     *)
(* once, and the parts of the invariant are then derived from the effects. *)
(***************************************************************************)
EXTENDS BarSync, TLAPS

-----------------------------------------------------------------------------
(* Rows, files and catalogs.                                               *)

LEMMA NoFileType == NoRows \in Rows /\ NoFile \in File /\ Held(NoRows) = {}
BY StoreAssumption DEF NoRows, Rows, NoFile, File, Held

\* What merge_frames returns: the rows of both frames, of both months.
LEMMA MergeFacts ==
  ASSUME NEW a \in Rows, NEW b \in Rows
  PROVE  /\ MergeFrames(a, b) \in Rows
         /\ Held(MergeFrames(a, b)) = Held(a) \cup Held(b)
BY DEF MergeFrames, Rows, Held

LEMMA SplitFacts ==
  ASSUME NEW b \in Rows, NEW m \in Months
  PROVE  /\ SplitByMonth(b, m) \in Rows
         /\ Held(SplitByMonth(b, m)) = {s \in Held(b) : MonthOf[s] = m}
BY DEF SplitByMonth, Rows, Held

LEMMA RecordRunFacts ==
  ASSUME NEW cat \in CatalogState, NEW p \in Procs, NEW st \in RunStatus
  PROVE  /\ RecordRun(cat, p, st) \in CatalogState
         /\ RecordRun(cat, p, st).exists
         /\ RecordRun(cat, p, st).coverage = cat.coverage
         /\ RecordRun(cat, p, st).index = cat.index
         /\ RecordRun(cat, p, st).lineage = cat.lineage
BY DEF RecordRun, CatalogState

LEMMA ApplyCoverageFacts ==
  ASSUME NEW old \in Coverage, NEW new \in Coverage
  PROVE  /\ ApplyCoverage(old, new) \in Coverage
         /\ \A s \in Slots : ApplyCoverage(old, new)[s] = "available" <=>
                               "available" \in {old[s], new[s]}
BY DEF ApplyCoverage, Coverage, Prefer, Status

\* The catalog after a commit, field by field.
LEMMA CommittedFacts ==
  ASSUME NEW cat \in CatalogState, NEW p \in Procs, NEW k \in Keys,
         NEW v \in Providers \cup {None}, NEW segments \in Coverage,
         NEW prepared \in [Months -> File]
  PROVE  LET new == CommittedCatalog(cat, p, k, v, segments, prepared) IN
         /\ new \in CatalogState
         /\ new.exists
         /\ \A j \in Keys \ {k} : /\ new.index[j] = cat.index[j]
                                  /\ new.coverage[j] = cat.coverage[j]
         /\ \A m \in Months :
              new.index[k][m] = IF prepared[m] # NoFile THEN prepared[m]
                                ELSE cat.index[k][m]
         /\ new.coverage[k] = ApplyCoverage(cat.coverage[k], segments)
<1> DEFINE cov == [cat.coverage EXCEPT ![k] = ApplyCoverage(@, segments)]
           files == [m \in Months |-> IF prepared[m] # NoFile THEN prepared[m]
                                      ELSE cat.index[k][m]]
           idx == [cat.index EXCEPT ![k] = files]
           runs == [cat.runs EXCEPT ![p] = "completed"]
           lin(b) == [cat.lineage EXCEPT ![k] = IF b THEN v ELSE @]
           changed == (\E m \in Months : prepared[m] # NoFile) \/ segments # Nothing
<1>1. /\ cat.exists \in BOOLEAN /\ cat.coverage \in [Keys -> Coverage]
      /\ cat.index \in [Keys -> [Months -> File]]
      /\ cat.lineage \in [Keys -> Providers \cup {None}]
      /\ cat.runs \in [Procs -> RunStatus]
  BY DEF CatalogState
<1>2. cov \in [Keys -> Coverage] /\ cov[k] = ApplyCoverage(cat.coverage[k], segments)
  BY <1>1, ApplyCoverageFacts
<1>3. files \in [Months -> File]
  BY <1>1
<1>4. idx \in [Keys -> [Months -> File]] /\ idx[k] = files
  BY <1>1, <1>3
<1>5. runs \in [Procs -> RunStatus]
  BY <1>1 DEF RunStatus
<1>6. \A b \in BOOLEAN : lin(b) \in [Keys -> Providers \cup {None}]
  BY <1>1
<1>7. \A j \in Keys \ {k} : idx[j] = cat.index[j] /\ cov[j] = cat.coverage[j]
  BY <1>1
<1>8. CommittedCatalog(cat, p, k, v, segments, prepared)
        = [exists |-> TRUE, coverage |-> cov, index |-> idx,
           lineage |-> lin(changed), runs |-> runs]
  BY DEF CommittedCatalog
<1>9. lin(changed) \in [Keys -> Providers \cup {None}]
  BY <1>6
<1>10. \A m \in Months : files[m] = IF prepared[m] # NoFile THEN prepared[m]
                                   ELSE cat.index[k][m]
  OBVIOUS
<1> HIDE DEF cov, idx, files, runs, lin, changed
<1> DEFINE new == CommittedCatalog(cat, p, k, v, segments, prepared)
<1>11. new \in CatalogState
  BY <1>2, <1>4, <1>5, <1>8, <1>9 DEF CatalogState
<1>12. new.exists /\ new.coverage = cov /\ new.index = idx
  BY <1>8
<1> HIDE DEF new
<1> QED BY <1>2, <1>4, <1>7, <1>10, <1>11, <1>12 DEF new

-----------------------------------------------------------------------------
(* What the actions do to the calls.                                       *)

\* One call changes; its row of the type is the new value c.
LEMMA CallChanges ==
  ASSUME SyncTypeOK, NEW p \in Procs, NEW c \in Call,
         proc' = [proc EXCEPT ![p] = c]
  PROVE  /\ proc' \in [Procs -> Call]
         /\ proc'[p] = c
         /\ \A q \in Procs \ {p} : proc'[q] = proc[q]
BY DEF SyncTypeOK

\* Only the call of p changes.
Moved(p) ==
  /\ proc' \in [Procs -> Call]
  /\ \A q \in Procs \ {p} : proc'[q] = proc[q]

\* What a call has fetched, prepared and published is as before.
Keeps(p) ==
  /\ Moved(p)
  /\ proc'[p].key = proc[p].key
  /\ proc'[p].batch = proc[p].batch
  /\ proc'[p].prepared = proc[p].prepared
  /\ proc'[p].published = proc[p].published

\* The call starts or ends: it has nothing.
Blank(p) ==
  /\ Moved(p)
  /\ proc'[p].batch = NoRows
  /\ proc'[p].prepared = [m \in Months |-> NoFile]
  /\ proc'[p].published = {}

LEMMA NoCallType == NoCall \in Call
BY NoFileType DEF NoCall, Call, Outcome

LEMMA ProcFields ==
  ASSUME SyncTypeOK, NEW p \in Procs
  PROVE  /\ proc[p] \in Call
         /\ proc[p].pc \in {"idle", "locking", "done"} \cup Locked
         /\ proc[p].prov \in Providers \cup {None}
         /\ proc[p].gaps \in SUBSET Slots
         /\ proc[p].req \in SUBSET Slots
         /\ proc[p].evidence \in Nat
         /\ proc[p].observed \in SUBSET Slots
         /\ proc[p].batch \in Rows
         /\ proc[p].prepared \in [Months -> File]
         /\ proc[p].published \in SUBSET Months
         /\ proc[p].outcome \in Outcome
         /\ proc[p].key \in Keys \cup {None}
BY DEF SyncTypeOK, Call

LEMMA StartCallEffect ==
  ASSUME SyncTypeOK, NEW p \in Procs, NEW k \in Keys, NEW r \in Requests,
         NEW v \in Providers, StartCall(p, k, r, v)
  PROVE  Blank(p) /\ proc'[p].pc = "locking" /\ proc'[p].key = k
<1> DEFINE c == [NoCall EXCEPT !.pc = "locking", !.key = k, !.req = r, !.prov = v]
<1>1. c \in Call
  BY NoCallType, SyncAssumption DEF Call
<1>2. proc' = [proc EXCEPT ![p] = c]
  BY DEF StartCall
<1>3. /\ c.pc = "locking" /\ c.key = k /\ c.batch = NoRows /\ c.published = {}
      /\ c.prepared = [m \in Months |-> NoFile]
  BY DEF NoCall
<1> HIDE DEF c
<1> QED BY <1>1, <1>2, <1>3, CallChanges DEF Blank, Moved

LEMMA AcquireEffect ==
  ASSUME SyncTypeOK, NEW p \in Procs, AcquireDatasetLock(p)
  PROVE  Keeps(p) /\ proc'[p].pc = "planning"
<1> DEFINE c == [proc[p] EXCEPT !.pc = "planning"]
<1>1. c \in Call
  BY ProcFields DEF Call, Locked
<1>2. proc' = [proc EXCEPT ![p] = c]
  BY DEF AcquireDatasetLock
<1>3. /\ c.pc = "planning" /\ c.key = proc[p].key /\ c.batch = proc[p].batch
      /\ c.prepared = proc[p].prepared /\ c.published = proc[p].published
  BY ProcFields DEF Call
<1> HIDE DEF c
<1> QED BY <1>1, <1>2, <1>3, CallChanges DEF Keeps, Moved

LEMMA EndsEffect ==
  ASSUME SyncTypeOK, NEW p \in Procs, NEW outcome \in Outcome,
         proc' = [proc EXCEPT ![p] = [NoCall EXCEPT !.pc = "done",
                                                    !.key = proc[p].key,
                                                    !.outcome = outcome]]
  PROVE  Blank(p) /\ proc'[p].pc = "done"
<1> DEFINE c == [NoCall EXCEPT !.pc = "done", !.key = proc[p].key,
                               !.outcome = outcome]
<1>1. c \in Call
  BY NoCallType, ProcFields DEF Call
<1>2. /\ c.pc = "done" /\ c.batch = NoRows /\ c.published = {}
      /\ c.prepared = [m \in Months |-> NoFile]
  BY DEF NoCall
<1>3. proc' = [proc EXCEPT ![p] = c]
  OBVIOUS
<1> HIDE DEF c
<1> QED BY <1>1, <1>2, <1>3, CallChanges DEF Blank, Moved

LEMMA ClearedEffect ==
  ASSUME SyncTypeOK, NEW p \in Procs, proc' = [proc EXCEPT ![p] = NoCall]
  PROVE  Blank(p) /\ proc'[p].pc = "idle"
<1>1. /\ NoCall.pc = "idle" /\ NoCall.batch = NoRows /\ NoCall.published = {}
      /\ NoCall.prepared = [m \in Months |-> NoFile]
  BY DEF NoCall
<1> QED BY <1>1, NoCallType, CallChanges DEF Blank, Moved

LEMMA PlanEffect ==
  ASSUME SyncTypeOK, NEW p \in Procs, Plan(p)
  PROVE  Keeps(p) /\ proc'[p].pc \in {"preparing", "observing"}
<1> DEFINE gaps == MissingIn(catalog.coverage[proc[p].key], proc[p].req)
           c == [proc[p] EXCEPT
                   !.pc = IF gaps = {} THEN "preparing" ELSE "observing",
                   !.gaps = gaps,
                   !.lineage = catalog.lineage[proc[p].key]]
<1>1. gaps \in SUBSET Slots
  BY ProcFields DEF MissingIn
<1>2. catalog.lineage[proc[p].key] \in Providers \cup {None}
  BY DEF Plan, At, SyncTypeOK, CatalogState
<1>3. c \in Call
  BY <1>1, <1>2, ProcFields, ZenonT(90) DEF Call, Locked
<1>4. proc' = [proc EXCEPT ![p] = c]
  BY DEF Plan, PlannedLineage
<1>5. /\ c.pc \in {"preparing", "observing"} /\ c.key = proc[p].key
      /\ c.batch = proc[p].batch
      /\ c.prepared = proc[p].prepared /\ c.published = proc[p].published
  BY ProcFields DEF Call
<1> HIDE DEF c
<1> QED BY <1>3, <1>4, <1>5, CallChanges DEF Keeps, Moved

LEMMA ObserveEffect ==
  ASSUME SyncTypeOK, NEW p \in Procs, Observe(p)
  PROVE  Keeps(p) /\ proc'[p].pc = "replying"
<1> DEFINE c == [proc[p] EXCEPT !.pc = "replying", !.evidence = clock]
<1>1. c \in Call
  BY ProcFields, ZenonT(90) DEF Call, Locked, SyncTypeOK
<1>2. proc' = [proc EXCEPT ![p] = c]
  BY DEF Observe
<1>3. /\ c.pc = "replying" /\ c.key = proc[p].key /\ c.batch = proc[p].batch
      /\ c.prepared = proc[p].prepared /\ c.published = proc[p].published
  BY ProcFields DEF Call
<1> HIDE DEF c
<1> QED BY <1>1, <1>2, <1>3, CallChanges DEF Keeps, Moved

\* Every step into the failure handler of phase 2.
LEMMA FailingEffect ==
  ASSUME SyncTypeOK, NEW p \in Procs, NEW outcome \in Outcome,
         proc' = [proc EXCEPT ![p].pc = "failing", ![p].outcome = outcome]
  PROVE  Keeps(p) /\ proc'[p].pc = "failing"
<1> DEFINE c == [proc[p] EXCEPT !.pc = "failing", !.outcome = outcome]
<1>1. c \in Call
  BY ProcFields, ZenonT(60) DEF Call, Locked
<1>2. proc' = [proc EXCEPT ![p] = c]
  OBVIOUS
<1>3. /\ c.pc = "failing" /\ c.key = proc[p].key /\ c.batch = proc[p].batch
      /\ c.prepared = proc[p].prepared /\ c.published = proc[p].published
  BY ProcFields DEF Call
<1> HIDE DEF c
<1> QED BY <1>1, <1>2, <1>3, CallChanges DEF Keeps, Moved

\* Every step that moves a call to another phase and changes nothing else.
LEMMA PhaseEffect ==
  ASSUME SyncTypeOK, NEW p \in Procs, NEW pc \in Locked,
         proc' = [proc EXCEPT ![p].pc = pc]
  PROVE  Keeps(p) /\ proc'[p].pc = pc
<1> DEFINE c == [proc[p] EXCEPT !.pc = pc]
<1>1. c \in Call
  BY ProcFields DEF Call
<1>2. proc' = [proc EXCEPT ![p] = c]
  OBVIOUS
<1>3. /\ c.pc = pc /\ c.key = proc[p].key /\ c.batch = proc[p].batch
      /\ c.prepared = proc[p].prepared /\ c.published = proc[p].published
  BY ProcFields DEF Call
<1> HIDE DEF c
<1> QED BY <1>1, <1>2, <1>3, CallChanges DEF Keeps, Moved

LEMMA RepliesEffect ==
  ASSUME SyncTypeOK, NEW p \in Procs, ProviderReplies(p)
  PROVE  /\ Moved(p)
         /\ proc'[p].pc = "preparing"
         /\ proc'[p].key = proc[p].key
         /\ proc'[p].prepared = proc[p].prepared
         /\ proc'[p].published = proc[p].published
<1>1. PICK seen \in SUBSET FetchWindow(proc[p].gaps), values \in [Slots -> Values] :
        LET bars == {s \in seen \cap Bars[proc[p].prov] : s < clock}
            rows == [s \in Slots |->
                       IF s \in Finalizable(bars, proc[p].evidence)
                       THEN values[s] ELSE None]
        IN  proc' = [proc EXCEPT ![p].pc = "preparing",
                                 ![p].observed = seen,
                                 ![p].batch = FilterToRanges(rows, proc[p].gaps)]
  BY DEF ProviderReplies
<1> DEFINE bars == {s \in seen \cap Bars[proc[p].prov] : s < clock}
           rows == [s \in Slots |->
                      IF s \in Finalizable(bars, proc[p].evidence)
                      THEN values[s] ELSE None]
           batch == FilterToRanges(rows, proc[p].gaps)
           c == [proc[p] EXCEPT !.pc = "preparing", !.observed = seen,
                                !.batch = batch]
<1>2. rows \in Rows
  BY DEF Rows
<1> HIDE DEF rows
<1>3. batch \in Rows
  BY <1>2 DEF Rows, FilterToRanges
<1>4. seen \in SUBSET Slots
  BY DEF FetchWindow
<1>5. c \in Call
  BY <1>3, <1>4, ProcFields, ZenonT(60) DEF Call, Locked
<1>6. proc' = [proc EXCEPT ![p] = c]
  BY <1>1 DEF rows
<1>7. /\ c.pc = "preparing" /\ c.key = proc[p].key
      /\ c.prepared = proc[p].prepared /\ c.published = proc[p].published
  BY ProcFields DEF Call
<1> HIDE DEF c
<1> QED BY <1>5, <1>6, <1>7, CallChanges DEF Moved

\* The file prepare_month writes for month m.
MergedFile(p, m) ==
  [prov |-> proc[p].prov,
   rows |-> MergeFrames(disk[proc[p].key][m].rows, SplitByMonth(proc[p].batch, m))]

LEMMA PrepareEffect ==
  ASSUME SyncTypeOK, NEW p \in Procs, NEW m \in Months, PrepareMonth(p, m)
  PROVE  /\ Moved(p)
         /\ proc'[p].pc = "preparing"
         /\ proc'[p].key = proc[p].key
         /\ proc'[p].batch = proc[p].batch
         /\ proc'[p].prepared = [proc[p].prepared EXCEPT ![m] = MergedFile(p, m)]
         /\ proc'[p].published = proc[p].published
         /\ MergedFile(p, m) \in File
<1> DEFINE new == [proc[p].prepared EXCEPT ![m] = MergedFile(p, m)]
           c == [proc[p] EXCEPT !.prepared = new]
<1>1. disk[proc[p].key][m].rows \in Rows
  BY DEF PrepareMonth, At, SyncTypeOK, File
<1>2. MergedFile(p, m) \in File
  BY <1>1, ProcFields, MergeFacts, SplitFacts DEF MergedFile, File
<1>3. new \in [Months -> File]
  BY <1>2, ProcFields
<1>4. proc' = [proc EXCEPT ![p] = c]
  BY DEF PrepareMonth, MergedFile
<1> HIDE DEF new
<1>5. c \in Call
  BY <1>3, ProcFields DEF Call
<1>6. /\ c.pc = "preparing" /\ c.key = proc[p].key /\ c.batch = proc[p].batch
      /\ c.prepared = new /\ c.published = proc[p].published
  BY ProcFields DEF Call, PrepareMonth, At
<1> HIDE DEF c
<1> QED BY <1>2, <1>4, <1>5, <1>6, CallChanges DEF Moved, new

LEMMA PublishEffect ==
  ASSUME SyncTypeOK, NEW p \in Procs, NEW m \in Months, PublishMonth(p, m)
  PROVE  /\ Moved(p)
         /\ proc'[p].pc = "publishing"
         /\ proc'[p].key = proc[p].key
         /\ proc'[p].batch = proc[p].batch
         /\ proc'[p].prepared = proc[p].prepared
         /\ proc'[p].published = proc[p].published \cup {m}
<1> DEFINE c == [proc[p] EXCEPT !.published = @ \cup {m}]
<1>1. c \in Call
  BY ProcFields DEF Call
<1>2. proc' = [proc EXCEPT ![p] = c]
  BY DEF PublishMonth
<1>3. /\ c.pc = "publishing" /\ c.key = proc[p].key /\ c.batch = proc[p].batch
      /\ c.prepared = proc[p].prepared
      /\ c.published = proc[p].published \cup {m}
  BY ProcFields DEF Call, PublishMonth, At
<1> HIDE DEF c
<1> QED BY <1>1, <1>2, <1>3, CallChanges DEF Moved

-----------------------------------------------------------------------------
(* The kinds of steps.  Every action is of one kind, and the parts of the  *)
(* invariant other than its types are preserved by each kind.              *)

\* Coverage and index are as before; a catalog that appears finds no files.
FactsKept ==
  /\ catalog' \in CatalogState
  /\ catalog'.index = catalog.index
  /\ catalog'.coverage = catalog.coverage
  /\ catalog.exists => catalog'.exists
  /\ catalog'.exists \/ catalog' = NoCatalog
  /\ catalog'.exists /\ ~catalog.exists =>
       \A k \in Keys, m \in Months : catalog.index[k][m] = disk[k][m]

\* The transaction of p's call is durable.
FactsCommitted(p) ==
  LET k == proc[p].key IN
  /\ catalog' \in CatalogState
  /\ catalog'.exists
  /\ \A j \in Keys \ {k} : /\ catalog'.index[j] = catalog.index[j]
                           /\ catalog'.coverage[j] = catalog.coverage[j]
  /\ \A m \in Months :
       catalog'.index[k][m] = IF m \in PreparedMonths(p) THEN proc[p].prepared[m]
                              ELSE catalog.index[k][m]
  /\ catalog'.coverage[k] = ApplyCoverage(catalog.coverage[k], NewSegments(p))
  /\ AllPublished(p)
  /\ At(p, "publishing")

GateLeft(p) == gate' = IF gate = p THEN NoOwner ELSE gate

Starts(p) ==
  /\ At(p, "idle")
  /\ Blank(p) /\ proc'[p].pc = "locking" /\ proc'[p].key \in Keys
  /\ UNCHANGED <<disk, catalog, lock, gate, faulted>>

Locks(p) ==
  /\ At(p, "locking")
  /\ Keeps(p) /\ proc'[p].pc = "planning"
  /\ lock[proc[p].key] = NoOwner
  /\ lock' = [lock EXCEPT ![proc[p].key] = p]
  /\ UNCHANGED <<disk, catalog, gate, faulted>>

\* To the next phase, or to the failure handler.
Proceeds(p) ==
  /\ proc[p].pc \in Locked
  /\ Keeps(p) /\ proc'[p].pc \in {"observing", "replying", "preparing", "failing"}
  /\ proc'[p].pc \in {"observing", "replying"} =>
       proc[p].pc \in {"planning", "observing"}
  /\ proc[p].published = {}
  /\ FactsKept /\ catalog'.exists
  /\ GateLeft(p)
  /\ UNCHANGED <<disk, lock, faulted>>

Enters(p) ==
  /\ At(p, "preparing") /\ AllPrepared(p)
  /\ Keeps(p) /\ proc'[p].pc = "publishing"
  /\ FactsKept /\ catalog'.exists
  /\ gate = NoOwner /\ gate' = p
  /\ UNCHANGED <<disk, lock, faulted>>

Doubts(p) ==
  /\ At(p, "publishing") /\ AllPublished(p)
  /\ Keeps(p) /\ proc'[p].pc = "uncertain"
  /\ UNCHANGED catalog \/ FactsCommitted(p)
  /\ GateLeft(p)
  /\ UNCHANGED <<disk, lock, faulted>>

\* What p published is indexed, or its dataset is left for maintenance.
Settled(p) ==
  \/ proc[p].published = {}
  \/ faulted' = faulted \cup {proc[p].key}
  \/ \A m \in proc[p].published :
       catalog'.index[proc[p].key][m] = disk[proc[p].key][m]

Stops(p) ==
  /\ ~At(p, "idle")
  /\ Blank(p) /\ proc'[p].pc \in {"done", "idle"}
  /\ FactsKept \/ FactsCommitted(p)
  /\ lock' = IF proc[p].pc \in Locked THEN [lock EXCEPT ![proc[p].key] = NoOwner]
                                      ELSE lock
  /\ GateLeft(p)
  /\ faulted \subseteq faulted' /\ faulted' \in SUBSET Keys
  /\ Settled(p)
  /\ UNCHANGED disk

Step(p) ==
  \/ Starts(p) \/ Locks(p) \/ Proceeds(p) \/ Enters(p) \/ Doubts(p) \/ Stops(p)
  \/ ProviderReplies(p)
  \/ \E m \in Months : PrepareMonth(p, m) \/ PublishMonth(p, m)

LEMMA FactsUnchanged ==
  ASSUME SyncTypeOK, LocksHeld, UNCHANGED catalog PROVE FactsKept
BY DEF FactsKept, SyncTypeOK, LocksHeld

LEMMA FactsRecorded ==
  ASSUME SyncTypeOK, NEW p \in Procs, NEW st \in RunStatus,
         catalog' = RecordRun(catalog, p, st),
         catalog.exists \/ \A k \in Keys, m \in Months : catalog.index[k][m] = disk[k][m]
  PROVE  FactsKept /\ catalog'.exists
BY RecordRunFacts DEF FactsKept, SyncTypeOK

LEMMA NewSegmentsType ==
  ASSUME NEW p \in Procs PROVE NewSegments(p) \in Coverage
BY DEF NewSegments, BarSegments, Coverage, Status

LEMMA CommitFacts ==
  ASSUME SyncTypeOK, NEW p \in Procs, At(p, "publishing"), AllPublished(p),
         catalog' = Committed(p)
  PROVE  FactsCommitted(p)
<1>1. proc[p].key \in Keys
  BY DEF SyncTypeOK, At
<1>2. catalog \in CatalogState
  BY DEF SyncTypeOK
<1> DEFINE k == proc[p].key
           prepared == proc[p].prepared
           segments == NewSegments(p)
           provider == proc[p].prov
           new == CommittedCatalog(catalog, p, k, provider, segments, prepared)
<1>3. /\ k \in Keys /\ provider \in Providers \cup {None} /\ prepared \in [Months -> File]
      /\ segments \in Coverage
  BY <1>1, ProcFields, NewSegmentsType
<1> HIDE DEF k, provider, prepared, segments
<1>4. /\ new \in CatalogState
      /\ new.exists
      /\ \A j \in Keys \ {k} : /\ new.index[j] = catalog.index[j]
                               /\ new.coverage[j] = catalog.coverage[j]
      /\ \A m \in Months :
           new.index[k][m] = IF prepared[m] # NoFile THEN prepared[m]
                             ELSE catalog.index[k][m]
      /\ new.coverage[k] = ApplyCoverage(catalog.coverage[k], segments)
  BY <1>2, <1>3, CommittedFacts
<1>5. catalog' = new
  BY DEF Committed, k, provider, prepared, segments
<1>6. \A m \in Months : m \in PreparedMonths(p) <=> prepared[m] # NoFile
  BY DEF PreparedMonths, prepared
<1> HIDE DEF new
<1> QED
  BY <1>4, <1>5, <1>6 DEF FactsCommitted, k, prepared, segments

\* FileLock releases: the call ends and its lock is free.
LEMMA FinishEffect ==
  ASSUME SyncTypeOK, NEW p \in Procs, proc[p].pc \in Locked, NEW outcome \in Outcome,
         Finish(p, outcome)
  PROVE  /\ Blank(p) /\ proc'[p].pc = "done"
         /\ lock' = IF proc[p].pc \in Locked
                    THEN [lock EXCEPT ![proc[p].key] = NoOwner] ELSE lock
BY EndsEffect DEF Finish, Unlock

LEMMA AbandonEffect ==
  ASSUME SyncTypeOK, NEW p \in Procs, NEW outcome \in Outcome, Abandon(p, outcome)
  PROVE  Keeps(p) /\ proc'[p].pc = "failing"
BY FailingEffect DEF Abandon

\* The actions of a call that has the lock but has not entered publication.
LEMMA EarlyKinds ==
  ASSUME SyncTypeOK, LocksHeld, PreparedCurrent, NEW p \in Procs,
         \/ Plan(p) \/ PlanFails(p) \/ Observe(p) \/ RejectLineage(p)
         \/ ObservationFails(p) \/ RecordFailedRun(p)
         \/ EnterPublication(p) \/ EnterFails(p)
         \/ \E m \in Months : PrepareFails(p, m)
  PROVE  Step(p)
<1> USE DEF At, Locked
<1>0. gate = NoOwner => gate # p
  BY SyncAssumption
<1>1. CASE Plan(p)
  <2>1. Keeps(p) /\ proc'[p].pc \in {"preparing", "observing"}
    BY <1>1, PlanEffect
  <2>2. catalog.exists \/ \A k \in Keys, m \in Months : catalog.index[k][m] = disk[k][m]
    <3>1. catalog.exists \/ catalog = NoCatalog
      BY DEF LocksHeld
    <3>2. \A k \in Keys, m \in Months : NoCatalog.index[k][m] = NoFile
      BY SMTT(60) DEF NoCatalog
    <3>3. catalog.exists \/ \A k \in Keys, m \in Months : disk[k][m] = NoFile
      BY <1>1, ZenonT(60) DEF Plan, StorageEmpty
    <3> QED BY <3>1, <3>2, <3>3
  <2>3. FactsKept /\ catalog'.exists
    BY <1>1, <2>2, FactsRecorded DEF Plan, RunStatus
  <2> QED
    BY <1>1, <1>0, <2>1, <2>3 DEF Plan, Step, Proceeds, GateLeft, PreparedCurrent, PreparedBy
<1>2. CASE PlanFails(p)
  <2>1. Blank(p) /\ proc'[p].pc = "done" /\ lock' = [lock EXCEPT ![proc[p].key] = NoOwner]
    BY <1>2, FinishEffect DEF PlanFails, Outcome
  <2>2. FactsKept
    BY <1>2, FactsUnchanged DEF PlanFails
  <2>3. gate # p /\ proc[p].published = {}
    BY <1>2 DEF PlanFails, LocksHeld, PreparedCurrent, PreparedBy
  <2> QED
    BY <1>2, <2>1, <2>2, <2>3 DEF PlanFails, Step, Stops, GateLeft, Settled, SyncTypeOK
<1>3. CASE Observe(p)
  <2>1. Keeps(p) /\ proc'[p].pc = "replying"
    BY <1>3, ObserveEffect
  <2>2. FactsKept /\ catalog'.exists
    BY <1>3, FactsUnchanged DEF Observe, LocksHeld
  <2>3. gate # p /\ proc[p].published = {}
    BY <1>3 DEF Observe, LocksHeld, PreparedCurrent, PreparedBy
  <2> QED
    BY <1>3, <2>1, <2>2, <2>3 DEF Observe, Step, Proceeds, GateLeft
<1>4. CASE RejectLineage(p) \/ ObservationFails(p) \/ EnterFails(p)
  <2>1. Keeps(p) /\ proc'[p].pc = "failing"
    BY <1>4, AbandonEffect DEF RejectLineage, ObservationFails, EnterFails, Outcome
  <2>2. FactsKept /\ catalog'.exists
    BY <1>4, FactsUnchanged DEF RejectLineage, ObservationFails, EnterFails, LocksHeld
  <2>3. gate # p /\ proc[p].published = {}
    BY <1>4 DEF RejectLineage, ObservationFails, EnterFails, LocksHeld, PreparedCurrent, PreparedBy
  <2> QED
    BY <1>4, <2>1, <2>2, <2>3
    DEF RejectLineage, ObservationFails, EnterFails, Abandon, Step, Proceeds, GateLeft
<1>5. CASE RecordFailedRun(p)
  <2>1. Blank(p) /\ proc'[p].pc = "done" /\ lock' = [lock EXCEPT ![proc[p].key] = NoOwner]
    <3>1. proc[p].outcome \in Outcome
      BY ProcFields
    <3> QED BY <1>5, <3>1, FinishEffect DEF RecordFailedRun
  <2>2. FactsKept
    BY <1>5, FactsUnchanged, FactsRecorded DEF RecordFailedRun, RunStatus, LocksHeld
  <2>3. gate # p /\ proc[p].published = {}
    BY <1>5 DEF RecordFailedRun, LocksHeld, PreparedCurrent, PreparedBy
  <2> QED
    BY <1>5, <2>1, <2>2, <2>3
    DEF RecordFailedRun, Step, Stops, GateLeft, Settled, SyncTypeOK
<1>6. CASE EnterPublication(p)
  <2>1. Keeps(p) /\ proc'[p].pc = "publishing"
    BY <1>6, PhaseEffect DEF EnterPublication
  <2>2. FactsKept /\ catalog'.exists
    BY <1>6, FactsRecorded DEF EnterPublication, RunStatus, LocksHeld
  <2> QED
    BY <1>6, <2>1, <2>2 DEF EnterPublication, Step, Enters
<1>7. ASSUME NEW m \in Months, PrepareFails(p, m) PROVE Step(p)
  <2>1. Keeps(p) /\ proc'[p].pc = "failing"
    BY <1>7, FailingEffect DEF PrepareFails, Outcome
  <2>2. FactsKept /\ catalog'.exists
    BY <1>7, FactsUnchanged DEF PrepareFails, LocksHeld
  <2>3. gate # p /\ proc[p].published = {}
    BY <1>7 DEF PrepareFails, LocksHeld, PreparedCurrent, PreparedBy
  <2> QED
    BY <1>7, <2>1, <2>2, <2>3 DEF PrepareFails, Step, Proceeds, GateLeft
<1> QED BY <1>1, <1>2, <1>3, <1>4, <1>5, <1>6, <1>7

\* The actions of a call that publishes or has published.
LEMMA LateKinds ==
  ASSUME SyncTypeOK, LocksHeld, PreparedCurrent, NEW p \in Procs,
         \/ PublicationFails(p) \/ Commit(p)
         \/ CommitUncertain(p) \/ ResolveVisible(p) \/ ResolveInvisible(p)
  PROVE  Step(p)
<1> USE DEF At, Locked
<1>0. /\ At(p, "publishing") <=> gate = p
      /\ proc[p].key \in Keys \/ proc[p].pc \notin {"publishing", "uncertain"}
  BY DEF LocksHeld, SyncTypeOK
<1>1. CASE PublicationFails(p)
  <2>1. PICK outcome \in {"error", "lineage"} : PublicationRaises(p, outcome)
    BY <1>1 DEF PublicationFails, Rejections
  <2>2. gate = p /\ gate' = NoOwner /\ UNCHANGED <<disk, catalog>>
    BY <1>0, <1>1 DEF PublicationFails
  <2>3. FactsKept /\ catalog'.exists
    BY <1>1, <2>2, FactsUnchanged DEF LocksHeld, PublicationFails
  <2>4. proc[p].pc = "publishing"
    BY <1>1 DEF PublicationFails
  <2>5. CASE AnyPublished(p)
    <3>1. /\ \E o \in Outcome : Finish(p, o)
          /\ faulted' = faulted \cup {proc[p].key}
      BY <2>1, <2>5 DEF PublicationRaises, Outcome
    <3>2. Blank(p) /\ proc'[p].pc = "done" /\ lock' = [lock EXCEPT ![proc[p].key] = NoOwner]
      BY <3>1, <2>4, FinishEffect
    <3>3. faulted' \in SUBSET Keys
      BY <1>0, <2>4, <3>1 DEF SyncTypeOK
    <3> QED
      BY <2>2, <2>3, <2>4, <3>1, <3>2, <3>3 DEF Step, Stops, GateLeft, Settled
  <2>6. CASE ~AnyPublished(p)
    <3>1. /\ proc' = [proc EXCEPT ![p].pc = "failing", ![p].outcome = outcome]
          /\ UNCHANGED <<lock, faulted>>
      BY <2>1, <2>6 DEF PublicationRaises
    <3>2. Keeps(p) /\ proc'[p].pc = "failing"
      BY <3>1, FailingEffect DEF Outcome
    <3> QED
      BY <2>2, <2>3, <2>4, <2>6, <3>1, <3>2 DEF Step, Proceeds, GateLeft, AnyPublished
  <2> QED BY <2>5, <2>6
<1>2. CASE Commit(p)
  <2>1. FactsCommitted(p)
    BY <1>2, CommitFacts DEF Commit, MayCommit
  <2>2. Blank(p) /\ proc'[p].pc = "done" /\ lock' = [lock EXCEPT ![proc[p].key] = NoOwner]
    BY <1>2, FinishEffect DEF Commit, MayCommit, Outcome
  <2>3. \A m \in proc[p].published :
          catalog'.index[proc[p].key][m] = disk[proc[p].key][m]
    BY <1>2, <2>1, ProcFields DEF FactsCommitted, PreparedCurrent, PreparedBy, Commit, MayCommit
  <2> QED
    BY <1>0, <1>2, <2>1, <2>2, <2>3
    DEF Commit, MayCommit, Step, Stops, GateLeft, Settled, SyncTypeOK
<1>3. CASE CommitUncertain(p)
  <2>1. UNCHANGED catalog \/ FactsCommitted(p)
    BY <1>3, CommitFacts DEF CommitUncertain, MayCommit
  <2>2. Keeps(p) /\ proc'[p].pc = "uncertain"
    BY <1>3, PhaseEffect DEF CommitUncertain
  <2> QED
    BY <1>0, <1>3, <2>1, <2>2 DEF CommitUncertain, MayCommit, Step, Doubts, GateLeft
<1>4. CASE ResolveVisible(p)
  <2>1. FactsKept
    BY <1>4, FactsUnchanged DEF ResolveVisible
  <2>2. Blank(p) /\ proc'[p].pc = "done" /\ lock' = [lock EXCEPT ![proc[p].key] = NoOwner]
    BY <1>4, FinishEffect DEF ResolveVisible, Outcome
  <2>3. \A m \in proc[p].published :
          catalog'.index[proc[p].key][m] = disk[proc[p].key][m]
    BY <1>4, ProcFields
    DEF ResolveVisible, TerminalCommitVisible, PreparedCurrent, PreparedBy, PreparedMonths
  <2> QED
    BY <1>0, <1>4, <2>1, <2>2, <2>3
    DEF ResolveVisible, Step, Stops, GateLeft, Settled, SyncTypeOK
<1>5. CASE ResolveInvisible(p)
  <2>1. FactsKept
    BY <1>5, FactsUnchanged DEF ResolveInvisible
  <2>2. \E o \in Outcome : Finish(p, o)
    BY <1>5 DEF ResolveInvisible, Outcome
  <2>3. Blank(p) /\ proc'[p].pc = "done" /\ lock' = [lock EXCEPT ![proc[p].key] = NoOwner]
    BY <1>5, <2>2, FinishEffect DEF ResolveInvisible
  <2>4. Settled(p) /\ faulted \subseteq faulted' /\ faulted' \in SUBSET Keys
    BY <1>0, <1>5 DEF ResolveInvisible, Settled, AnyPublished, SyncTypeOK
  <2> QED
    BY <1>0, <1>5, <2>1, <2>3, <2>4 DEF ResolveInvisible, Step, Stops, GateLeft
<1> QED BY <1>1, <1>2, <1>3, <1>4, <1>5

\* The actions of a caller without a lock, and death anywhere.
LEMMA OuterKinds ==
  ASSUME SyncTypeOK, LocksHeld, PreparedCurrent, NEW p \in Procs,
         \/ \E k \in Keys, r \in Requests, v \in Providers : StartCall(p, k, r, v)
         \/ AcquireDatasetLock(p) \/ DatasetLockTimesOut(p)
         \/ Return(p) \/ Crash(p)
  PROVE  Step(p)
<1> USE DEF At, Locked
<1>0. /\ At(p, "publishing") <=> gate = p
      /\ proc[p].pc \notin {"publishing", "uncertain"} => proc[p].published = {}
  BY DEF LocksHeld, PreparedCurrent, PreparedBy
<1>1. ASSUME NEW k \in Keys, NEW r \in Requests, NEW v \in Providers,
             StartCall(p, k, r, v)
      PROVE  Step(p)
  BY <1>1, StartCallEffect DEF StartCall, Step, Starts
<1>2. CASE AcquireDatasetLock(p)
  BY <1>2, AcquireEffect DEF AcquireDatasetLock, LockFree, Step, Locks
<1>3. CASE DatasetLockTimesOut(p)
  <2>1. Blank(p) /\ proc'[p].pc = "done"
    BY <1>3, EndsEffect DEF DatasetLockTimesOut, Outcome
  <2>2. FactsKept
    BY <1>3, FactsUnchanged DEF DatasetLockTimesOut
  <2> QED
    BY <1>0, <1>3, <2>1, <2>2
    DEF DatasetLockTimesOut, Step, Stops, GateLeft, Settled, SyncTypeOK
<1>4. CASE Return(p)
  <2>1. Blank(p) /\ proc'[p].pc = "idle"
    BY <1>4, ClearedEffect DEF Return
  <2>2. FactsKept
    BY <1>4, FactsUnchanged DEF Return
  <2> QED
    BY <1>0, <1>4, <2>1, <2>2 DEF Return, Step, Stops, GateLeft, Settled, SyncTypeOK
<1>5. CASE Crash(p)
  <2>1. Blank(p) /\ proc'[p].pc = "idle"
    BY <1>5, ClearedEffect DEF Crash
  <2>2. FactsKept
    BY <1>5, FactsUnchanged DEF Crash
  <2>3. Settled(p) /\ faulted \subseteq faulted' /\ faulted' \in SUBSET Keys
    BY <1>5 DEF Crash, Settled, SyncTypeOK
  <2> QED
    BY <1>5, <2>1, <2>2, <2>3 DEF Crash, Unlock, Step, Stops, GateLeft
<1> QED BY <1>1, <1>2, <1>3, <1>4, <1>5

LEMMA StepKinds ==
  ASSUME SyncTypeOK, LocksHeld, PreparedCurrent, SyncNext
  PROVE  Tick \/ \E p \in Procs : Step(p)
<1> SUFFICES ASSUME ~Tick PROVE \E p \in Procs : Step(p)
  OBVIOUS
<1>1. PICK p \in Procs :
        \/ \E k \in Keys, r \in Requests, v \in Providers : StartCall(p, k, r, v)
        \/ CallStep(p) \/ Return(p) \/ Crash(p)
  BY DEF SyncNext
<1>2. CASE CallStep(p)
  <2>1. CASE \E m \in Months : PrepareMonth(p, m) \/ PublishMonth(p, m)
    BY <2>1 DEF Step
  <2>2. CASE ProviderReplies(p)
    BY <2>2 DEF Step
  <2> QED BY <1>2, <2>1, <2>2, EarlyKinds, LateKinds, OuterKinds DEF CallStep
<1> QED BY <1>1, <1>2, OuterKinds

-----------------------------------------------------------------------------
(* Types.                                                                  *)

LEMMA DiscardedType ==
  ASSUME SyncTypeOK, NEW p \in Procs, NEW rest \in SUBSET Discarded(p),
         temps' = [temps EXCEPT ![proc[p].key] = rest],
         proc[p].key \in Keys
  PROVE  temps' \in [Keys -> SUBSET Months]
BY DEF SyncTypeOK, Discarded

LEMMA TempsAndClockTypes ==
  ASSUME SyncTypeOK, SyncNext
  PROVE  temps' \in [Keys -> SUBSET Months] /\ clock' \in Nat
<1> USE DEF At, Locked
<1>1. CASE Tick
  BY <1>1, SMTT(60) DEF Tick, SyncTypeOK
<1>2. ASSUME NEW p \in Procs,
             \/ \E k \in Keys, r \in Requests, v \in Providers : StartCall(p, k, r, v)
             \/ AcquireDatasetLock(p) \/ DatasetLockTimesOut(p)
             \/ Plan(p) \/ PlanFails(p) \/ Observe(p) \/ ProviderReplies(p)
             \/ RecordFailedRun(p) \/ EnterPublication(p)
             \/ Commit(p) \/ CommitUncertain(p)
             \/ ResolveVisible(p) \/ ResolveInvisible(p)
             \/ Return(p) \/ Crash(p)
      PROVE  temps' = temps /\ clock' = clock
  BY <1>2 DEF StartCall, AcquireDatasetLock, DatasetLockTimesOut, Plan, PlanFails,
              Observe, ProviderReplies, RecordFailedRun, EnterPublication, Commit,
              CommitUncertain, ResolveVisible, ResolveInvisible, Return, Crash
<1>3. ASSUME NEW p \in Procs,
             \/ RejectLineage(p) \/ ObservationFails(p) \/ EnterFails(p)
             \/ PublicationFails(p)
      PROVE  temps' \in [Keys -> SUBSET Months] /\ clock' = clock
  <2>1. /\ temps' = [temps EXCEPT ![proc[p].key] = Discarded(p)]
        /\ clock' = clock /\ proc[p].pc \notin {"idle", "done"}
    BY <1>3 DEF RejectLineage, ObservationFails, EnterFails, PublicationFails,
                Abandon, PublicationRaises
  <2>2. proc[p].key \in Keys
    BY <2>1 DEF SyncTypeOK
  <2> QED BY <2>1, <2>2, DiscardedType
<1>4. ASSUME NEW p \in Procs, NEW m \in Months,
             PrepareMonth(p, m) \/ PrepareFails(p, m) \/ PublishMonth(p, m)
      PROVE  temps' \in [Keys -> SUBSET Months] /\ clock' = clock
  <2>1. proc[p].key \in Keys
    BY <1>4 DEF SyncTypeOK, PrepareMonth, PrepareFails, PublishMonth
  <2>2. CASE PrepareFails(p, m)
    <3>1. /\ temps' = [temps EXCEPT ![proc[p].key] = Discarded(p) \ {m}]
          /\ clock' = clock
      BY <2>2 DEF PrepareFails
    <3>2. Discarded(p) \ {m} \in SUBSET Discarded(p)
      OBVIOUS
    <3> QED BY <2>1, <3>1, <3>2, DiscardedType
  <2> QED BY <1>4, <2>1, <2>2 DEF SyncTypeOK, PrepareMonth, PublishMonth
<1> QED
  BY <1>1, <1>2, <1>3, <1>4 DEF SyncNext, CallStep, SyncTypeOK

LEMMA KeysKept ==
  ASSUME SyncTypeOK, NEW p \in Procs, Moved(p),
         proc'[p].pc \in {"idle", "done"} \/ proc'[p].key \in Keys
  PROVE  /\ proc' \in [Procs -> Call]
         /\ \A q \in Procs : proc'[q].pc \notin {"idle", "done"} => proc'[q].key \in Keys
BY DEF Moved, SyncTypeOK

LEMMA TypeStep ==
  ASSUME SyncTypeOK, LocksHeld, PreparedCurrent, SyncNext
  PROVE  SyncTypeOK'
<1> USE DEF At, Locked
<1>1. temps' \in [Keys -> SUBSET Months] /\ clock' \in Nat
  BY TempsAndClockTypes
<1>2. CASE Tick
  BY <1>1, <1>2 DEF Tick, SyncTypeOK
<1>3. ASSUME NEW p \in Procs, Step(p)
      PROVE  SyncTypeOK'
  <2>0. proc[p].pc \notin {"idle", "done"} => proc[p].key \in Keys
    BY DEF SyncTypeOK
  <2>1. CASE Starts(p)
    BY <1>1, <2>1, KeysKept DEF Starts, Blank, SyncTypeOK
  <2>2. CASE Locks(p)
    BY <1>1, <2>0, <2>2, KeysKept DEF Locks, Keeps, SyncTypeOK
  <2>3. CASE Proceeds(p) \/ Enters(p) \/ Doubts(p)
    <3>1. proc[p].pc \in Locked /\ Keeps(p) /\ UNCHANGED <<disk, lock, faulted>>
      BY <2>3 DEF Proceeds, Enters, Doubts
    <3>2. catalog' \in CatalogState
      BY <2>3 DEF Proceeds, Enters, Doubts, FactsKept, FactsCommitted, SyncTypeOK
    <3> QED BY <1>1, <2>0, <3>1, <3>2, KeysKept DEF Keeps, SyncTypeOK
  <2>4. CASE Stops(p)
    <3>1. catalog' \in CatalogState
      BY <2>4 DEF Stops, FactsKept, FactsCommitted
    <3>2. lock' \in [Keys -> Procs \cup {NoOwner}]
      BY <2>4 DEF Stops, SyncTypeOK
    <3> QED BY <1>1, <2>4, <3>1, <3>2, KeysKept DEF Stops, Blank, SyncTypeOK
  <2>5. CASE ProviderReplies(p)
    BY <1>1, <2>0, <2>5, RepliesEffect, KeysKept, ZenonT(60) DEF ProviderReplies, SyncTypeOK
  <2>6. ASSUME NEW m \in Months, PrepareMonth(p, m)
        PROVE  SyncTypeOK'
    BY <1>1, <2>0, <2>6, PrepareEffect, KeysKept DEF PrepareMonth, SyncTypeOK
  <2>7. ASSUME NEW m \in Months, PublishMonth(p, m)
        PROVE  SyncTypeOK'
    <3>1. proc[p].prepared[m] \in File /\ proc[p].key \in Keys
      BY <2>0, <2>7, ProcFields DEF PublishMonth
    <3>2. disk' \in [Keys -> [Months -> File]]
      BY <2>7, <3>1 DEF PublishMonth, SyncTypeOK
    <3> QED
      BY <1>1, <2>7, <3>1, <3>2, PublishEffect, KeysKept DEF PublishMonth, SyncTypeOK
  <2> QED BY <1>3, <2>1, <2>2, <2>3, <2>4, <2>5, <2>6, <2>7 DEF Step
<1> QED BY <1>2, <1>3, StepKinds

-----------------------------------------------------------------------------
(* The parts of the invariant.                                             *)

LEMMA LocksStep ==
  ASSUME SyncTypeOK, LocksHeld, PreparedCurrent, NEW p \in Procs, Step(p)
  PROVE  LocksHeld'
<1> USE DEF At, Locked
<1>0. proc[p].pc \notin {"idle", "done"} => proc[p].key \in Keys
  BY DEF SyncTypeOK
<1>a. \A q \in Procs : proc[q].pc \in Locked => lock[proc[q].key] = q /\ proc[q].key \in Keys
  BY DEF LocksHeld, SyncTypeOK
<1>b. \A q \in Procs : proc[q].pc = "publishing" <=> gate = q
  BY DEF LocksHeld
<1>c. \A q \in Procs : proc[q].pc \in Locked \ {"planning"} => catalog.exists
  BY DEF LocksHeld
<1>d. catalog.exists \/ catalog = NoCatalog
  BY DEF LocksHeld
<1>e. NoOwner \notin Procs /\ lock \in [Keys -> Procs \cup {NoOwner}]
  BY SyncAssumption DEF SyncTypeOK
<1>1. CASE Starts(p)
  BY <1>1, <1>a, <1>b, <1>c, <1>d DEF Starts, Blank, Moved, LocksHeld
<1>2. CASE Locks(p)
  <2>1. Moved(p) /\ proc'[p].key = proc[p].key /\ proc'[p].pc = "planning"
    BY <1>2 DEF Locks, Keeps
  <2>2. \A q \in Procs : proc'[q].pc \in Locked => lock'[proc'[q].key] = q
    BY <1>0, <1>2, <1>a, <1>e, <2>1 DEF Locks, Moved
  <2> QED BY <1>2, <1>b, <1>c, <1>d, <2>1, <2>2 DEF Locks, Moved, LocksHeld
<1>3. CASE Proceeds(p)
  <2>1. Moved(p) /\ proc'[p].key = proc[p].key
    BY <1>3 DEF Proceeds, Keeps
  <2> QED
    BY <1>3, <1>a, <1>b, <1>c, <1>e, <2>1
    DEF Proceeds, Moved, LocksHeld, GateLeft
<1>4. CASE Enters(p)
  <2>1. Moved(p) /\ proc'[p].key = proc[p].key
    BY <1>4 DEF Enters, Keeps
  <2> QED
    BY <1>4, <1>a, <1>b, <1>c, <1>e, <2>1 DEF Enters, Moved, LocksHeld
<1>5. CASE Doubts(p)
  <2>1. Moved(p) /\ proc'[p].key = proc[p].key
    BY <1>5 DEF Doubts, Keeps
  <2>2. catalog'.exists
    BY <1>5, <1>c DEF Doubts, FactsCommitted
  <2> QED
    BY <1>5, <1>a, <1>b, <1>e, <2>1, <2>2 DEF Doubts, Moved, LocksHeld, GateLeft
<1>6. CASE Stops(p)
  <2>1. /\ Moved(p) /\ proc'[p].pc \in {"done", "idle"}
        /\ catalog.exists => catalog'.exists
        /\ catalog'.exists \/ catalog' = NoCatalog
    BY <1>6 DEF Stops, Blank, FactsKept, FactsCommitted
  <2>2. \A q \in Procs : proc'[q].pc \in Locked => lock'[proc'[q].key] = q
    BY <1>6, <1>a, <1>e, <2>1 DEF Stops, Moved
  <2>3. \A q \in Procs : proc'[q].pc = "publishing" <=> gate' = q
    BY <1>6, <1>b, <1>e, <2>1 DEF Stops, Moved, GateLeft
  <2>4. \A q \in Procs : proc'[q].pc \in Locked \ {"planning"} => catalog'.exists
    BY <1>c, <2>1 DEF Moved
  <2> QED
    BY <2>1, <2>2, <2>3, <2>4 DEF LocksHeld
<1>7. CASE ProviderReplies(p)
  <2>1. /\ proc[p].pc = "replying" /\ proc'[p].pc = "preparing"
        /\ proc'[p].key = proc[p].key
        /\ \A q \in Procs \ {p} : proc'[q] = proc[q]
    BY <1>7, RepliesEffect DEF ProviderReplies, Moved
  <2>2. UNCHANGED <<catalog, lock, gate>>
    BY <1>7, SMTT(60) DEF ProviderReplies
  <2> QED BY <1>a, <1>b, <1>c, <1>d, <2>1, <2>2 DEF LocksHeld
<1>8. ASSUME NEW m \in Months, PrepareMonth(p, m)
      PROVE  LocksHeld'
  BY <1>8, <1>a, <1>b, <1>c, <1>d, PrepareEffect DEF PrepareMonth, Moved, LocksHeld
<1>9. ASSUME NEW m \in Months, PublishMonth(p, m)
      PROVE  LocksHeld'
  BY <1>9, <1>a, <1>b, <1>c, <1>d, PublishEffect DEF PublishMonth, Moved, LocksHeld
<1> QED BY <1>1, <1>2, <1>3, <1>4, <1>5, <1>6, <1>7, <1>8, <1>9 DEF Step

LEMMA MonthsStep ==
  ASSUME SyncTypeOK, MonthsSorted, NEW p \in Procs, Step(p)
  PROVE  MonthsSorted'
<1> USE DEF At, Locked
<1>0. /\ \A k \in Keys, m \in Months : disk[k][m] \in MonthFile(m)
      /\ \A q \in Procs, m \in Months : proc[q].prepared[m] \in MonthFile(m)
  BY DEF MonthsSorted
<1>1. CASE \/ Starts(p) \/ Locks(p) \/ Proceeds(p) \/ Enters(p) \/ Doubts(p)
           \/ Stops(p)
  <2>1. UNCHANGED disk /\ (Keeps(p) \/ Blank(p))
    BY <1>1 DEF Starts, Locks, Proceeds, Enters, Doubts, Stops
  <2>2. \A m \in Months : NoFile \in MonthFile(m)
    BY NoFileType DEF MonthFile, NoFile
  <2> QED BY <1>0, <2>1, <2>2 DEF Keeps, Blank, Moved, MonthsSorted
<1>2. CASE ProviderReplies(p)
  BY <1>0, <1>2, RepliesEffect, ZenonT(120) DEF ProviderReplies, Moved, MonthsSorted
<1>3. ASSUME NEW m \in Months, PrepareMonth(p, m)
      PROVE  MonthsSorted'
  <2> DEFINE old == disk[proc[p].key][m]
             own == SplitByMonth(proc[p].batch, m)
  <2>1. old \in MonthFile(m) /\ old \in File
    BY <1>0, <1>3 DEF PrepareMonth, SyncTypeOK
  <2>2. own \in Rows /\ \A s \in Held(own) : MonthOf[s] = m
    BY ProcFields, SplitFacts
  <2>3. old.rows \in Rows /\ \A s \in Held(old.rows) : MonthOf[s] = m
    BY <2>1 DEF MonthFile, File
  <2>4. MergedFile(p, m) \in File /\ MergedFile(p, m).rows = MergeFrames(old.rows, own)
    BY <1>3, PrepareEffect DEF MergedFile
  <2>5. MergedFile(p, m) \in MonthFile(m)
    BY <2>2, <2>3, <2>4, MergeFacts DEF MonthFile
  <2> HIDE DEF old, own
  <2>6. /\ UNCHANGED disk
        /\ proc'[p].prepared = [proc[p].prepared EXCEPT ![m] = MergedFile(p, m)]
        /\ \A q \in Procs \ {p} : proc'[q] = proc[q]
    BY <1>3, PrepareEffect DEF PrepareMonth, Moved
  <2>7. \A n \in Months : proc'[p].prepared[n] \in MonthFile(n)
    BY <1>0, <2>5, <2>6, ProcFields
  <2> QED
    BY <1>0, <2>6, <2>7 DEF MonthsSorted
<1>4. ASSUME NEW m \in Months, PublishMonth(p, m)
      PROVE  MonthsSorted'
  <2>1. \A k \in Keys, n \in Months : disk'[k][n] \in {disk[k][n], proc[p].prepared[n]}
    BY <1>4 DEF PublishMonth, SyncTypeOK
  <2> QED BY <1>0, <1>4, <2>1, PublishEffect DEF PublishMonth, Moved, MonthsSorted
<1> QED BY <1>1, <1>2, <1>3, <1>4 DEF Step

\* Another call's files are not touched: its dataset's lock is its own.
LEMMA OthersPrepared ==
  ASSUME SyncTypeOK, LocksHeld, PreparedCurrent, NEW p \in Procs, Moved(p),
         NEW q \in Procs \ {p},
         UNCHANGED disk \/ /\ proc[p].pc \in Locked
                           /\ \A k \in Keys \ {proc[p].key} : disk'[k] = disk[k]
  PROVE  PreparedBy(q)'
<1>1. proc'[q] = proc[q] /\ PreparedBy(q)
  BY DEF Moved, PreparedCurrent
<1>2. proc[q].pc \in Locked => disk'[proc[q].key] = disk[proc[q].key]
  BY DEF LocksHeld, SyncTypeOK, Locked
<1> QED
  BY <1>1, <1>2 DEF PreparedBy, PreparedMonths, AllPrepared, AllPublished, At

LEMMA PreparedStep ==
  ASSUME SyncTypeOK, LocksHeld, PreparedCurrent, NEW p \in Procs, Step(p)
  PROVE  PreparedCurrent'
<1> USE DEF At, Locked
<1>0. PreparedBy(p)
  BY DEF PreparedCurrent
<1>1. CASE Starts(p) \/ Stops(p)
  <2>1. Blank(p) /\ UNCHANGED disk /\ proc'[p].pc \in {"locking", "done", "idle"}
    BY <1>1 DEF Starts, Stops
  <2>2. PreparedMonths(p)' = {} /\ Held(proc'[p].batch) = {} /\ proc'[p].published = {}
    BY <2>1, NoFileType DEF Blank, PreparedMonths
  <2>3. PreparedBy(p)'
    BY <2>1, <2>2 DEF PreparedBy
  <2> QED BY <2>1, <2>3, OthersPrepared DEF Blank, PreparedCurrent
<1>2. CASE Locks(p) \/ Proceeds(p) \/ Enters(p) \/ Doubts(p)
  <2>1. Keeps(p) /\ UNCHANGED disk
    BY <1>2 DEF Locks, Proceeds, Enters, Doubts
  <2>2. /\ PreparedMonths(p)' = PreparedMonths(p)
        /\ proc'[p].published = proc[p].published
        /\ AllPrepared(p)' = AllPrepared(p)
        /\ AllPublished(p)' = AllPublished(p)
    BY <2>1 DEF Keeps, PreparedMonths, AllPrepared, AllPublished
  <2>3. proc'[p].pc \in {"publishing", "uncertain"} => AllPrepared(p)
    BY <1>0, <1>2 DEF Locks, Proceeds, Enters, Doubts, PreparedBy
  <2>4. proc'[p].pc = "uncertain" => AllPublished(p)
    BY <1>2 DEF Locks, Proceeds, Enters, Doubts
  <2>5. proc'[p].pc \notin {"publishing", "uncertain"} => proc[p].published = {}
    BY <1>0, <1>2 DEF Locks, Proceeds, Enters, Doubts, PreparedBy
  <2>6. proc'[p].pc \in {"locking", "planning", "observing", "replying"} =>
          PreparedMonths(p) = {}
    BY <1>0, <1>2 DEF Locks, Proceeds, Enters, Doubts, PreparedBy
  <2>7. \A m \in PreparedMonths(p) :
          IF m \in proc[p].published
          THEN disk[proc[p].key][m] = proc[p].prepared[m]
          ELSE Held(disk[proc[p].key][m].rows) \subseteq Held(proc[p].prepared[m].rows)
    BY <1>0, <1>2 DEF Locks, Proceeds, Enters, Doubts, PreparedBy
  <2>8. PreparedBy(p)'
    BY <1>0, <2>1, <2>2, <2>3, <2>4, <2>5, <2>6, <2>7 DEF PreparedBy, Keeps
  <2> QED BY <2>1, <2>8, OthersPrepared DEF Keeps, PreparedCurrent
<1>3. CASE ProviderReplies(p)
  <2>1. /\ PreparedMonths(p) = {} /\ proc[p].published = {}
        /\ UNCHANGED disk
    BY <1>0, <1>3 DEF ProviderReplies, PreparedBy
  <2>2. PreparedMonths(p)' = {} /\ proc'[p].published = {} /\ proc'[p].pc = "preparing"
    BY <1>3, <2>1, RepliesEffect DEF PreparedMonths
  <2>3. PreparedBy(p)'
    BY <2>2 DEF PreparedBy
  <2> QED BY <1>3, <2>1, <2>3, RepliesEffect, OthersPrepared DEF PreparedCurrent
<1>4. ASSUME NEW m \in Months, PrepareMonth(p, m)
      PROVE  PreparedCurrent'
  <2> DEFINE k == proc[p].key
             old == proc[p].prepared
             new == proc'[p].prepared
             file == MergedFile(p, m)
  <2>1. /\ new = [old EXCEPT ![m] = file]
        /\ proc'[p].key = k /\ proc'[p].batch = proc[p].batch
        /\ proc'[p].published = proc[p].published /\ proc'[p].pc = "preparing"
        /\ Moved(p) /\ proc[p].pc = "preparing" /\ UNCHANGED disk
    BY <1>4, PrepareEffect DEF PrepareMonth
  <2>2. new[m] = file /\ \A n \in Months \ {m} : new[n] = old[n]
    BY <2>1, ProcFields
  <2>3. disk[k][m].rows \in Rows /\ k \in Keys
    BY <2>1 DEF SyncTypeOK, File
  <2>4. /\ Held(file.rows) = Held(disk[k][m].rows)
                               \cup {s \in Held(proc[p].batch) : MonthOf[s] = m}
    BY <2>3, ProcFields, SplitFacts, MergeFacts DEF MergedFile
  <2>5. proc'[p].published = {}
    BY <1>0, <2>1 DEF PreparedBy
  <2>6. \A n \in PreparedMonths(p)' : Held(disk'[k][n].rows) \subseteq Held(new[n].rows)
    BY <1>0, <2>1, <2>2, <2>4, <2>5 DEF PreparedBy, PreparedMonths
  <2>7. \A s \in Held(proc[p].batch) :
          MonthOf[s] \in PreparedMonths(p)' => new[MonthOf[s]].rows[s] # None
    BY <1>0, <2>1, <2>2, <2>4 DEF PreparedBy, PreparedMonths, Held
  <2> HIDE DEF new, old, file
  <2>8. PreparedBy(p)'
    BY <2>1, <2>5, <2>6, <2>7 DEF PreparedBy, new
  <2> QED BY <2>1, <2>8, OthersPrepared, SMTT(30) DEF PreparedCurrent
<1>5. ASSUME NEW m \in Months, PublishMonth(p, m)
      PROVE  PreparedCurrent'
  <2> DEFINE k == proc[p].key
  <2>1. /\ proc'[p].prepared = proc[p].prepared
        /\ proc'[p].key = k /\ proc'[p].batch = proc[p].batch
        /\ proc'[p].published = proc[p].published \cup {m}
        /\ proc'[p].pc = "publishing" /\ proc[p].pc = "publishing" /\ Moved(p)
    BY <1>5, PublishEffect DEF PublishMonth
  <2>2. /\ k \in Keys /\ m \in PreparedMonths(p)
        /\ disk' = [disk EXCEPT ![k][m] = proc[p].prepared[m]]
    BY <1>5 DEF PublishMonth, SyncTypeOK
  <2>3. /\ disk'[k][m] = proc[p].prepared[m]
        /\ \A n \in Months \ {m} : disk'[k][n] = disk[k][n]
        /\ \A j \in Keys \ {k} : disk'[j] = disk[j]
    BY <2>2 DEF SyncTypeOK
  <2>4. PreparedMonths(p)' = PreparedMonths(p) /\ AllPrepared(p)' = AllPrepared(p)
    BY <2>1 DEF PreparedMonths, AllPrepared
  <2>5. \A n \in PreparedMonths(p) :
          IF n \in proc'[p].published
          THEN disk'[k][n] = proc[p].prepared[n]
          ELSE Held(disk'[k][n].rows) \subseteq Held(proc[p].prepared[n].rows)
    BY <1>0, <2>1, <2>3 DEF PreparedBy, PreparedMonths
  <2>6. PreparedBy(p)'
    BY <1>0, <2>1, <2>2, <2>4, <2>5 DEF PreparedBy
  <2> QED BY <2>1, <2>3, <2>6, OthersPrepared DEF PreparedCurrent
<1> QED BY <1>1, <1>2, <1>3, <1>4, <1>5 DEF Step

\* Every slot that becomes available has its row in a prepared file.
LEMMA RevealedAreHeld ==
  ASSUME SyncTypeOK, PreparedCurrent, NEW p \in Procs, At(p, "publishing"),
         NEW s \in Slots, NewSegments(p)[s] = "available"
  PROVE  /\ MonthOf[s] \in PreparedMonths(p)
         /\ proc[p].prepared[MonthOf[s]].rows[s] # None
<1>1. s \in Held(proc[p].batch)
  BY DEF NewSegments, BarSegments
<1>2. MonthOf[s] \in BatchMonths(proc[p].batch)
  BY <1>1 DEF BatchMonths
<1> QED
  BY <1>1, <1>2 DEF PreparedCurrent, PreparedBy, AllPrepared, At

\* What a durable commit leaves in the index of its dataset.
LEMMA CommittedIndex ==
  ASSUME SyncTypeOK, PreparedCurrent, NEW p \in Procs, FactsCommitted(p),
         NEW m \in Months
  PROVE  catalog'.index[proc[p].key][m] =
           IF m \in PreparedMonths(p) THEN disk[proc[p].key][m]
                                      ELSE catalog.index[proc[p].key][m]
<1>1. m \in PreparedMonths(p) => disk[proc[p].key][m] = proc[p].prepared[m]
  BY DEF FactsCommitted, AllPublished, PreparedCurrent, PreparedBy, At, Locked
<1> QED BY <1>1 DEF FactsCommitted

LEMMA BackedAfterCommit ==
  ASSUME SyncTypeOK, PreparedCurrent, IndexBacked, NEW p \in Procs,
         FactsCommitted(p), UNCHANGED disk
  PROVE  IndexBacked'
<1> DEFINE k == proc[p].key
<1>0. k \in Keys /\ At(p, "publishing")
  BY DEF FactsCommitted, At, SyncTypeOK
<1>1. /\ \A j \in Keys, s \in Slots :
           catalog.coverage[j][s] = "available" =>
             catalog.index[j][MonthOf[s]].rows[s] # None
      /\ \A j \in Keys, m \in Months :
           Held(catalog.index[j][m].rows) \subseteq Held(disk[j][m].rows)
  BY DEF IndexBacked
<1>2. \A j \in Keys \ {k} : /\ catalog'.index[j] = catalog.index[j]
                            /\ catalog'.coverage[j] = catalog.coverage[j]
  BY DEF FactsCommitted
<1>3. \A m \in Months :
        /\ m \in PreparedMonths(p) => catalog'.index[k][m] = disk[k][m]
        /\ m \notin PreparedMonths(p) => catalog'.index[k][m] = catalog.index[k][m]
  BY CommittedIndex
<1>4. \A m \in Months : Held(catalog'.index[k][m].rows) \subseteq Held(disk[k][m].rows)
  BY <1>0, <1>1, <1>3
<1>5. ASSUME NEW s \in Slots, catalog'.coverage[k][s] = "available"
      PROVE  catalog'.index[k][MonthOf[s]].rows[s] # None
  <2>1. catalog.coverage[k] \in Coverage /\ NewSegments(p) \in Coverage
    BY <1>0, NewSegmentsType DEF SyncTypeOK, CatalogState
  <2>2. catalog'.coverage[k] = ApplyCoverage(catalog.coverage[k], NewSegments(p))
    BY DEF FactsCommitted
  <2>3. catalog.coverage[k][s] = "available" \/ NewSegments(p)[s] = "available"
    BY <1>5, <2>1, <2>2, ApplyCoverageFacts
  <2>4. MonthOf[s] \in Months
    BY StoreAssumption
  <2>5. CASE MonthOf[s] \notin PreparedMonths(p)
    BY <1>0, <1>1, <1>3, <2>3, <2>4, <2>5, RevealedAreHeld
  <2>6. CASE MonthOf[s] \in PreparedMonths(p)
    <3>1. /\ catalog'.index[k][MonthOf[s]] = disk[k][MonthOf[s]]
          /\ catalog'.index[k][MonthOf[s]] = proc[p].prepared[MonthOf[s]]
      BY <1>3, <2>4, <2>6 DEF FactsCommitted
    <3>2. CASE NewSegments(p)[s] = "available"
      BY <1>0, <3>1, <3>2, RevealedAreHeld
    <3>3. CASE catalog.coverage[k][s] = "available"
      BY <1>0, <1>1, <2>4, <3>1, <3>3 DEF Held
    <3> QED BY <2>3, <3>2, <3>3
  <2> QED BY <2>5, <2>6
<1> HIDE DEF k
<1> QED BY <1>0, <1>1, <1>2, <1>4, <1>5 DEF IndexBacked

LEMMA IndexStep ==
  ASSUME SyncTypeOK, PreparedCurrent, IndexBacked, NEW p \in Procs, Step(p)
  PROVE  IndexBacked'
<1>1. CASE FactsCommitted(p) /\ UNCHANGED disk
  BY <1>1, BackedAfterCommit
<1>2. CASE /\ catalog'.index = catalog.index
           /\ catalog'.coverage = catalog.coverage
           /\ UNCHANGED disk
  BY <1>2 DEF IndexBacked
<1>3. ASSUME NEW m \in Months, PublishMonth(p, m)
      PROVE  IndexBacked'
  <2> DEFINE k == proc[p].key
  <2>1. /\ k \in Keys /\ proc[p].pc = "publishing" /\ UNCHANGED catalog
        /\ m \in PreparedMonths(p) /\ m \notin proc[p].published
        /\ disk' = [disk EXCEPT ![k][m] = proc[p].prepared[m]]
    BY <1>3 DEF PublishMonth, SyncTypeOK, At
  <2>2. /\ disk'[k][m] = proc[p].prepared[m]
        /\ \A j \in Keys, n \in Months :
             j # k \/ n # m => disk'[j][n] = disk[j][n]
    BY <2>1 DEF SyncTypeOK
  <2>3. Held(disk[k][m].rows) \subseteq Held(disk'[k][m].rows)
    BY <2>1, <2>2 DEF PreparedCurrent, PreparedBy, Locked
  <2> QED BY <2>1, <2>2, <2>3 DEF IndexBacked
<1>4. CASE ProviderReplies(p) \/ \E m \in Months : PrepareMonth(p, m)
  BY <1>2, <1>4 DEF ProviderReplies, PrepareMonth
<1>5. CASE Starts(p) \/ Locks(p)
  BY <1>2, <1>5 DEF Starts, Locks
<1>6. CASE Proceeds(p) \/ Enters(p) \/ Doubts(p) \/ Stops(p)
  BY <1>1, <1>2, <1>6 DEF Proceeds, Enters, Doubts, Stops, FactsKept
<1> QED BY <1>3, <1>4, <1>5, <1>6 DEF Step

\* The call, if any, that answers for a difference of k and m.
Owns(p, k, m) == lock[k] = p /\ proc[p].key = k /\ m \in proc[p].published

LEMMA DriftStep ==
  ASSUME SyncTypeOK, LocksHeld, PreparedCurrent, DriftOwned,
         NEW p \in Procs, Step(p)
  PROVE  DriftOwned'
<1> USE DEF At, Locked
<1> SUFFICES ASSUME NEW k \in Keys, NEW m \in Months,
                    k \notin faulted', catalog'.exists,
                    catalog'.index[k][m] # disk'[k][m]
             PROVE  (\E q \in Procs : Owns(q, k, m))'
  BY DEF DriftOwned, Owns
<1>a. \/ k \in faulted \/ ~catalog.exists \/ catalog.index[k][m] = disk[k][m]
      \/ \E q \in Procs : Owns(q, k, m)
  BY DEF DriftOwned, Owns
<1>b. /\ proc[p].pc \in Locked => lock[proc[p].key] = p /\ proc[p].key \in Keys
      /\ proc[p].pc \notin {"publishing", "uncertain"} => proc[p].published = {}
      /\ proc[p].published \subseteq PreparedMonths(p)
  BY DEF LocksHeld, SyncTypeOK, PreparedCurrent, PreparedBy
<1>c. NoOwner \notin Procs /\ lock \in [Keys -> Procs \cup {NoOwner}]
  BY SyncAssumption DEF SyncTypeOK
\* An owner other than the caller stays one while its lock is its own.
<1>d. ASSUME NEW q \in Procs \ {p}, Owns(q, k, m), Moved(p), lock'[k] = lock[k]
      PROVE  (\E o \in Procs : Owns(o, k, m))'
  BY <1>d DEF Owns, Moved
<1>1. CASE Starts(p)
  BY <1>1, <1>a, <1>b, <1>d DEF Starts, Blank, Owns
<1>2. CASE Locks(p)
  <2>1. PICK q \in Procs : Owns(q, k, m)
    BY <1>2, <1>a DEF Locks
  <2>2. q # p /\ k # proc[p].key
    BY <1>2, <1>b, <1>c, <2>1 DEF Locks, Owns
  <2> QED BY <1>2, <1>c, <1>d, <2>1, <2>2 DEF Locks, Keeps
<1>3. CASE Proceeds(p) \/ Enters(p)
  <2>1. Keeps(p) /\ FactsKept /\ UNCHANGED <<disk, lock, faulted>>
    BY <1>3 DEF Proceeds, Enters
  <2>2. PICK q \in Procs : Owns(q, k, m)
    BY <1>a, <2>1 DEF FactsKept
  <2>3. q # p
    BY <1>3, <1>b, <2>2 DEF Proceeds, Enters, Owns
  <2> QED BY <1>d, <2>1, <2>2, <2>3 DEF Keeps
<1>4. CASE Doubts(p)
  <2>1. Keeps(p) /\ UNCHANGED <<disk, lock, faulted>>
    BY <1>4 DEF Doubts
  <2>2. catalog.exists
    BY <1>4 DEF LocksHeld, Doubts
  <2>3. CASE \E q \in Procs : Owns(q, k, m)
    <3>1. PICK q \in Procs : Owns(q, k, m)
      BY <2>3
    <3>2. CASE q # p
      BY <1>d, <2>1, <3>1, <3>2 DEF Keeps
    <3>3. CASE q = p
      BY <2>1, <3>1, <3>3 DEF Keeps, Owns
    <3> QED BY <3>2, <3>3
  <2>4. CASE catalog.index[k][m] = disk[k][m]
    <3>1. FactsCommitted(p)
      BY <1>4, <2>1, <2>4 DEF Doubts
    <3>2. CASE k = proc[p].key
      BY <2>1, <2>4, <3>1, <3>2, CommittedIndex
    <3>3. CASE k # proc[p].key
      BY <2>1, <2>4, <3>1, <3>3 DEF FactsCommitted
    <3> QED BY <3>2, <3>3
  <2> QED BY <1>a, <2>1, <2>2, <2>3, <2>4
<1>5. CASE Stops(p)
  <2>1. /\ Blank(p) /\ Moved(p) /\ UNCHANGED disk
        /\ faulted \subseteq faulted'
    BY <1>5 DEF Stops, Blank
  <2>2. CASE k = proc[p].key /\ proc[p].pc \in Locked
    <3>1. \A q \in Procs : Owns(q, k, m) => m \in proc[p].published
      BY <1>b, <2>2 DEF Owns
    <3>2. m \in proc[p].published => catalog'.index[k][m] = disk[k][m]
      BY <1>5, <2>2, <1>b DEF Stops, Settled
    <3>3. m \notin proc[p].published /\ catalog'.index[k][m] # disk[k][m]
      BY <2>1, <3>2
    <3>4. CASE FactsCommitted(p)
      <4>1. m \notin PreparedMonths(p)
        BY <2>1, <2>2, <3>3, <3>4, CommittedIndex
      <4>2. catalog'.index[k][m] = catalog.index[k][m] /\ catalog.exists
        BY <2>2, <3>4, <4>1, CommittedIndex DEF FactsCommitted, LocksHeld
      <4> QED BY <1>a, <2>1, <3>1, <3>3, <4>2
    <3>5. CASE FactsKept
      BY <1>a, <2>1, <3>1, <3>3, <3>5 DEF FactsKept
    <3> QED BY <1>5, <3>4, <3>5 DEF Stops
  <2>3. CASE ~(k = proc[p].key /\ proc[p].pc \in Locked)
    <3>1. lock'[k] = lock[k]
      BY <1>5, <1>b, <1>c, <2>3 DEF Stops
    <3>2. catalog'.index[k][m] = catalog.index[k][m]
      BY <1>5, <2>3 DEF Stops, FactsKept, FactsCommitted
    <3>3. catalog.exists \/ catalog.index[k][m] = disk[k][m]
      BY <1>5, <2>3 DEF Stops, FactsKept, FactsCommitted, LocksHeld
    <3>4. PICK q \in Procs : Owns(q, k, m)
      BY <1>a, <2>1, <3>2, <3>3
    <3>5. q # p
      BY <1>b, <2>3, <3>4 DEF Owns
    <3> QED BY <1>d, <2>1, <3>1, <3>4, <3>5
  <2> QED BY <2>2, <2>3
<1>6. ASSUME UNCHANGED <<disk, catalog, lock, faulted>>, Moved(p),
             proc'[p].key = proc[p].key, proc'[p].published = proc[p].published
      PROVE  (\E q \in Procs : Owns(q, k, m))'
  <2>1. PICK q \in Procs : Owns(q, k, m)
    BY <1>6, <1>a
  <2>2. CASE q = p
    BY <1>6, <2>1, <2>2 DEF Owns
  <2>3. CASE q # p
    BY <1>6, <1>d, <2>1, <2>3
  <2> QED BY <2>2, <2>3
<1>7. CASE ProviderReplies(p)
  BY <1>6, <1>7, RepliesEffect, ZenonT(60) DEF ProviderReplies
<1>8. ASSUME NEW n \in Months, PrepareMonth(p, n)
      PROVE  (\E q \in Procs : Owns(q, k, m))'
  BY <1>6, <1>8, PrepareEffect DEF PrepareMonth
<1>9. ASSUME NEW n \in Months, PublishMonth(p, n)
      PROVE  (\E q \in Procs : Owns(q, k, m))'
  <2>1. /\ UNCHANGED <<catalog, lock, faulted>> /\ Moved(p)
        /\ proc'[p].key = proc[p].key
        /\ proc'[p].published = proc[p].published \cup {n}
        /\ proc[p].pc = "publishing"
    BY <1>9, PublishEffect DEF PublishMonth
  <2>2. CASE k = proc[p].key /\ m = n
    BY <1>b, <2>1, <2>2 DEF Owns
  <2>3. CASE ~(k = proc[p].key /\ m = n)
    <3>1. disk'[k][m] = disk[k][m]
      BY <1>9, <1>b, <2>1, <2>3 DEF PublishMonth, SyncTypeOK
    <3>2. PICK q \in Procs : Owns(q, k, m)
      BY <1>a, <2>1, <3>1
    <3>3. CASE q = p
      BY <2>1, <3>2, <3>3 DEF Owns
    <3>4. CASE q # p
      BY <1>d, <2>1, <3>2, <3>4
    <3> QED BY <3>3, <3>4
  <2> QED BY <2>2, <2>3
<1> QED BY <1>1, <1>2, <1>3, <1>4, <1>5, <1>7, <1>8, <1>9 DEF Step

-----------------------------------------------------------------------------
(* The invariant.                                                          *)

LEMMA InitHolds == SyncInit => SyncInv
<1> SUFFICES ASSUME SyncInit PROVE SyncInv
  OBVIOUS
<1> USE DEF SyncInit
<1>0. /\ \A p \in Procs : /\ proc[p] = NoCall
                          /\ proc[p].pc = "idle"
                          /\ proc[p].batch = NoRows
                          /\ proc[p].published = {}
                          /\ proc[p].prepared = [m \in Months |-> NoFile]
      /\ \A k \in Keys, m \in Months : disk[k][m] = NoFile
  BY DEF NoCall
<1>1. NoCatalog \in CatalogState
  BY NoFileType DEF NoCatalog, CatalogState, Nothing, Coverage, Status, RunStatus
<1>2. SyncTypeOK
  BY <1>0, <1>1, NoFileType, NoCallType DEF SyncTypeOK
<1>3. LocksHeld
  BY <1>0, SyncAssumption DEF LocksHeld, Locked, At, NoCatalog
<1>4. MonthsSorted
  BY <1>0, NoFileType DEF MonthsSorted, MonthFile, NoFile
<1>5. PreparedCurrent
  BY <1>0, NoFileType DEF PreparedCurrent, PreparedBy, PreparedMonths, Locked, At
<1>6. /\ \A k \in Keys, s \in Slots : NoCatalog.coverage[k][s] = "missing"
      /\ \A k \in Keys, m \in Months : NoCatalog.index[k][m] = NoFile
  BY DEF NoCatalog, Nothing
<1>7. IndexBacked
  BY <1>0, <1>6 DEF IndexBacked
<1>8. DriftOwned
  BY <1>0, <1>6 DEF DriftOwned
<1> QED BY <1>2, <1>3, <1>4, <1>5, <1>7, <1>8 DEF SyncInv

\* Time and stuttering change nothing the invariant speaks of.
LEMMA FrameHolds ==
  ASSUME SyncInv, clock' \in Nat,
         UNCHANGED <<disk, temps, catalog, lock, gate, proc, faulted>>
  PROVE  SyncInv'
<1> USE DEF SyncInv
<1>1. SyncTypeOK'
  BY DEF SyncTypeOK
<1>2. LocksHeld'
  BY DEF LocksHeld, At
<1>3. MonthsSorted'
  BY DEF MonthsSorted
<1>4. \A p \in Procs : PreparedBy(p)' = PreparedBy(p)
  BY DEF PreparedBy, PreparedMonths, AllPrepared, AllPublished, At
<1>5. PreparedCurrent'
  BY <1>4 DEF PreparedCurrent
<1>6. IndexBacked'
  BY DEF IndexBacked
<1>7. DriftOwned'
  BY DEF DriftOwned
<1> QED BY <1>1, <1>2, <1>3, <1>5, <1>6, <1>7

LEMMA NextHolds ==
  ASSUME SyncInv, SyncNext PROVE SyncInv'
<1>1. CASE Tick
  BY <1>1, FrameHolds DEF Tick, SyncInv, SyncTypeOK
<1>2. ASSUME NEW p \in Procs, Step(p) PROVE SyncInv'
  BY <1>2, TypeStep, LocksStep, MonthsStep, PreparedStep, IndexStep, DriftStep
  DEF SyncInv
<1> QED BY <1>1, <1>2, StepKinds DEF SyncInv

LEMMA StutterHolds ==
  ASSUME SyncInv, UNCHANGED syncVars PROVE SyncInv'
BY FrameHolds DEF syncVars, SyncInv, SyncTypeOK

\* SyncInv holds in every reachable state of the callers of sync, for every
\* number of callers, datasets, months, slots and providers.
THEOREM SyncSafety == SyncSpec => []SyncInv
<1>1. SyncInit => SyncInv
  BY InitHolds
<1>2. SyncInv /\ [SyncNext]_syncVars => SyncInv'
  BY NextHolds, StutterHolds
<1> QED BY <1>1, <1>2, PTL DEF SyncSpec
=============================================================================
