--------------------------- MODULE LineageProofs ---------------------------
(***************************************************************************)
(* Provenance of catalog facts: the index never mixes providers, and a     *)
(* slot is settled as having no bar only if its provider has none there.   *)
(* Lineage is bound at the commit, long after the call read it, and a      *)
(* rebuild may bind another in between.                                    *)
(***************************************************************************)
EXTENDS BarStoreProofs, SyncPromiseProofs

\* A call's files name its provider, and its reply left out no final bar
\* among the slots it calls observed.
CallProven(p) ==
  /\ \A m \in PreparedMonths(p) : proc[p].prepared[m].prov = proc[p].prov
  /\ proc[p].pc \in Locked \cup {"locking"} => proc[p].prov \in Providers
  /\ proc[p].evidence <= clock
  /\ proc[p].pc \in {"locking", "planning", "observing", "replying"} =>
       PreparedMonths(p) = {}
  /\ proc[p].pc \in {"preparing", "publishing"} =>
       \A s \in proc[p].observed \cap proc[p].gaps \cap Bars[proc[p].prov] :
         s < proc[p].evidence => s \in Held(proc[p].batch)

\* Stored files name a provider, and what the catalog has concluded is
\* about the provider it has bound.
FactsProven ==
  /\ \A k \in Keys, m \in Months : disk[k][m] # NoFile => disk[k][m].prov # None
  /\ \A k \in Keys, m \in Months :
       catalog.index[k][m] # NoFile =>
         /\ catalog.index[k][m].prov # None
         /\ catalog.index[k][m].prov = catalog.lineage[k]
  /\ UnavailableIsProven

LineageInv ==
  /\ IInv
  /\ \A p \in Procs : CallProven(p)
  /\ FactsProven

-----------------------------------------------------------------------------
(* Calls.                                                                  *)

\* What a call knows about its provider and its reply is as before.
KnowsAsBefore(p) ==
  /\ Moved(p)
  /\ proc'[p].prov = proc[p].prov
  /\ proc'[p].gaps = proc[p].gaps
  /\ proc'[p].observed = proc[p].observed
  /\ proc'[p].evidence = proc[p].evidence
  /\ proc'[p].batch = proc[p].batch
  /\ proc'[p].prepared = proc[p].prepared

LEMMA Knowing ==
  ASSUME SyncTypeOK, NEW p \in Procs,
         \/ AcquireDatasetLock(p) \/ RejectLineage(p)
         \/ ObservationFails(p) \/ EnterPublication(p) \/ EnterFails(p)
         \/ CommitUncertain(p)
         \/ PublicationFails(p) /\ ~AnyPublished(p)
         \/ \E m \in Months : PrepareFails(p, m) \/ PublishMonth(p, m)
  PROVE  KnowsAsBefore(p)
<1>1. CASE \E m \in Months : PublishMonth(p, m)
  <2>1. /\ proc'[p].prov = proc[p].prov /\ proc'[p].gaps = proc[p].gaps
        /\ proc'[p].observed = proc[p].observed
        /\ proc'[p].evidence = proc[p].evidence
    BY <1>1, ProcFields DEF PublishMonth, SyncTypeOK, Call
  <2> QED BY <1>1, <2>1, PublishEffect DEF KnowsAsBefore
<1>2. CASE ~\E m \in Months : PublishMonth(p, m)
  <2>1. Carries(p)
    BY <1>2, Carrying
  <2>2. ASSUME NEW o \in Outcome,
               proc' = [proc EXCEPT ![p].pc = "failing", ![p].outcome = o]
        PROVE  /\ proc'[p].prov = proc[p].prov
               /\ proc'[p].observed = proc[p].observed
               /\ proc'[p].evidence = proc[p].evidence
    BY <2>2, ProcFields DEF SyncTypeOK, Call
  <2>3. ASSUME NEW pc \in Locked, proc' = [proc EXCEPT ![p].pc = pc]
        PROVE  /\ proc'[p].prov = proc[p].prov
               /\ proc'[p].observed = proc[p].observed
               /\ proc'[p].evidence = proc[p].evidence
    BY <2>3, ProcFields DEF SyncTypeOK, Call
  <2>4. CASE AcquireDatasetLock(p) \/ EnterPublication(p) \/ CommitUncertain(p)
    BY <2>1, <2>3, <2>4
    DEF AcquireDatasetLock, EnterPublication, CommitUncertain, Locked,
        KnowsAsBefore, Carries, Keeps
  <2>5. CASE RejectLineage(p) \/ ObservationFails(p) \/ EnterFails(p)
    BY <2>1, <2>2, <2>5
    DEF RejectLineage, ObservationFails, EnterFails, Abandon, Outcome,
        KnowsAsBefore, Carries, Keeps
  <2>6. CASE PublicationFails(p) /\ ~AnyPublished(p)
    BY <2>1, <2>2, <2>6
    DEF PublicationFails, PublicationRaises, Rejections, Outcome,
        KnowsAsBefore, Carries, Keeps
  <2>7. CASE \E m \in Months : PrepareFails(p, m)
    BY <2>1, <2>2, <2>7 DEF PrepareFails, Outcome, KnowsAsBefore, Carries, Keeps
  <2> QED BY <1>2, <2>4, <2>5, <2>6, <2>7
<1> QED BY <1>1, <1>2

\* A call that starts or ends knows nothing.
LEMMA Forgetting ==
  ASSUME SyncTypeOK, NEW p \in Procs,
         \/ DatasetLockTimesOut(p) \/ PlanFails(p) \/ RecordFailedRun(p)
         \/ PublicationFails(p) /\ AnyPublished(p)
         \/ Commit(p) \/ ResolveVisible(p) \/ ResolveInvisible(p)
         \/ Return(p) \/ Crash(p)
  PROVE  proc'[p].evidence = 0 /\ proc'[p].pc \in {"done", "idle"}
<1>1. ASSUME NEW o, proc' = [proc EXCEPT ![p] = [NoCall EXCEPT !.pc = "done",
                               !.key = proc[p].key, !.outcome = o]]
      PROVE  proc'[p].evidence = 0 /\ proc'[p].pc = "done"
  BY <1>1 DEF SyncTypeOK, NoCall
<1>2. CASE Return(p) \/ Crash(p)
  BY <1>2 DEF Return, Crash, SyncTypeOK, NoCall
<1>3. CASE DatasetLockTimesOut(p)
  BY <1>1, <1>3 DEF DatasetLockTimesOut
<1>4. CASE PublicationFails(p) /\ AnyPublished(p)
  BY <1>1, <1>4 DEF PublicationFails, PublicationRaises, Finish
<1>5. CASE \/ PlanFails(p) \/ RecordFailedRun(p) \/ Commit(p)
           \/ ResolveVisible(p) \/ ResolveInvisible(p)
  BY <1>1, <1>5 DEF PlanFails, RecordFailedRun, Commit, ResolveVisible,
                    ResolveInvisible, Finish
<1> QED BY <1>2, <1>3, <1>4, <1>5

LEMMA OthersProven ==
  ASSUME SyncTypeOK, NEW p \in Procs, Moved(p), NEW q \in Procs \ {p},
         CallProven(q), clock' = clock
  PROVE  CallProven(q)'
<1>1. proc'[q] = proc[q] /\ PreparedMonths(q)' = PreparedMonths(q)
  BY DEF Moved, PreparedMonths
<1> QED BY <1>1 DEF CallProven

LEMMA CallsProvenStep ==
  ASSUME SyncInv, \A q \in Procs : CallProven(q), SyncNext
  PROVE  \A q \in Procs : CallProven(q)'
<1> USE DEF At, SyncInv
<1>0. \A q \in Procs : proc[q].evidence \in Nat /\ clock \in Nat
  BY ProcFields DEF SyncTypeOK
<1>1. CASE Tick
  <2>1. \A q \in Procs : PreparedMonths(q)' = PreparedMonths(q) /\ proc' = proc
    BY <1>1 DEF Tick, PreparedMonths
  <2>2. clock' = clock + 1
    BY <1>1 DEF Tick
  <2> QED BY <1>0, <2>1, <2>2 DEF CallProven
<1>2. ASSUME NEW p \in Procs, Moved(p), CallProven(p)', clock' = clock
      PROVE  \A q \in Procs : CallProven(q)'
  BY <1>2, OthersProven
<1>3. ASSUME NEW p \in Procs, NEW k \in Keys, NEW r \in Requests, NEW v \in Providers,
             StartCall(p, k, r, v)
      PROVE  \A q \in Procs : CallProven(q)'
  <2>1. Blank(p) /\ proc'[p].pc = "locking" /\ clock' = clock
    BY <1>3, StartCallEffect DEF StartCall
  <2>2. proc'[p].evidence = 0 /\ proc'[p].prov = v
    BY <1>3 DEF StartCall, SyncTypeOK, NoCall
  <2>3. PreparedMonths(p)' = {}
    BY <2>1 DEF Blank, PreparedMonths
  <2>4. CallProven(p)'
    BY <1>0, <2>1, <2>2, <2>3 DEF CallProven
  <2> QED BY <1>2, <2>1, <2>4 DEF Blank
<1>4. ASSUME NEW p \in Procs,
             \/ DatasetLockTimesOut(p) \/ PlanFails(p) \/ RecordFailedRun(p)
             \/ PublicationFails(p) /\ AnyPublished(p)
             \/ Commit(p) \/ ResolveVisible(p) \/ ResolveInvisible(p)
             \/ Return(p) \/ Crash(p)
      PROVE  \A q \in Procs : CallProven(q)'
  <2>1. Blank(p) /\ proc'[p].evidence = 0 /\ proc'[p].pc \in {"done", "idle"}
    BY <1>4, Ending, Forgetting
  <2>2. PreparedMonths(p)' = {}
    BY <2>1 DEF Blank, PreparedMonths
  <2>3. clock' = clock
    BY <1>4 DEF DatasetLockTimesOut, PlanFails, RecordFailedRun, PublicationFails,
                Commit, ResolveVisible, ResolveInvisible, Return, Crash
  <2>4. CallProven(p)'
    BY <1>0, <2>1, <2>2, <2>3 DEF CallProven, Locked
  <2> QED BY <1>2, <2>1, <2>3, <2>4 DEF Blank
<1>5. ASSUME NEW p \in Procs,
             \/ AcquireDatasetLock(p) \/ RejectLineage(p)
             \/ ObservationFails(p) \/ EnterPublication(p) \/ EnterFails(p)
             \/ CommitUncertain(p)
             \/ PublicationFails(p) /\ ~AnyPublished(p)
             \/ \E m \in Months : PrepareFails(p, m) \/ PublishMonth(p, m)
      PROVE  \A q \in Procs : CallProven(q)'
  <2>1. KnowsAsBefore(p)
    BY <1>5, Knowing
  <2>2. PreparedMonths(p)' = PreparedMonths(p)
    BY <2>1 DEF KnowsAsBefore, PreparedMonths
  <2>3. clock' = clock /\ proc[p].pc \in Locked \cup {"locking"}
    BY <1>5 DEF AcquireDatasetLock, RejectLineage, ObservationFails, EnterPublication,
                EnterFails, CommitUncertain, MayCommit, PublicationFails, PrepareFails,
                PublishMonth, Locked
  <2>4. \/ proc[p].pc = "locking" /\ proc'[p].pc = "planning"
        \/ /\ proc[p].pc \in {"preparing", "publishing"}
           /\ proc'[p].pc \in {"publishing", "uncertain", "failing"}
        \/ proc'[p].pc = "failing"
    <3>1. CASE AcquireDatasetLock(p)
      BY <3>1, AcquireEffect DEF AcquireDatasetLock
    <3>2. CASE EnterPublication(p) \/ CommitUncertain(p)
      BY <3>2, PhaseEffect DEF EnterPublication, CommitUncertain, MayCommit, Locked
    <3>3. CASE RejectLineage(p) \/ ObservationFails(p) \/ EnterFails(p)
      BY <3>3, FailingEffect
      DEF RejectLineage, ObservationFails, EnterFails, Abandon, Outcome
    <3>4. CASE PublicationFails(p) /\ ~AnyPublished(p)
      BY <3>4, FailingEffect DEF PublicationFails, PublicationRaises, Rejections, Outcome
    <3>5. CASE \E m \in Months : PrepareFails(p, m)
      BY <3>5, FailingEffect DEF PrepareFails, Outcome
    <3>6. CASE \E m \in Months : PublishMonth(p, m)
      BY <3>6, PublishEffect DEF PublishMonth
    <3> QED BY <1>5, <3>1, <3>2, <3>3, <3>4, <3>5, <3>6
  <2>5. CallProven(p)'
    BY <2>1, <2>2, <2>3, <2>4 DEF CallProven, KnowsAsBefore
  <2> QED BY <1>2, <2>1, <2>3, <2>5 DEF KnowsAsBefore
<1>6. ASSUME NEW p \in Procs, Observe(p)
      PROVE  \A q \in Procs : CallProven(q)'
  <2>1. Keeps(p) /\ proc'[p].pc = "replying" /\ clock' = clock
    BY <1>6, ObserveEffect DEF Observe
  <2>2. proc'[p].evidence = clock /\ proc'[p].prov = proc[p].prov /\ proc[p].pc = "observing"
    BY <1>6, ProcFields DEF Observe, SyncTypeOK, Call
  <2>3. PreparedMonths(p)' = PreparedMonths(p)
    BY <2>1 DEF Keeps, PreparedMonths
  <2>4. CallProven(p)'
    BY <1>0, <2>1, <2>2, <2>3 DEF CallProven, Keeps, Locked
  <2> QED BY <1>2, <2>1, <2>4 DEF Keeps
<1>7. ASSUME NEW p \in Procs, Plan(p)
      PROVE  \A q \in Procs : CallProven(q)'
  <2>1. Keeps(p) /\ clock' = clock /\ proc[p].pc = "planning"
    BY <1>7, PlanEffect DEF Plan
  <2>2. /\ proc'[p].evidence = proc[p].evidence /\ proc'[p].prov = proc[p].prov
        /\ \/ proc'[p].pc = "observing"
           \/ proc'[p].pc = "preparing" /\ proc'[p].gaps = {}
    BY <1>7, ProcFields DEF Plan, SyncTypeOK, Call
  <2>3. PreparedMonths(p)' = PreparedMonths(p)
    BY <2>1 DEF Keeps, PreparedMonths
  <2>4. CallProven(p)'
    BY <2>1, <2>2, <2>3 DEF CallProven, Keeps, Locked
  <2> QED BY <1>2, <2>1, <2>4 DEF Keeps
<1>8. ASSUME NEW p \in Procs, ProviderReplies(p)
      PROVE  \A q \in Procs : CallProven(q)'
  <2>1. /\ Moved(p) /\ proc'[p].pc = "preparing" /\ clock' = clock
        /\ proc'[p].prepared = proc[p].prepared /\ proc[p].pc = "replying"
    BY <1>8, RepliesEffect DEF ProviderReplies
  <2>2. PICK seen \in SUBSET FetchWindow(proc[p].gaps), values \in [Slots -> Values] :
          LET bars == {s \in seen \cap Bars[proc[p].prov] : s < clock}
              rows == [s \in Slots |->
                         IF s \in Finalizable(bars, proc[p].evidence)
                         THEN values[s] ELSE None]
          IN  proc' = [proc EXCEPT ![p].pc = "preparing",
                                   ![p].observed = seen,
                                   ![p].batch = FilterToRanges(rows, proc[p].gaps)]
    BY <1>8 DEF ProviderReplies
  <2> DEFINE bars == {s \in seen \cap Bars[proc[p].prov] : s < clock}
             rows == [s \in Slots |->
                        IF s \in Finalizable(bars, proc[p].evidence)
                        THEN values[s] ELSE None]
             batch == FilterToRanges(rows, proc[p].gaps)
  <2>3. /\ proc'[p].prov = proc[p].prov /\ proc'[p].gaps = proc[p].gaps
        /\ proc'[p].evidence = proc[p].evidence
        /\ proc'[p].observed = seen /\ proc'[p].batch = batch
    <3> HIDE DEF batch
    <3>1. proc' = [proc EXCEPT ![p].pc = "preparing", ![p].observed = seen,
                               ![p].batch = batch]
      BY <2>2 DEF batch
    <3> QED BY <3>1, ProcFields DEF SyncTypeOK, Call
  <2>4. ASSUME NEW s \in seen \cap proc[p].gaps \cap Bars[proc[p].prov],
               s < proc[p].evidence
        PROVE  s \in Held(batch)
    <3>1. s \in Slots /\ s \in Nat
      BY <2>4, ProcFields, StoreAssumption
    <3>2. s < clock
      BY <1>0, <2>4, <3>1 DEF CallProven
    <3>3. s \in Finalizable(bars, proc[p].evidence)
      BY <2>4, <3>2 DEF Finalizable
    <3>4. rows[s] = values[s] /\ values[s] \in Values
      BY <3>1, <3>3
    <3> HIDE DEF rows
    <3>5. batch[s] = values[s]
      BY <2>4, <3>1, <3>4 DEF FilterToRanges
    <3> HIDE DEF batch
    <3> QED BY <3>1, <3>4, <3>5, StoreAssumption DEF Held
  <2> HIDE DEF batch
  <2>5. PreparedMonths(p)' = PreparedMonths(p)
    BY <2>1 DEF PreparedMonths
  <2>6. CallProven(p)'
    BY <1>0, <2>1, <2>3, <2>4, <2>5 DEF CallProven, Locked
  <2> QED BY <1>2, <2>1, <2>6
<1>9. ASSUME NEW p \in Procs, NEW m \in Months, PrepareMonth(p, m)
      PROVE  \A q \in Procs : CallProven(q)'
  <2>1. /\ Moved(p) /\ proc'[p].pc = "preparing" /\ clock' = clock
        /\ proc'[p].batch = proc[p].batch /\ proc[p].pc = "preparing"
        /\ proc'[p].prepared = [proc[p].prepared EXCEPT ![m] = MergedFile(p, m)]
    BY <1>9, PrepareEffect DEF PrepareMonth
  <2>2. /\ proc'[p].prov = proc[p].prov /\ proc'[p].gaps = proc[p].gaps
        /\ proc'[p].evidence = proc[p].evidence
        /\ proc'[p].observed = proc[p].observed
    BY <1>9, ProcFields DEF PrepareMonth, SyncTypeOK, Call
  <2>3. proc[p].prepared \in [Months -> File] /\ MergedFile(p, m).prov = proc[p].prov
    BY ProcFields DEF MergedFile
  <2>4. \A n \in PreparedMonths(p)' : proc'[p].prepared[n].prov = proc[p].prov
    BY <2>1, <2>3 DEF PreparedMonths, CallProven
  <2>5. CallProven(p)'
    BY <1>0, <2>1, <2>2, <2>4 DEF CallProven, Locked
  <2> QED BY <1>2, <2>1, <2>5
<1> QED
  BY <1>1, <1>3, <1>4, <1>5, <1>6, <1>7, <1>8, <1>9 DEF SyncNext, CallStep

-----------------------------------------------------------------------------
(* The catalog.                                                            *)

\* What a commit binds: the call's provider, if there is anything to bind,
\* and then only over nothing or over itself.
LEMMA LineageCommitted ==
  ASSUME SyncTypeOK, NEW p \in Procs, Commit(p) \/ CommitUncertain(p),
         catalog' # catalog
  PROVE  /\ FactsCommitted(p)
         /\ \A k \in Keys \ {proc[p].key} : catalog'.lineage[k] = catalog.lineage[k]
         /\ IF HasFacts(p)
            THEN /\ LineageAdmits(catalog.lineage[proc[p].key], proc[p].prov)
                 /\ catalog'.lineage[proc[p].key] = proc[p].prov
            ELSE catalog'.lineage = catalog.lineage
<1>1. MayCommit(p) /\ catalog' = Committed(p)
  BY DEF Commit, CommitUncertain
<1>2. FactsCommitted(p)
  BY <1>1, CommitFacts DEF MayCommit
<1>3. proc[p].key \in Keys /\ catalog.lineage \in [Keys -> Providers \cup {None}]
  BY <1>1 DEF MayCommit, At, SyncTypeOK, CatalogState
<1>4. HasFacts(p) <=> (\E m \in Months : proc[p].prepared[m] # NoFile)
                        \/ NewSegments(p) # Nothing
  BY DEF HasFacts, PreparedMonths
<1>5. catalog'.lineage = [catalog.lineage EXCEPT ![proc[p].key] =
                            IF HasFacts(p) THEN proc[p].prov ELSE @]
  <2> HIDE DEF HasFacts
  <2> QED BY <1>1, <1>4 DEF Committed, CommittedCatalog
<1>6. HasFacts(p) => LineageAdmits(catalog.lineage[proc[p].key], proc[p].prov)
  BY <1>1 DEF MayCommit
<1> HIDE DEF HasFacts
<1> QED BY <1>2, <1>3, <1>5, <1>6

\* Coverage, index and lineage are as before.
FactsAsBefore ==
  /\ catalog'.coverage = catalog.coverage
  /\ catalog'.index = catalog.index
  /\ catalog'.lineage = catalog.lineage

\* No step but a commit changes them.
LEMMA FactsCarried ==
  ASSUME SyncTypeOK, SyncNext,
         ~\E p \in Procs : (Commit(p) \/ CommitUncertain(p)) /\ catalog' # catalog
  PROVE  FactsAsBefore
<1>1. ASSUME NEW p \in Procs, NEW st \in RunStatus, catalog' = RecordRun(catalog, p, st)
      PROVE  FactsAsBefore
  BY <1>1, RecordRunFacts DEF SyncTypeOK, FactsAsBefore
<1>2. CASE \E p \in Procs : Plan(p) \/ EnterPublication(p) \/ RecordFailedRun(p)
  <2>1. PICK p \in Procs : Plan(p) \/ EnterPublication(p) \/ RecordFailedRun(p)
    BY <1>2
  <2>2. \/ UNCHANGED catalog
        \/ \E st \in RunStatus : catalog' = RecordRun(catalog, p, st)
    BY <2>1 DEF Plan, EnterPublication, RecordFailedRun, RunStatus
  <2> QED BY <1>1, <2>2 DEF FactsAsBefore
<1>3. CASE UNCHANGED catalog
  BY <1>3 DEF FactsAsBefore
<1> QED
  BY <1>2, <1>3 DEF SyncNext, CallStep, Tick, StartCall, AcquireDatasetLock,
     DatasetLockTimesOut, PlanFails, Observe, RejectLineage, ProviderReplies,
     ObservationFails, EnterFails, PublicationFails, ResolveVisible, ResolveInvisible,
     Return, Crash, PrepareMonth, PrepareFails, PublishMonth

LEMMA NothingUnavailable ==
  ASSUME NEW old \in Coverage, NEW new \in Coverage, NEW s \in Slots,
         ApplyCoverage(old, new)[s] = "unavailable"
  PROVE  old[s] = "unavailable" \/ new[s] = "unavailable"
BY DEF ApplyCoverage, Prefer, Coverage, Status

\* A segment a call calls unavailable: observed, over, without a row.
LEMMA UnavailableSegment ==
  ASSUME NEW p \in Procs, NEW s \in Slots, NewSegments(p)[s] = "unavailable"
  PROVE  /\ s \in proc[p].observed \cap proc[p].gaps /\ s < proc[p].evidence
         /\ s \notin Held(proc[p].batch)
         /\ HasFacts(p)
<1>1. s \in ProvenSlots(p) /\ s \notin Held(proc[p].batch)
  BY DEF NewSegments, BarSegments
<1>2. NewSegments(p) # Nothing
  BY DEF Nothing
<1> QED BY <1>1, <1>2 DEF ProvenSlots, Finalizable, HasFacts

LEMMA FactsAfterCommit ==
  ASSUME SyncInv, \A q \in Procs : CallProven(q), FactsProven, clock' = clock,
         disk' = disk,
         NEW p \in Procs, Commit(p) \/ CommitUncertain(p), catalog' # catalog
  PROVE  FactsProven'
<1> USE DEF SyncInv
<1>1. PICK k \in Keys : k = proc[p].key
  BY DEF Commit, CommitUncertain, MayCommit, At, SyncTypeOK
<1>2. /\ proc[p].pc = "publishing" /\ proc[p].prov \in Providers
      /\ proc[p].prov # None
  BY StoreAssumption DEF Commit, CommitUncertain, MayCommit, At, CallProven, Locked
<1>3. /\ \A j \in Keys \ {k} : /\ catalog'.index[j] = catalog.index[j]
                               /\ catalog'.coverage[j] = catalog.coverage[j]
                               /\ catalog'.lineage[j] = catalog.lineage[j]
      /\ \A m \in Months : catalog'.index[k][m] =
           IF m \in PreparedMonths(p) THEN proc[p].prepared[m] ELSE catalog.index[k][m]
      /\ catalog'.coverage[k] = ApplyCoverage(catalog.coverage[k], NewSegments(p))
      /\ IF HasFacts(p)
         THEN catalog.lineage[k] \in {None, proc[p].prov} /\ catalog'.lineage[k] = proc[p].prov
         ELSE catalog'.lineage = catalog.lineage
  BY <1>1, LineageCommitted DEF FactsCommitted, LineageAdmits
<1>4. ASSUME NEW j \in Keys, NEW m \in Months, catalog'.index[j][m] # NoFile
      PROVE  /\ catalog'.index[j][m].prov # None
             /\ catalog'.index[j][m].prov = catalog'.lineage[j]
  <2>1. CASE j # k
    BY <1>3, <1>4, <2>1 DEF FactsProven
  <2>2. CASE j = k /\ m \in PreparedMonths(p)
    <3>1. HasFacts(p)
      BY <2>2 DEF HasFacts
    <3> QED BY <1>2, <1>3, <2>2, <3>1 DEF CallProven
  <2>3. CASE j = k /\ m \notin PreparedMonths(p)
    BY <1>3, <1>4, <2>3 DEF FactsProven
  <2> QED BY <2>1, <2>2, <2>3
<1>5. ASSUME NEW j \in Keys, NEW s \in Slots, catalog'.coverage[j][s] = "unavailable"
      PROVE  /\ catalog'.lineage[j] # None
             /\ s \notin Bars[catalog'.lineage[j]]
             /\ s < clock
  <2>1. CASE j # k
    BY <1>3, <1>5, <2>1 DEF FactsProven, UnavailableIsProven
  <2>2. CASE j = k /\ catalog.coverage[k][s] = "unavailable"
    BY <1>3, <2>2 DEF FactsProven, UnavailableIsProven
  <2>3. CASE j = k /\ catalog.coverage[k][s] # "unavailable"
    <3>1. catalog.coverage[k] \in Coverage
      BY DEF SyncTypeOK, CatalogState
    <3>2. NewSegments(p)[s] = "unavailable"
      BY <1>3, <1>5, <2>3, <3>1, NothingUnavailable, NewSegmentsType
    <3>3. /\ s \in proc[p].observed \cap proc[p].gaps /\ s < proc[p].evidence
          /\ s \notin Held(proc[p].batch)
          /\ HasFacts(p)
      BY <3>2, UnavailableSegment
    <3>4. s \notin Bars[proc[p].prov] /\ proc[p].evidence <= clock
      BY <1>2, <3>3 DEF CallProven
    <3>5. s < clock
      <4>1. s \in Nat /\ proc[p].evidence \in Nat /\ clock \in Nat
        BY StoreAssumption, ProcFields DEF SyncTypeOK
      <4> QED BY <3>3, <3>4, <4>1
    <3> QED BY <1>2, <1>3, <2>3, <3>3, <3>4, <3>5
  <2> QED BY <2>1, <2>2, <2>3
<1> QED BY <1>4, <1>5 DEF FactsProven, UnavailableIsProven

\* Files that are written name the provider of the call that prepared them.
LEMMA DiskAfterPublication ==
  ASSUME SyncInv, \A q \in Procs : CallProven(q), FactsProven, SyncNext
  PROVE  \A k \in Keys, m \in Months : disk'[k][m] # NoFile => disk'[k][m].prov # None
<1> USE DEF SyncInv
<1>1. ASSUME NEW p \in Procs, NEW m \in Months, PublishMonth(p, m)
      PROVE  \A k \in Keys, n \in Months : disk'[k][n] # NoFile => disk'[k][n].prov # None
  <2>1. PICK k \in Keys : k = proc[p].key
    BY <1>1 DEF PublishMonth, At, SyncTypeOK
  <2>2. disk' = [disk EXCEPT ![k][m] = proc[p].prepared[m]] /\ m \in PreparedMonths(p)
    BY <1>1, <2>1 DEF PublishMonth
  <2>3. proc[p].prepared[m].prov = proc[p].prov /\ proc[p].prov # None
    BY <1>1, <2>2, StoreAssumption DEF PublishMonth, At, CallProven, Locked
  <2>4. disk \in [Keys -> [Months -> File]]
    BY DEF SyncTypeOK
  <2> QED BY <2>2, <2>3, <2>4 DEF FactsProven
<1>2. CASE UNCHANGED disk
  BY <1>2 DEF FactsProven
<1>3. CASE ~\E p \in Procs, m \in Months : PublishMonth(p, m)
  <2>1. UNCHANGED disk
    BY <1>3 DEF SyncNext, CallStep, Tick, StartCall, AcquireDatasetLock,
       DatasetLockTimesOut, Plan, PlanFails, Observe, RejectLineage, ProviderReplies,
       ObservationFails, RecordFailedRun, EnterPublication, EnterFails,
       PublicationFails, Commit, CommitUncertain, ResolveVisible, ResolveInvisible,
       Return, Crash, PrepareMonth, PrepareFails
  <2> QED BY <1>2, <2>1
<1> QED BY <1>1, <1>3

LEMMA FactsSyncStep ==
  ASSUME SyncInv, \A q \in Procs : CallProven(q), FactsProven, SyncNext
  PROVE  FactsProven'
<1> USE DEF SyncInv
<1>1. \A k \in Keys, m \in Months : disk'[k][m] # NoFile => disk'[k][m].prov # None
  BY DiskAfterPublication
<1>2. CASE \E p \in Procs : (Commit(p) \/ CommitUncertain(p)) /\ catalog' # catalog
  BY <1>2, FactsAfterCommit DEF Commit, CommitUncertain
<1>3. CASE ~\E p \in Procs : (Commit(p) \/ CommitUncertain(p)) /\ catalog' # catalog
  <2>1. FactsAsBefore
    BY <1>3, FactsCarried
  <2>2. clock' \in {clock, clock + 1} /\ clock \in Nat
    BY DEF SyncNext, CallStep, Tick, StartCall, AcquireDatasetLock,
       DatasetLockTimesOut, Plan, PlanFails, Observe, RejectLineage, ProviderReplies,
       ObservationFails, RecordFailedRun, EnterPublication, EnterFails,
       PublicationFails, Commit, CommitUncertain, ResolveVisible, ResolveInvisible,
       Return, Crash, PrepareMonth, PrepareFails, PublishMonth, SyncTypeOK
  <2>3. \A s \in Slots : s \in Nat
    BY StoreAssumption
  <2>4. UnavailableIsProven'
    BY <2>1, <2>2, <2>3 DEF FactsProven, UnavailableIsProven, FactsAsBefore
  <2> QED BY <1>1, <2>1, <2>4 DEF FactsProven, FactsAsBefore
<1> QED BY <1>2, <1>3

\* A rebuild binds what the files name and claims no gap.
LEMMA FactsRebuilt ==
  ASSUME IInv, FactsProven, RebuildReplaces
  PROVE  FactsProven'
<1>1. /\ rebuild.files = disk /\ UNCHANGED <<disk, clock>>
      /\ catalog' = RebuiltCatalog(disk)
      /\ \A k \in Keys : OneLineage(disk[k])
  BY DEF RebuildReplaces, RebuildCurrent, IInv
<1>2. /\ catalog'.index = disk
      /\ catalog'.lineage = [k \in Keys |-> LineageOf(disk[k])]
      /\ catalog'.coverage = [k \in Keys |-> RowCoverage(disk[k])]
  BY <1>1 DEF RebuiltCatalog
<1>3. \A k \in Keys, s \in Slots : catalog'.coverage[k][s] # "unavailable"
  BY <1>2 DEF RowCoverage
<1>4. ASSUME NEW k \in Keys, NEW m \in Months, disk[k][m] # NoFile
      PROVE  disk[k][m].prov = LineageOf(disk[k])
  <2>1. m \in FileMonths(disk[k])
    BY <1>4 DEF FileMonths
  <2>2. (CHOOSE n \in FileMonths(disk[k]) : TRUE) \in FileMonths(disk[k])
    BY <2>1
  <2> QED BY <1>1, <2>1, <2>2 DEF LineageOf, OneLineage
<1> QED BY <1>1, <1>2, <1>3, <1>4 DEF FactsProven, UnavailableIsProven

LEMMA LineageNextHolds ==
  ASSUME LineageInv, Next PROVE LineageInv'
<1>1. IInv'
  BY StoreNextHolds DEF LineageInv
<1>2. ASSUME UNCHANGED <<proc, clock>>
      PROVE  \A p \in Procs : CallProven(p)'
  <2>1. \A p \in Procs : PreparedMonths(p)' = PreparedMonths(p)
    BY <1>2 DEF PreparedMonths
  <2> QED BY <1>2, <2>1 DEF LineageInv, CallProven
<1>3. CASE SyncNext /\ UNCHANGED rebuild
  BY <1>1, <1>3, CallsProvenStep, FactsSyncStep DEF LineageInv, IInv
<1>4. CASE RebuildReads \/ RebuildFails
  <2>1. UNCHANGED <<proc, clock, disk, catalog>>
    BY <1>4 DEF RebuildReads, RebuildFails
  <2>2. FactsProven'
    BY <2>1 DEF LineageInv, FactsProven, UnavailableIsProven
  <2> QED BY <1>1, <1>2, <2>1, <2>2 DEF LineageInv
<1>5. CASE RebuildReplaces
  <2>1. UNCHANGED <<proc, clock>>
    BY <1>5 DEF RebuildReplaces
  <2> QED BY <1>1, <1>2, <1>5, <2>1, FactsRebuilt DEF LineageInv
<1>6. CASE CatalogLost
  <2>1. UNCHANGED <<proc, clock, disk>> /\ catalog' = NoCatalog
    BY <1>6 DEF CatalogLost
  <2>2. /\ \A k \in Keys, m \in Months : NoCatalog.index[k][m] = NoFile
        /\ \A k \in Keys, s \in Slots : NoCatalog.coverage[k][s] = "missing"
    BY DEF NoCatalog, Nothing
  <2>3. FactsProven'
    BY <2>1, <2>2 DEF LineageInv, FactsProven, UnavailableIsProven
  <2> QED BY <1>1, <1>2, <2>1, <2>3 DEF LineageInv
<1> QED BY <1>3, <1>4, <1>5, <1>6 DEF Next, Maintenance

LEMMA LineageInitHolds == Init => LineageInv
<1> SUFFICES ASSUME Init PROVE LineageInv
  OBVIOUS
<1>1. IInv
  BY StoreInitHolds
<1>2. /\ proc = [p \in Procs |-> NoCall] /\ catalog = NoCatalog /\ clock = 0
      /\ disk = [k \in Keys |-> [m \in Months |-> NoFile]]
  BY DEF Init, SyncInit
<1>3. /\ NoCall.pc = "idle" /\ NoCall.evidence = 0
      /\ NoCall.prepared = [m \in Months |-> NoFile]
  BY DEF NoCall
<1>4. \A p \in Procs : PreparedMonths(p) = {} /\ proc[p] = NoCall
  BY <1>2, <1>3 DEF PreparedMonths
<1>5. ASSUME NEW p \in Procs PROVE CallProven(p)
  <2>1. /\ proc[p].pc = "idle" /\ proc[p].evidence = 0 /\ PreparedMonths(p) = {}
        /\ clock = 0
    BY <1>2, <1>3, <1>4
  <2>2. 0 <= 0
    OBVIOUS
  <2> QED BY <2>1, <2>2 DEF CallProven, Locked
<1>6. /\ \A k \in Keys, m \in Months : NoCatalog.index[k][m] = NoFile
      /\ \A k \in Keys, s \in Slots : NoCatalog.coverage[k][s] = "missing"
  BY DEF NoCatalog, Nothing
<1>7. FactsProven
  BY <1>2, <1>6 DEF FactsProven, UnavailableIsProven
<1> QED BY <1>1, <1>5, <1>7 DEF LineageInv

LEMMA LineageStutterHolds ==
  ASSUME LineageInv, UNCHANGED vars PROVE LineageInv'
<1>1. IInv'
  BY StoreStutterHolds DEF LineageInv
<1>2. \A p \in Procs : PreparedMonths(p)' = PreparedMonths(p)
  BY DEF PreparedMonths, vars
<1>3. UNCHANGED <<proc, clock, disk, catalog>>
  BY DEF vars
<1> QED BY <1>1, <1>2, <1>3
  DEF LineageInv, CallProven, FactsProven, UnavailableIsProven

\* Files, index and lineage agree on the provider, and every gap the catalog
\* knows of is one, whatever calls, rebuilds and losses have happened.
THEOREM LineageSafety == Spec => []LineageInv
<1>1. Init => LineageInv
  BY LineageInitHolds
<1>2. LineageInv /\ [Next]_vars => LineageInv'
  BY LineageNextHolds, LineageStutterHolds
<1> QED BY <1>1, <1>2, PTL DEF Spec

\* The index never mixes providers: a commit binds the lineage in the same
\* transaction as the files, and is refused if another is bound by then.
THEOREM IndexIsOfOneLineage == Spec => []IndexNamesLineage
<1>1. LineageInv => IndexNamesLineage
  BY DEF LineageInv, FactsProven, IndexNamesLineage, FileMonths
<1> QED BY <1>1, LineageSafety, PTL

\* A bar is recorded as unavailable only if its provider has none and its
\* interval is over, although the clock moves while a call runs.
THEOREM GapsAreProven == Spec => []UnavailableIsProven
<1>1. LineageInv => UnavailableIsProven
  BY DEF LineageInv, FactsProven
<1> QED BY <1>1, LineageSafety, PTL

-----------------------------------------------------------------------------
(* Without maintenance, a call of another provider is refused early.       *)

\* A call that has something to fetch was admitted by the lineage it read,
\* which is still bound; one that has nothing to fetch prepares no file.  A
\* call has no outcome before it fails or ends.
Admitted(p) ==
  /\ At(p, "observing") => proc[p].lineage = catalog.lineage[proc[p].key]
  /\ proc[p].pc \in {"replying", "preparing", "publishing"} =>
       IF proc[p].gaps = {} THEN PreparedMonths(p) = {}
       ELSE LineageAdmits(catalog.lineage[proc[p].key], proc[p].prov)
  /\ proc[p].pc \notin {"failing", "done"} => proc[p].outcome = "none"

AdmissionInv == PromiseInv /\ \A p \in Procs : Admitted(p)

\* A commit binds the lineage of a dataset its call has locked.
LEMMA OthersAdmitted ==
  ASSUME SyncTypeOK, LocksHeld, NEW p \in Procs, Moved(p),
         NEW q \in Procs \ {p}, Admitted(q),
         \/ catalog'.lineage = catalog.lineage
         \/ /\ proc[p].pc \in Locked
            /\ \A k \in Keys \ {proc[p].key} : catalog'.lineage[k] = catalog.lineage[k]
  PROVE  Admitted(q)'
<1>1. proc'[q] = proc[q] /\ PreparedMonths(q)' = PreparedMonths(q)
  BY DEF Moved, PreparedMonths
<1>2. proc[q].pc \in Locked => catalog'.lineage[proc[q].key] = catalog.lineage[proc[q].key]
  BY DEF LocksHeld, SyncTypeOK, Locked
<1> QED BY <1>1, <1>2 DEF Admitted, At, Locked

LEMMA NoOutcomeYet ==
  ASSUME SyncTypeOK, NEW p \in Procs,
         \/ AcquireDatasetLock(p) \/ Plan(p) \/ Observe(p) \/ ProviderReplies(p)
         \/ EnterPublication(p) \/ CommitUncertain(p)
         \/ \E m \in Months : PrepareMonth(p, m) \/ PublishMonth(p, m)
  PROVE  proc'[p].outcome = proc[p].outcome /\ proc'[p].prov = proc[p].prov
<1>1. CASE AcquireDatasetLock(p) \/ Plan(p) \/ Observe(p)
  <2>1. CASE AcquireDatasetLock(p)
    BY <2>1, ProcFields DEF AcquireDatasetLock, SyncTypeOK, Call
  <2>2. CASE Observe(p)
    BY <2>2, ProcFields DEF Observe, SyncTypeOK, Call
  <2>3. CASE Plan(p)
    <3>1. PICK pc, gaps, lineage :
            proc' = [proc EXCEPT ![p].pc = pc, ![p].gaps = gaps, ![p].lineage = lineage]
      BY <2>3, Zenon DEF Plan
    <3> QED BY <3>1, ProcFields DEF SyncTypeOK, Call
  <2> QED BY <1>1, <2>1, <2>2, <2>3
<1>2. CASE ProviderReplies(p)
  <2>1. PICK seen, batch :
          proc' = [proc EXCEPT ![p].pc = "preparing", ![p].observed = seen,
                               ![p].batch = batch]
    BY <1>2, Zenon DEF ProviderReplies
  <2> QED BY <2>1, ProcFields DEF SyncTypeOK, Call
<1>3. CASE EnterPublication(p) \/ CommitUncertain(p)
  BY <1>3, ProcFields DEF EnterPublication, CommitUncertain, SyncTypeOK, Call
<1>4. CASE \E m \in Months : PrepareMonth(p, m)
  <2>1. PICK m, file : proc' = [proc EXCEPT ![p].prepared[m] = file]
    BY <1>4 DEF PrepareMonth
  <2> QED BY <2>1, ProcFields DEF SyncTypeOK, Call
<1>5. CASE \E m \in Months : PublishMonth(p, m)
  <2>1. PICK m \in Months : proc' = [proc EXCEPT ![p].published = @ \cup {m}]
    BY <1>5 DEF PublishMonth
  <2> QED BY <2>1, ProcFields DEF SyncTypeOK, Call
<1> QED BY <1>1, <1>2, <1>3, <1>4, <1>5

LEMMA AdmittedStep ==
  ASSUME AdmissionInv, SyncNext
  PROVE  \A q \in Procs : Admitted(q)'
<1> USE DEF At, Locked, AdmissionInv, PromiseInv, SyncInv
<1>1. ASSUME NEW p \in Procs, Moved(p), Admitted(p)',
             \/ catalog'.lineage = catalog.lineage
             \/ /\ proc[p].pc \in Locked
                /\ \A k \in Keys \ {proc[p].key} : catalog'.lineage[k] = catalog.lineage[k]
      PROVE  \A q \in Procs : Admitted(q)'
  BY <1>1, OthersAdmitted
<1>2. ASSUME NEW p \in Procs, Commit(p) \/ CommitUncertain(p), catalog' # catalog
      PROVE  \A q \in Procs : Admitted(q)'
  <2>1. /\ proc[p].pc = "publishing"
        /\ \A k \in Keys \ {proc[p].key} : catalog'.lineage[k] = catalog.lineage[k]
    BY <1>2, LineageCommitted DEF Commit, CommitUncertain, MayCommit
  <2>2. CASE Commit(p)
    <3>1. Moved(p) /\ proc'[p].pc = "done"
      BY <2>2, EndsEffect DEF Commit, Finish, Outcome, Blank
    <3>2. Admitted(p)'
      BY <3>1 DEF Admitted
    <3> QED BY <1>1, <2>1, <3>1, <3>2
  <2>3. CASE CommitUncertain(p)
    <3>1. Moved(p) /\ proc'[p].pc = "uncertain" /\ proc'[p].outcome = proc[p].outcome
      BY <2>3, PhaseEffect, NoOutcomeYet DEF CommitUncertain, Keeps
    <3>2. Admitted(p)'
      BY <2>1, <3>1 DEF Admitted
    <3> QED BY <1>1, <2>1, <3>1, <3>2
  <2> QED BY <1>2, <2>2, <2>3
<1>3. CASE ~\E p \in Procs : (Commit(p) \/ CommitUncertain(p)) /\ catalog' # catalog
  <2>0. catalog'.lineage = catalog.lineage
    BY <1>3, FactsCarried DEF FactsAsBefore
  <2>1. ASSUME NEW p \in Procs, Moved(p), Admitted(p)'
        PROVE  \A q \in Procs : Admitted(q)'
    BY <1>1, <2>0, <2>1
  <2>2. CASE Tick
    BY <2>0, <2>2 DEF Tick, Admitted, PreparedMonths
  <2>3. ASSUME NEW p \in Procs,
               \/ \E k \in Keys, r \in Requests, v \in Providers : StartCall(p, k, r, v)
               \/ DatasetLockTimesOut(p) \/ PlanFails(p) \/ RecordFailedRun(p)
               \/ PublicationFails(p) /\ AnyPublished(p)
               \/ Commit(p) \/ ResolveVisible(p) \/ ResolveInvisible(p)
               \/ Return(p) \/ Crash(p)
        PROVE  \A q \in Procs : Admitted(q)'
    <3>1. Moved(p) /\ proc'[p].pc \in {"locking", "done", "idle"}
      BY <2>3, Ending DEF Blank
    <3>2. NoCall.outcome = "none" /\ NoCall.pc = "idle"
      BY DEF NoCall
    <3>3. CASE \E k \in Keys, r \in Requests, v \in Providers : StartCall(p, k, r, v)
      <4>1. proc'[p].outcome = "none"
        BY <3>3 DEF StartCall, SyncTypeOK, NoCall
      <4> QED BY <2>1, <3>1, <4>1 DEF Admitted
    <3>4. CASE Return(p) \/ Crash(p)
      <4>1. proc'[p] = NoCall
        BY <3>4 DEF Return, Crash, SyncTypeOK
      <4> QED BY <2>1, <3>1, <3>2, <4>1 DEF Admitted
    <3>5. CASE \/ DatasetLockTimesOut(p) \/ PlanFails(p) \/ RecordFailedRun(p)
               \/ PublicationFails(p) /\ AnyPublished(p)
               \/ Commit(p) \/ ResolveVisible(p) \/ ResolveInvisible(p)
      <4>1. proc'[p].pc = "done"
        <5>1. CASE DatasetLockTimesOut(p)
          BY <5>1, EndsEffect DEF DatasetLockTimesOut, Outcome
        <5>2. CASE PlanFails(p) \/ Commit(p) \/ ResolveVisible(p) \/ ResolveInvisible(p)
          BY <5>2, EndsEffect
          DEF PlanFails, Commit, ResolveVisible, ResolveInvisible, Finish, Outcome
        <5>3. CASE RecordFailedRun(p)
          <6>1. proc[p].outcome \in Outcome
            BY ProcFields
          <6> QED BY <5>3, <6>1, EndsEffect DEF RecordFailedRun, Finish
        <5>4. CASE PublicationFails(p) /\ AnyPublished(p)
          BY <5>4, EndsEffect
          DEF PublicationFails, PublicationRaises, Rejections, Finish, Outcome
        <5> QED BY <3>5, <5>1, <5>2, <5>3, <5>4
      <4> QED BY <2>1, <3>1, <4>1 DEF Admitted
    <3> QED BY <2>3, <3>3, <3>4, <3>5
  <2>4. ASSUME NEW p \in Procs,
               \/ RejectLineage(p) \/ ObservationFails(p) \/ EnterFails(p)
               \/ PublicationFails(p) /\ ~AnyPublished(p)
               \/ \E m \in Months : PrepareFails(p, m)
        PROVE  \A q \in Procs : Admitted(q)'
    <3>1. Moved(p) /\ proc'[p].pc = "failing"
      BY <2>4, FailingEffect
      DEF RejectLineage, ObservationFails, EnterFails, PrepareFails, PublicationFails,
          PublicationRaises, Rejections, Abandon, Outcome, Keeps
    <3> QED BY <2>1, <3>1 DEF Admitted
  <2>5. ASSUME NEW p \in Procs, AcquireDatasetLock(p)
        PROVE  \A q \in Procs : Admitted(q)'
    <3>1. Moved(p) /\ proc'[p].pc = "planning" /\ proc'[p].outcome = "none"
      BY <2>5, AcquireEffect, NoOutcomeYet DEF Keeps, Admitted, AcquireDatasetLock
    <3> QED BY <2>1, <3>1 DEF Admitted
  <2>6. ASSUME NEW p \in Procs, Plan(p)
        PROVE  \A q \in Procs : Admitted(q)'
    <3>1. /\ Keeps(p) /\ proc[p].pc = "planning" /\ proc'[p].outcome = "none"
          /\ PreparedMonths(p) = {}
      BY <2>6, PlanEffect, NoOutcomeYet DEF Admitted, Plan, PreparedCurrent, PreparedBy
    <3>2. PreparedMonths(p)' = {}
      BY <3>1 DEF Keeps, PreparedMonths
    <3>3. /\ proc'[p].lineage = catalog.lineage[proc[p].key]
          /\ \/ proc'[p].pc = "observing"
             \/ proc'[p].pc = "preparing" /\ proc'[p].gaps = {}
      BY <2>6, ProcFields DEF Plan, PlannedLineage, SyncTypeOK, Call
    <3> QED BY <2>0, <2>1, <3>1, <3>2, <3>3 DEF Admitted, Keeps
  <2>7. ASSUME NEW p \in Procs, Observe(p)
        PROVE  \A q \in Procs : Admitted(q)'
    <3>1. /\ Keeps(p) /\ proc[p].pc = "observing" /\ proc'[p].outcome = "none"
          /\ proc'[p].pc = "replying" /\ proc'[p].prov = proc[p].prov
          /\ LineageAdmits(catalog.lineage[proc[p].key], proc[p].prov)
          /\ PreparedMonths(p) = {}
      BY <2>7, ObserveEffect, NoOutcomeYet DEF Admitted, Observe, PreparedCurrent, PreparedBy
    <3>2. PreparedMonths(p)' = {}
      BY <3>1 DEF Keeps, PreparedMonths
    <3> QED BY <2>0, <2>1, <3>1, <3>2 DEF Admitted, Keeps
  <2>8. ASSUME NEW p \in Procs, ProviderReplies(p)
        PROVE  \A q \in Procs : Admitted(q)'
    <3>1. /\ Moved(p) /\ proc[p].pc = "replying" /\ proc'[p].pc = "preparing"
          /\ proc'[p].key = proc[p].key /\ proc'[p].prepared = proc[p].prepared
          /\ proc'[p].outcome = "none" /\ proc'[p].prov = proc[p].prov
      BY <2>8, RepliesEffect, NoOutcomeYet DEF Admitted, ProviderReplies
    <3>2. PreparedMonths(p)' = PreparedMonths(p)
      BY <3>1 DEF PreparedMonths
    <3>3. proc'[p].gaps = proc[p].gaps
      <4>1. PICK seen, batch :
              proc' = [proc EXCEPT ![p].pc = "preparing", ![p].observed = seen,
                                   ![p].batch = batch]
        BY <2>8, Zenon DEF ProviderReplies
      <4> QED BY <4>1, ProcFields DEF SyncTypeOK, Call
    <3> QED BY <2>0, <2>1, <3>1, <3>2, <3>3 DEF Admitted
  <2>9. ASSUME NEW p \in Procs, NEW m \in Months, PrepareMonth(p, m)
        PROVE  \A q \in Procs : Admitted(q)'
    <3>1. /\ Moved(p) /\ proc[p].pc = "preparing" /\ proc'[p].pc = "preparing"
          /\ proc'[p].key = proc[p].key
          /\ proc'[p].outcome = "none" /\ proc'[p].prov = proc[p].prov
      BY <2>9, PrepareEffect, NoOutcomeYet DEF Admitted, PrepareMonth
    <3>2. proc'[p].gaps = proc[p].gaps
      BY <2>9, ProcFields DEF PrepareMonth, SyncTypeOK, Call
    \* The month has rows of the batch, which lie in the gaps.
    <3>3. proc[p].gaps # {}
      <4>1. m \in BatchMonths(proc[p].batch)
        BY <2>9 DEF PrepareMonth
      <4>2. Held(proc[p].batch) # {}
        BY <4>1 DEF BatchMonths, Held
      <4> QED BY <3>1, <4>2 DEF FillsGaps
    <3> QED BY <2>0, <2>1, <3>1, <3>2, <3>3 DEF Admitted
  <2>10. ASSUME NEW p \in Procs,
                EnterPublication(p) \/ CommitUncertain(p) \/ \E m \in Months : PublishMonth(p, m)
         PROVE  \A q \in Procs : Admitted(q)'
    <3>1. KnowsAsBefore(p) /\ proc'[p].outcome = proc[p].outcome
      BY <2>10, Knowing, NoOutcomeYet
    <3>2. /\ proc'[p].key = proc[p].key /\ proc[p].pc \in {"preparing", "publishing"}
          /\ proc'[p].pc \in {"publishing", "uncertain"}
      BY <2>10, PhaseEffect, PublishEffect
      DEF EnterPublication, CommitUncertain, MayCommit, PublishMonth, Keeps
    <3>3. PreparedMonths(p)' = PreparedMonths(p)
      BY <3>1 DEF KnowsAsBefore, PreparedMonths
    <3> QED BY <2>0, <2>1, <3>1, <3>2, <3>3 DEF Admitted, KnowsAsBefore
  <2> QED BY <2>2, <2>3, <2>4, <2>5, <2>6, <2>7, <2>8, <2>9, <2>10 DEF SyncNext, CallStep
<1> QED BY <1>2, <1>3

\* What a call would bind at its commit is admitted.
LEMMA NothingRejected ==
  ASSUME AdmissionInv, NEW p \in Procs, At(p, "publishing")
  PROVE  Rejections(p) = {}
<1> USE DEF At, AdmissionInv, PromiseInv
<1>1. CASE proc[p].gaps # {}
  BY <1>1 DEF Admitted, Rejections
<1>2. CASE proc[p].gaps = {}
  <2>1. PreparedMonths(p) = {}
    BY <1>2 DEF Admitted
  <2>2. ProvenSlots(p) = {}
    BY <1>2 DEF ProvenSlots, Finalizable
  <2>3. NewSegments(p) = Nothing
    BY <2>2 DEF NewSegments, BarSegments, Nothing
  <2>4. ~HasFacts(p)
    BY <2>1, <2>3 DEF HasFacts
  <2> QED BY <2>4 DEF Rejections
<1> QED BY <1>1, <1>2

\* A call of another provider is refused before it publishes anything,
\* although the lineage is read by the plan and checked again by the commit:
\* between the two only the call itself can bind one.
THEOREM RefusedBeforePublication == SyncSpec => LineageRejectedBeforePublication
<1> DEFINE Early == \A p \in Procs :
              (proc'[p].outcome = "lineage") => proc[p].published = {}
<1>1. SyncInit => AdmissionInv
  BY PromiseInitHolds DEF AdmissionInv, Admitted, SyncInit, NoCall, At
<1>2. AdmissionInv /\ [SyncNext]_syncVars => AdmissionInv'
  <2>1. ASSUME AdmissionInv, UNCHANGED syncVars PROVE AdmissionInv'
    BY <2>1, PromiseStutterHolds DEF AdmissionInv, Admitted, PreparedMonths, At, syncVars
  <2> QED BY <2>1, PromiseNextHolds, AdmittedStep DEF AdmissionInv
<1>3. ASSUME AdmissionInv, SyncNext PROVE Early
  <2> USE <1>3 DEF AdmissionInv, PromiseInv, SyncInv, At
  <2> SUFFICES ASSUME NEW p \in Procs, proc'[p].outcome = "lineage",
                      proc[p].published # {}
               PROVE  FALSE
    OBVIOUS
  <2>1. proc[p].pc \in {"publishing", "uncertain"}
    BY DEF PreparedCurrent, PreparedBy
  <2>2. proc'[p].pc \in {"failing", "done"}
    BY AdmittedStep DEF Admitted
  <2>3. CASE proc'[p].pc = "failing"
    <3>1. proc'[p].published = proc[p].published /\ SyncInv'
      BY <2>3, FailsWith, PromiseNextHolds
    <3> QED BY <2>3, <3>1 DEF PreparedCurrent, PreparedBy
  <2>4. CASE proc'[p].pc = "done"
    <3>1. ASSUME NEW o, Finish(p, o) PROVE proc'[p].outcome = o
      BY <3>1 DEF Finish, NoCall, SyncTypeOK
    <3>2. CASE PublicationFails(p)
      <4>1. PICK o \in {"error"} : PublicationRaises(p, o)
        BY <3>2, NothingRejected DEF PublicationFails
      <4> QED BY <3>1, <4>1 DEF PublicationRaises, AnyPublished
    <3>3. CASE Commit(p) \/ ResolveVisible(p) \/ ResolveInvisible(p)
      BY <3>1, <3>3 DEF Commit, ResolveVisible, ResolveInvisible
    <3>4. ~(DatasetLockTimesOut(p) \/ PlanFails(p) \/ RecordFailedRun(p))
      BY <2>1 DEF DatasetLockTimesOut, PlanFails, RecordFailedRun
    <3> QED BY <2>1, <2>4, <3>2, <3>3, <3>4, EndedBy
  <2> QED BY <2>2, <2>3, <2>4
<1>4. AdmissionInv /\ [SyncNext]_syncVars => [Early]_syncVars
  BY <1>3
<1> QED BY <1>1, <1>2, <1>4, PTL DEF SyncSpec, LineageRejectedBeforePublication
=============================================================================
