------------------------- MODULE SyncPromiseProofs -------------------------
(***************************************************************************)
(* What sync promises without maintenance: temporaries survive until they  *)
(* are published and never outlive the call, success means indexed, rows   *)
(* that are available stay as they are, and BarSync implements             *)
(* PublishedRows.  Beside SyncInv this needs two more invariants: where a  *)
(* call's temporaries are, and which rows it may change.                   *)
(***************************************************************************)
EXTENDS BarSyncProofs

\* The temporaries of a call are where it left them: those it will publish
\* are there, those it has published or discarded are not.
TempsOwned(p) ==
  LET k == proc[p].key IN
  /\ proc[p].pc \in {"preparing", "publishing"} =>
       PreparedMonths(p) \ proc[p].published \subseteq temps[k]
  /\ proc[p].pc \in Locked => proc[p].published \cap temps[k] = {}
  /\ At(p, "failing") =>
       PreparedMonths(p) \cap temps[k] = {} /\ proc[p].outcome # "ok"

\* A call fills gaps only: no gap of its plan has become available since,
\* its batch lies in the gaps, and the files it prepared differ from those
\* on disk in rows of the batch only.
FillsGaps(p) ==
  LET k == proc[p].key IN
  /\ proc[p].pc \in {"observing", "replying", "preparing", "publishing"} =>
       \A s \in proc[p].gaps : catalog.coverage[k][s] # "available"
  /\ proc[p].pc \in {"locking", "planning", "observing", "replying"} =>
       Held(proc[p].batch) = {}
  /\ proc[p].pc \in {"preparing", "publishing"} =>
       /\ Held(proc[p].batch) \subseteq proc[p].gaps
       /\ \A s \in Slots \ Held(proc[p].batch) :
            MonthOf[s] \in PreparedMonths(p) =>
              proc[p].prepared[MonthOf[s]].rows[s] = disk[proc[p].key][MonthOf[s]].rows[s]

PromiseInv == SyncInv /\ \A p \in Procs : TempsOwned(p) /\ FillsGaps(p)

-----------------------------------------------------------------------------
(* What the actions do to a call, once more, with what it may change.      *)

\* The call goes on with what it has.
Carries(p) ==
  /\ Keeps(p)
  /\ proc'[p].gaps = proc[p].gaps

\* Nothing but the phase of a call, its evidence or its outcome changes.
LEMMA Carrying ==
  ASSUME SyncTypeOK, NEW p \in Procs,
         \/ AcquireDatasetLock(p) \/ Observe(p) \/ RejectLineage(p)
         \/ ObservationFails(p) \/ EnterPublication(p) \/ EnterFails(p)
         \/ CommitUncertain(p)
         \/ PublicationFails(p) /\ ~AnyPublished(p)
         \/ \E m \in Months : PrepareFails(p, m)
  PROVE  Carries(p)
<1>1. CASE AcquireDatasetLock(p)
  <2>1. proc'[p].gaps = proc[p].gaps
    BY <1>1, ProcFields DEF AcquireDatasetLock, SyncTypeOK, Call
  <2> QED BY <1>1, <2>1, AcquireEffect DEF Carries
<1>2. CASE Observe(p)
  <2>1. proc'[p].gaps = proc[p].gaps
    BY <1>2, ProcFields DEF Observe, SyncTypeOK, Call
  <2> QED BY <1>2, <2>1, ObserveEffect DEF Carries
<1>3. ASSUME NEW o \in Outcome,
             proc' = [proc EXCEPT ![p].pc = "failing", ![p].outcome = o]
      PROVE  Carries(p)
  <2>1. proc'[p].gaps = proc[p].gaps
    BY <1>3, ProcFields DEF SyncTypeOK, Call
  <2> QED BY <1>3, <2>1, FailingEffect DEF Carries
<1>4. CASE RejectLineage(p) \/ ObservationFails(p) \/ EnterFails(p)
  BY <1>3, <1>4 DEF RejectLineage, ObservationFails, EnterFails, Abandon, Outcome
<1>5. CASE PublicationFails(p) /\ ~AnyPublished(p)
  BY <1>3, <1>5 DEF PublicationFails, PublicationRaises, Rejections, Outcome
<1>6. CASE \E m \in Months : PrepareFails(p, m)
  BY <1>3, <1>6 DEF PrepareFails, Outcome
<1>7. ASSUME NEW pc \in Locked, proc' = [proc EXCEPT ![p].pc = pc]
      PROVE  Carries(p)
  <2>1. proc'[p].gaps = proc[p].gaps
    BY <1>7, ProcFields DEF SyncTypeOK, Call
  <2> QED BY <1>7, <2>1, PhaseEffect DEF Carries
<1>8. CASE EnterPublication(p) \/ CommitUncertain(p)
  BY <1>7, <1>8 DEF EnterPublication, CommitUncertain, Locked
<1> QED BY <1>1, <1>2, <1>4, <1>5, <1>6, <1>8

\* The call begins with nothing or is over.
LEMMA Ending ==
  ASSUME SyncTypeOK, NEW p \in Procs,
         \/ \E k \in Keys, r \in Requests, v \in Providers : StartCall(p, k, r, v)
         \/ DatasetLockTimesOut(p) \/ PlanFails(p) \/ RecordFailedRun(p)
         \/ PublicationFails(p) /\ AnyPublished(p)
         \/ Commit(p) \/ ResolveVisible(p) \/ ResolveInvisible(p)
         \/ Return(p) \/ Crash(p)
  PROVE  Blank(p) /\ proc'[p].pc \in {"locking", "done", "idle"}
<1>1. ASSUME NEW k \in Keys, NEW r \in Requests, NEW v \in Providers,
             StartCall(p, k, r, v)
      PROVE  Blank(p) /\ proc'[p].pc = "locking"
  BY <1>1, StartCallEffect
<1>2. CASE Return(p) \/ Crash(p)
  BY <1>2, ClearedEffect DEF Return, Crash
<1>3. CASE DatasetLockTimesOut(p)
  BY <1>3, EndsEffect DEF DatasetLockTimesOut, Outcome
<1>4. CASE PlanFails(p) \/ Commit(p) \/ ResolveVisible(p) \/ ResolveInvisible(p)
  BY <1>4, EndsEffect
  DEF PlanFails, Commit, ResolveVisible, ResolveInvisible, Finish, Outcome
<1>5. CASE RecordFailedRun(p)
  <2>1. proc[p].outcome \in Outcome
    BY ProcFields
  <2> QED BY <1>5, <2>1, EndsEffect DEF RecordFailedRun, Finish
<1>6. CASE PublicationFails(p) /\ AnyPublished(p)
  BY <1>6, EndsEffect DEF PublicationFails, PublicationRaises, Rejections, Finish, Outcome
<1> QED BY <1>1, <1>2, <1>3, <1>4, <1>5, <1>6

-----------------------------------------------------------------------------
(* Temporaries.                                                            *)

\* A call changes the temporaries of the dataset it has locked only.
LEMMA OthersTemps ==
  ASSUME SyncTypeOK, LocksHeld, NEW p \in Procs, Moved(p),
         NEW q \in Procs \ {p}, TempsOwned(q),
         temps' = temps \/ /\ proc[p].pc \in Locked
                           /\ \A k \in Keys \ {proc[p].key} : temps'[k] = temps[k]
  PROVE  TempsOwned(q)'
<1>1. proc'[q] = proc[q] /\ PreparedMonths(q)' = PreparedMonths(q)
  BY DEF Moved, PreparedMonths
<1>2. proc[q].pc \in Locked => temps'[proc[q].key] = temps[proc[q].key]
  BY DEF LocksHeld, SyncTypeOK, Locked
<1> QED BY <1>1, <1>2 DEF TempsOwned, At, Locked

LEMMA TempsStep ==
  ASSUME PromiseInv, SyncNext
  PROVE  \A q \in Procs : TempsOwned(q)'
<1> USE DEF At, Locked, PromiseInv, SyncInv
<1>1. CASE Tick
  BY <1>1 DEF Tick, TempsOwned, PreparedMonths
<1>2. ASSUME NEW p \in Procs,
             Moved(p), TempsOwned(p)',
             temps' = temps \/ /\ proc[p].pc \in Locked
                               /\ \A k \in Keys \ {proc[p].key} : temps'[k] = temps[k]
      PROVE  \A q \in Procs : TempsOwned(q)'
  BY <1>2, OthersTemps
<1>3. ASSUME NEW p \in Procs,
             \/ \E k \in Keys, r \in Requests, v \in Providers : StartCall(p, k, r, v)
             \/ DatasetLockTimesOut(p) \/ PlanFails(p) \/ RecordFailedRun(p)
             \/ PublicationFails(p) /\ AnyPublished(p)
             \/ Commit(p) \/ ResolveVisible(p) \/ ResolveInvisible(p)
             \/ Return(p) \/ Crash(p)
      PROVE  \A q \in Procs : TempsOwned(q)'
  <2>1. Blank(p) /\ proc'[p].pc \in {"locking", "done", "idle"}
    BY <1>3, Ending
  <2>2. TempsOwned(p)'
    BY <2>1 DEF TempsOwned
  <2>3. temps' = temps \/ /\ proc[p].pc \in Locked
                          /\ \A k \in Keys \ {proc[p].key} : temps'[k] = temps[k]
    <3>1. CASE PublicationFails(p)
      BY <3>1 DEF PublicationFails, PublicationRaises, SyncTypeOK
    <3> QED BY <1>3, <3>1 DEF StartCall, DatasetLockTimesOut, PlanFails,
          RecordFailedRun, Commit, ResolveVisible, ResolveInvisible, Return, Crash
  <2> QED BY <1>2, <2>1, <2>2, <2>3 DEF Blank
<1>4. ASSUME NEW p \in Procs,
             AcquireDatasetLock(p) \/ Plan(p) \/ Observe(p) \/ ProviderReplies(p)
      PROVE  \A q \in Procs : TempsOwned(q)'
  <2>1. Moved(p) /\ proc'[p].prepared = proc[p].prepared
        /\ proc'[p].published = proc[p].published
        /\ proc'[p].pc \in {"planning", "preparing", "observing", "replying"}
    BY <1>4, AcquireEffect, PlanEffect, ObserveEffect, RepliesEffect DEF Keeps
  <2>2. PreparedMonths(p) = {} /\ proc[p].published = {} /\ PreparedMonths(p)' = {}
    BY <1>4, <2>1 DEF PreparedCurrent, PreparedBy, PreparedMonths,
                      AcquireDatasetLock, Plan, Observe, ProviderReplies
  <2>3. TempsOwned(p)'
    BY <2>1, <2>2 DEF TempsOwned
  <2>4. temps' = temps
    BY <1>4 DEF AcquireDatasetLock, Plan, Observe, ProviderReplies
  <2> QED BY <1>2, <2>1, <2>3, <2>4
\* The failure handlers discard what the call has not published.
<1>5. ASSUME NEW p \in Procs, Carries(p), proc[p].pc \in {"observing", "replying", "preparing", "publishing"},
             proc'[p].pc = "failing", proc'[p].outcome # "ok",
             proc[p].published = {},
             NEW rest \in SUBSET Discarded(p),
             temps' = [temps EXCEPT ![proc[p].key] = rest]
      PROVE  \A q \in Procs : TempsOwned(q)'
  <2>1. proc[p].key \in Keys
    BY <1>5 DEF SyncTypeOK
  <2>2. /\ temps'[proc[p].key] = rest
        /\ \A k \in Keys \ {proc[p].key} : temps'[k] = temps[k]
    BY <1>5, <2>1 DEF SyncTypeOK
  <2>3. PreparedMonths(p)' = PreparedMonths(p) /\ proc'[p].published = {}
        /\ proc'[p].key = proc[p].key
    BY <1>5 DEF Carries, Keeps, PreparedMonths
  <2>4. TempsOwned(p)'
    BY <1>5, <2>2, <2>3 DEF TempsOwned, Discarded
  <2> QED BY <1>2, <1>5, <2>2, <2>4 DEF Carries, Keeps
<1>6. ASSUME NEW p \in Procs,
             \/ RejectLineage(p) \/ ObservationFails(p) \/ EnterFails(p)
             \/ PublicationFails(p) /\ ~AnyPublished(p)
             \/ \E m \in Months : PrepareFails(p, m)
      PROVE  \A q \in Procs : TempsOwned(q)'
  <2>1. Carries(p)
    BY <1>6, Carrying
  <2>2. proc[p].pc \in {"observing", "replying", "preparing", "publishing"}
    BY <1>6 DEF RejectLineage, ObservationFails, EnterFails, PublicationFails, PrepareFails
  <2>3. proc[p].published = {}
    BY <1>6 DEF RejectLineage, ObservationFails, EnterFails, PrepareFails,
                AnyPublished, PreparedCurrent, PreparedBy
  <2>4. \E rest \in SUBSET Discarded(p) : temps' = [temps EXCEPT ![proc[p].key] = rest]
    <3>1. CASE \E m \in Months : PrepareFails(p, m)
      <4>1. PICK m \in Months : PrepareFails(p, m)
        BY <3>1
      <4>2. Discarded(p) \ {m} \in SUBSET Discarded(p)
        OBVIOUS
      <4> QED BY <4>1, <4>2 DEF PrepareFails
    <3> QED BY <1>6, <3>1 DEF RejectLineage, ObservationFails, EnterFails,
                Abandon, PublicationFails, PublicationRaises
  <2>5. proc'[p].pc = "failing" /\ proc'[p].outcome # "ok"
    <3>1. ASSUME NEW o \in {"error", "lineage"},
                 proc' = [proc EXCEPT ![p].pc = "failing", ![p].outcome = o]
          PROVE  proc'[p].pc = "failing" /\ proc'[p].outcome # "ok"
      BY <3>1, ProcFields DEF SyncTypeOK, Call
    <3> QED BY <1>6, <3>1 DEF RejectLineage, ObservationFails, EnterFails, PrepareFails,
                Abandon, PublicationFails, PublicationRaises, Rejections
  <2> QED BY <1>5, <2>1, <2>2, <2>3, <2>4, <2>5
<1>7. ASSUME NEW p \in Procs, EnterPublication(p) \/ CommitUncertain(p)
      PROVE  \A q \in Procs : TempsOwned(q)'
  <2>1. Carries(p) /\ temps' = temps /\ proc[p].pc \in {"preparing", "publishing"}
    BY <1>7, Carrying DEF EnterPublication, CommitUncertain, MayCommit
  <2>2. PreparedMonths(p)' = PreparedMonths(p)
    BY <2>1 DEF Carries, Keeps, PreparedMonths
  <2>3. proc'[p].pc \in {"publishing", "uncertain"}
    BY <1>7, PhaseEffect DEF EnterPublication, CommitUncertain
  <2>4. TempsOwned(p)'
    BY <2>1, <2>2, <2>3 DEF TempsOwned, Carries, Keeps
  <2> QED BY <1>2, <2>1, <2>4 DEF Carries, Keeps
<1>8. ASSUME NEW p \in Procs, NEW m \in Months, PrepareMonth(p, m)
      PROVE  \A q \in Procs : TempsOwned(q)'
  <2>1. /\ Moved(p) /\ proc'[p].pc = "preparing" /\ proc'[p].key = proc[p].key
        /\ proc'[p].prepared = [proc[p].prepared EXCEPT ![m] = MergedFile(p, m)]
        /\ proc'[p].published = proc[p].published
    BY <1>8, PrepareEffect
  <2>2. /\ proc[p].pc = "preparing" /\ proc[p].key \in Keys
        /\ temps' = [temps EXCEPT ![proc[p].key] = @ \cup {m}]
    BY <1>8 DEF PrepareMonth, SyncTypeOK
  <2>3. /\ temps'[proc[p].key] = temps[proc[p].key] \cup {m}
        /\ \A k \in Keys \ {proc[p].key} : temps'[k] = temps[k]
    BY <2>2 DEF SyncTypeOK
  <2>4. PreparedMonths(p)' \subseteq PreparedMonths(p) \cup {m}
    BY <2>1, ProcFields DEF PreparedMonths
  <2>5. proc[p].published = {}
    BY <2>2 DEF PreparedCurrent, PreparedBy
  <2>6. TempsOwned(p)'
    BY <2>1, <2>2, <2>3, <2>4, <2>5 DEF TempsOwned
  <2> QED BY <1>2, <2>1, <2>2, <2>3, <2>6
<1>9. ASSUME NEW p \in Procs, NEW m \in Months, PublishMonth(p, m)
      PROVE  \A q \in Procs : TempsOwned(q)'
  <2>1. /\ Moved(p) /\ proc'[p].pc = "publishing" /\ proc'[p].key = proc[p].key
        /\ proc'[p].prepared = proc[p].prepared
        /\ proc'[p].published = proc[p].published \cup {m}
    BY <1>9, PublishEffect
  <2>2. /\ proc[p].pc = "publishing" /\ proc[p].key \in Keys
        /\ temps' = [temps EXCEPT ![proc[p].key] = @ \ {m}]
    BY <1>9 DEF PublishMonth, SyncTypeOK
  <2>3. /\ temps'[proc[p].key] = temps[proc[p].key] \ {m}
        /\ \A k \in Keys \ {proc[p].key} : temps'[k] = temps[k]
    BY <2>2 DEF SyncTypeOK
  <2>4. PreparedMonths(p)' = PreparedMonths(p)
    BY <2>1 DEF PreparedMonths
  <2>5. TempsOwned(p)'
    BY <2>1, <2>2, <2>3, <2>4 DEF TempsOwned
  <2> QED BY <1>2, <2>1, <2>2, <2>3, <2>5
<1> QED BY <1>1, <1>3, <1>4, <1>6, <1>7, <1>8, <1>9 DEF SyncNext, CallStep

-----------------------------------------------------------------------------
(* Which rows a call may change.                                           *)

\* A call changes coverage and files of the dataset it has locked only.
LEMMA OthersFill ==
  ASSUME SyncTypeOK, LocksHeld, NEW p \in Procs, Moved(p),
         NEW q \in Procs \ {p}, FillsGaps(q),
         \/ catalog'.coverage = catalog.coverage
         \/ /\ proc[p].pc \in Locked
            /\ \A k \in Keys \ {proc[p].key} : catalog'.coverage[k] = catalog.coverage[k],
         \/ disk' = disk
         \/ /\ proc[p].pc \in Locked
            /\ \A k \in Keys \ {proc[p].key} : disk'[k] = disk[k]
  PROVE  FillsGaps(q)'
<1>1. proc'[q] = proc[q] /\ PreparedMonths(q)' = PreparedMonths(q)
  BY DEF Moved, PreparedMonths
<1>2. proc[q].pc \in Locked =>
        /\ catalog'.coverage[proc[q].key] = catalog.coverage[proc[q].key]
        /\ disk'[proc[q].key] = disk[proc[q].key]
  BY DEF LocksHeld, SyncTypeOK, Locked
<1> QED BY <1>1, <1>2 DEF FillsGaps, Locked

\* What a commit, durable or uncertain, does to coverage.
LEMMA CoverageCommitted ==
  ASSUME SyncTypeOK, NEW p \in Procs, Commit(p) \/ CommitUncertain(p)
  PROVE  \/ catalog'.coverage = catalog.coverage
         \/ /\ proc[p].pc \in Locked
            /\ \A k \in Keys \ {proc[p].key} : catalog'.coverage[k] = catalog.coverage[k]
BY CommitFacts DEF Commit, CommitUncertain, MayCommit, FactsCommitted, At, Locked

\* No other step changes coverage.
LEMMA CoverageUnchanged ==
  ASSUME SyncTypeOK, NEW p \in Procs,
         \/ \E k \in Keys, r \in Requests, v \in Providers : StartCall(p, k, r, v)
         \/ AcquireDatasetLock(p) \/ DatasetLockTimesOut(p)
         \/ Plan(p) \/ PlanFails(p) \/ Observe(p) \/ RejectLineage(p)
         \/ ProviderReplies(p) \/ ObservationFails(p) \/ RecordFailedRun(p)
         \/ EnterPublication(p) \/ EnterFails(p) \/ PublicationFails(p)
         \/ ResolveVisible(p) \/ ResolveInvisible(p) \/ Return(p) \/ Crash(p)
         \/ \E m \in Months : PrepareMonth(p, m) \/ PrepareFails(p, m) \/ PublishMonth(p, m)
  PROVE  catalog'.coverage = catalog.coverage
<1>1. ASSUME NEW st \in RunStatus, catalog' = RecordRun(catalog, p, st)
      PROVE  catalog'.coverage = catalog.coverage
  BY <1>1, RecordRunFacts DEF SyncTypeOK
<1>2. CASE Plan(p) \/ EnterPublication(p) \/ RecordFailedRun(p)
  BY <1>1, <1>2 DEF Plan, EnterPublication, RecordFailedRun, RunStatus
<1> QED
  BY <1>2 DEF StartCall, AcquireDatasetLock, DatasetLockTimesOut, PlanFails, Observe,
     RejectLineage, ProviderReplies, ObservationFails, EnterFails, PublicationFails,
     ResolveVisible, ResolveInvisible, Return, Crash, PrepareMonth, PrepareFails,
     PublishMonth

LEMMA FillsStep ==
  ASSUME PromiseInv, SyncNext
  PROVE  \A q \in Procs : FillsGaps(q)'
<1> USE DEF At, Locked, PromiseInv, SyncInv
<1>1. CASE Tick
  BY <1>1 DEF Tick, FillsGaps, PreparedMonths
<1>2. ASSUME NEW p \in Procs, Moved(p), FillsGaps(p)',
             \/ catalog'.coverage = catalog.coverage
             \/ /\ proc[p].pc \in Locked
                /\ \A k \in Keys \ {proc[p].key} : catalog'.coverage[k] = catalog.coverage[k],
             \/ disk' = disk
             \/ /\ proc[p].pc \in Locked
                /\ \A k \in Keys \ {proc[p].key} : disk'[k] = disk[k]
      PROVE  \A q \in Procs : FillsGaps(q)'
  BY <1>2, OthersFill
<1>3. ASSUME NEW p \in Procs,
             \/ \E k \in Keys, r \in Requests, v \in Providers : StartCall(p, k, r, v)
             \/ DatasetLockTimesOut(p) \/ PlanFails(p) \/ RecordFailedRun(p)
             \/ PublicationFails(p) /\ AnyPublished(p)
             \/ Commit(p) \/ ResolveVisible(p) \/ ResolveInvisible(p)
             \/ Return(p) \/ Crash(p)
      PROVE  \A q \in Procs : FillsGaps(q)'
  <2>1. Blank(p) /\ proc'[p].pc \in {"locking", "done", "idle"}
    BY <1>3, Ending
  <2>2. FillsGaps(p)'
    BY <2>1, NoFileType DEF FillsGaps, Blank
  <2>3. disk' = disk
    BY <1>3 DEF StartCall, DatasetLockTimesOut, PlanFails, RecordFailedRun, Commit,
                ResolveVisible, ResolveInvisible, Return, Crash, PublicationFails
  <2> QED BY <1>2, <1>3, <2>1, <2>2, <2>3, CoverageCommitted, CoverageUnchanged DEF Blank
<1>4. ASSUME NEW p \in Procs,
             \/ AcquireDatasetLock(p) \/ Observe(p) \/ RejectLineage(p)
             \/ ObservationFails(p) \/ EnterPublication(p) \/ EnterFails(p)
             \/ PublicationFails(p) /\ ~AnyPublished(p)
             \/ \E m \in Months : PrepareFails(p, m)
      PROVE  \A q \in Procs : FillsGaps(q)'
  <2>1. Carries(p) /\ catalog'.coverage = catalog.coverage
    BY <1>4, Carrying, CoverageUnchanged
  <2>2. disk' = disk
    BY <1>4 DEF AcquireDatasetLock, Observe, RejectLineage, ObservationFails,
                EnterPublication, EnterFails, PublicationFails, PrepareFails
  <2>3. \/ proc[p].pc = "locking" /\ proc'[p].pc = "planning"
        \/ proc[p].pc = "observing" /\ proc'[p].pc = "replying"
        \/ proc[p].pc = "preparing" /\ proc'[p].pc = "publishing"
        \/ proc'[p].pc = "failing"
    <3>1. CASE AcquireDatasetLock(p)
      BY <3>1, AcquireEffect DEF AcquireDatasetLock
    <3>2. CASE Observe(p)
      BY <3>2, ObserveEffect DEF Observe
    <3>3. CASE EnterPublication(p)
      BY <3>3, PhaseEffect DEF EnterPublication
    <3>4. CASE RejectLineage(p) \/ ObservationFails(p) \/ EnterFails(p)
      BY <3>4, FailingEffect
      DEF RejectLineage, ObservationFails, EnterFails, Abandon, Outcome
    <3>5. CASE PublicationFails(p) /\ ~AnyPublished(p)
      BY <3>5, FailingEffect DEF PublicationFails, PublicationRaises, Rejections, Outcome
    <3>6. CASE \E m \in Months : PrepareFails(p, m)
      BY <3>6, FailingEffect DEF PrepareFails, Outcome
    <3> QED BY <1>4, <3>1, <3>2, <3>3, <3>4, <3>5, <3>6
  <2>4. PreparedMonths(p)' = PreparedMonths(p)
    BY <2>1 DEF Carries, Keeps, PreparedMonths
  <2>5. FillsGaps(p)'
    BY <2>1, <2>2, <2>3, <2>4 DEF FillsGaps, Carries, Keeps
  <2> QED BY <1>2, <2>1, <2>2, <2>5 DEF Carries, Keeps
<1>5. ASSUME NEW p \in Procs, CommitUncertain(p)
      PROVE  \A q \in Procs : FillsGaps(q)'
  <2>1. Carries(p) /\ disk' = disk /\ proc'[p].pc = "uncertain"
    BY <1>5, Carrying, PhaseEffect DEF CommitUncertain
  <2>2. FillsGaps(p)'
    BY <2>1 DEF FillsGaps
  <2> QED BY <1>2, <1>5, <2>1, <2>2, CoverageCommitted DEF Carries, Keeps
<1>6. ASSUME NEW p \in Procs, Plan(p)
      PROVE  \A q \in Procs : FillsGaps(q)'
  <2>1. Keeps(p) /\ proc'[p].pc \in {"preparing", "observing"} /\ disk' = disk
    BY <1>6, PlanEffect DEF Plan
  <2>2. catalog'.coverage = catalog.coverage
    BY <1>6, CoverageUnchanged
  <2>3. proc'[p].gaps = MissingIn(catalog.coverage[proc[p].key], proc[p].req)
    BY <1>6, ProcFields DEF Plan, SyncTypeOK, Call
  <2>4. Held(proc[p].batch) = {} /\ PreparedMonths(p)' = {}
    <3>1. proc[p].pc = "planning"
      BY <1>6 DEF Plan
    <3>2. Held(proc[p].batch) = {}
      BY <3>1 DEF FillsGaps
    <3>3. PreparedMonths(p) = {}
      BY <3>1 DEF PreparedCurrent, PreparedBy
    <3> QED BY <2>1, <3>2, <3>3 DEF PreparedMonths, Keeps
  <2>5. FillsGaps(p)'
    BY <2>1, <2>2, <2>3, <2>4 DEF FillsGaps, Keeps, MissingIn
  <2> QED BY <1>2, <2>1, <2>2, <2>5 DEF Keeps
<1>7. ASSUME NEW p \in Procs, ProviderReplies(p)
      PROVE  \A q \in Procs : FillsGaps(q)'
  <2>1. /\ Moved(p) /\ proc'[p].pc = "preparing" /\ proc'[p].key = proc[p].key
        /\ proc'[p].prepared = proc[p].prepared
    BY <1>7, RepliesEffect
  <2>2. catalog'.coverage = catalog.coverage /\ disk' = disk /\ proc[p].pc = "replying"
    BY <1>7, CoverageUnchanged DEF ProviderReplies
  <2>3. PICK seen, rows :
          proc' = [proc EXCEPT ![p].pc = "preparing", ![p].observed = seen,
                               ![p].batch = FilterToRanges(rows, proc[p].gaps)]
    BY <1>7, Zenon DEF ProviderReplies
  <2> DEFINE batch == FilterToRanges(rows, proc[p].gaps)
  <2> HIDE DEF batch
  <2>4. proc' = [proc EXCEPT ![p].pc = "preparing", ![p].observed = seen,
                             ![p].batch = batch]
    BY <2>3 DEF batch
  <2>5. proc'[p].gaps = proc[p].gaps /\ proc'[p].batch = batch
    BY <2>4, ProcFields DEF SyncTypeOK, Call
  <2>6. Held(proc'[p].batch) \subseteq proc[p].gaps
    BY <2>5 DEF batch, FilterToRanges, Held
  <2>7. PreparedMonths(p)' = {}
    BY <2>1, <2>2 DEF PreparedCurrent, PreparedBy, PreparedMonths
  <2>8. FillsGaps(p)'
    BY <2>1, <2>2, <2>5, <2>6, <2>7 DEF FillsGaps
  <2> QED BY <1>2, <2>1, <2>2, <2>8
<1>8. ASSUME NEW p \in Procs, NEW m \in Months, PrepareMonth(p, m)
      PROVE  \A q \in Procs : FillsGaps(q)'
  <2> DEFINE k == proc[p].key
  <2>1. /\ Moved(p) /\ proc'[p].pc = "preparing" /\ proc'[p].key = k
        /\ proc'[p].batch = proc[p].batch
        /\ proc'[p].prepared = [proc[p].prepared EXCEPT ![m] = MergedFile(p, m)]
    BY <1>8, PrepareEffect
  <2>2. catalog'.coverage = catalog.coverage /\ disk' = disk /\ proc[p].pc = "preparing"
    BY <1>8, CoverageUnchanged DEF PrepareMonth
  <2>3. proc'[p].gaps = proc[p].gaps
    BY <1>8, ProcFields DEF PrepareMonth, SyncTypeOK, Call
  <2>4. \A s \in Slots \ Held(proc[p].batch) :
          MergedFile(p, m).rows[s] = disk[k][m].rows[s]
    BY DEF MergedFile, MergeFrames, SplitByMonth, Held
  <2>5. proc'[p].prepared[m] = MergedFile(p, m)
        /\ \A n \in Months \ {m} : proc'[p].prepared[n] = proc[p].prepared[n]
    BY <2>1, ProcFields
  <2>6. \A n \in Months \ {m} : n \in PreparedMonths(p)' => n \in PreparedMonths(p)
    BY <2>5 DEF PreparedMonths
  <2>7. \A s \in Slots \ Held(proc[p].batch) :
          MonthOf[s] \in PreparedMonths(p)' =>
            proc'[p].prepared[MonthOf[s]].rows[s] = disk[k][MonthOf[s]].rows[s]
    BY <2>2, <2>4, <2>5, <2>6, StoreAssumption DEF FillsGaps
  <2>8. FillsGaps(p)'
    BY <2>1, <2>2, <2>3, <2>7 DEF FillsGaps
  <2> QED BY <1>2, <2>1, <2>2, <2>8
<1>9. ASSUME NEW p \in Procs, NEW m \in Months, PublishMonth(p, m)
      PROVE  \A q \in Procs : FillsGaps(q)'
  <2> DEFINE k == proc[p].key
  <2>1. /\ Moved(p) /\ proc'[p].pc = "publishing" /\ proc'[p].key = k
        /\ proc'[p].batch = proc[p].batch
        /\ proc'[p].prepared = proc[p].prepared
    BY <1>9, PublishEffect
  <2>2. /\ catalog'.coverage = catalog.coverage /\ proc[p].pc = "publishing"
        /\ k \in Keys /\ disk' = [disk EXCEPT ![k][m] = proc[p].prepared[m]]
    BY <1>9, CoverageUnchanged DEF PublishMonth, SyncTypeOK
  <2>3. proc'[p].gaps = proc[p].gaps
    BY <1>9, ProcFields DEF PublishMonth, SyncTypeOK, Call
  <2>4. /\ disk'[k][m] = proc[p].prepared[m]
        /\ \A n \in Months \ {m} : disk'[k][n] = disk[k][n]
        /\ \A j \in Keys \ {k} : disk'[j] = disk[j]
    BY <2>2 DEF SyncTypeOK
  <2>5. PreparedMonths(p)' = PreparedMonths(p)
    BY <2>1 DEF PreparedMonths
  <2>6. FillsGaps(p)'
    BY <2>1, <2>2, <2>3, <2>4, <2>5, StoreAssumption DEF FillsGaps
  <2> QED BY <1>2, <2>1, <2>2, <2>4, <2>6
<1> QED BY <1>1, <1>3, <1>4, <1>5, <1>6, <1>7, <1>8, <1>9 DEF SyncNext, CallStep

-----------------------------------------------------------------------------
(* The invariant and what follows from it.                                 *)

LEMMA PromiseInitHolds == SyncInit => PromiseInv
<1> SUFFICES ASSUME SyncInit PROVE PromiseInv
  OBVIOUS
<1>1. \A p \in Procs : /\ proc[p].pc = "idle" /\ proc[p].published = {}
                       /\ proc[p].batch = NoRows
  BY DEF SyncInit, NoCall
<1>2. \A p \in Procs : TempsOwned(p) /\ FillsGaps(p)
  BY <1>1 DEF TempsOwned, FillsGaps, Locked, At
<1> QED BY <1>2, InitHolds DEF PromiseInv

LEMMA PromiseStutterHolds ==
  ASSUME PromiseInv, UNCHANGED syncVars PROVE PromiseInv'
<1>1. SyncInv'
  BY StutterHolds DEF PromiseInv
<1>2. \A p \in Procs : TempsOwned(p)' /\ FillsGaps(p)'
  BY DEF PromiseInv, syncVars, TempsOwned, FillsGaps, PreparedMonths, At
<1> QED BY <1>1, <1>2 DEF PromiseInv

LEMMA PromiseNextHolds ==
  ASSUME PromiseInv, SyncNext PROVE PromiseInv'
BY NextHolds, TempsStep, FillsStep DEF PromiseInv

\* The strengthened invariant of calls without maintenance: the store's, and
\* for each call where its temporaries are and which rows it may change.
THEOREM PromiseSafety == SyncSpec => []PromiseInv
<1>1. SyncInit => PromiseInv
  BY PromiseInitHolds
<1>2. PromiseInv /\ [SyncNext]_syncVars => PromiseInv'
  BY PromiseNextHolds, PromiseStutterHolds
<1> QED BY <1>1, <1>2, PTL DEF SyncSpec

\* The temporary a call is about to publish is still there: no other call
\* has taken it for a stale one and cleaned it up.
THEOREM NoTempIsStolen == SyncSpec => []TempsSurvive
<1>1. PromiseInv => TempsSurvive
  BY DEF PromiseInv, TempsOwned, TempsSurvive
<1> QED BY <1>1, PromiseSafety, PTL

\* Only its own step moves a call.
LEMMA ActorMoves ==
  ASSUME PromiseInv, NEW p \in Procs, NEW q \in Procs, proc'[q].pc # proc[q].pc,
         \/ \E k \in Keys, r \in Requests, v \in Providers : StartCall(p, k, r, v)
         \/ CallStep(p) \/ Return(p) \/ Crash(p)
  PROVE  p = q
<1> USE DEF PromiseInv, SyncInv
<1>1. Moved(p)
  <2>1. CASE \E m \in Months : PrepareMonth(p, m) \/ PublishMonth(p, m)
    BY <2>1, PrepareEffect, PublishEffect
  <2>2. CASE Plan(p) \/ ProviderReplies(p)
    BY <2>2, PlanEffect, RepliesEffect DEF Keeps
  <2>3. CASE PublicationFails(p)
    BY <2>3, Ending, Carrying DEF Carries, Keeps, Blank
  <2>4. CASE \/ AcquireDatasetLock(p) \/ Observe(p) \/ RejectLineage(p)
             \/ ObservationFails(p) \/ EnterPublication(p) \/ EnterFails(p)
             \/ CommitUncertain(p) \/ \E m \in Months : PrepareFails(p, m)
    BY <2>4, Carrying DEF Carries, Keeps
  <2> QED BY <2>1, <2>2, <2>3, <2>4, Ending DEF Blank, CallStep
<1> QED BY <1>1 DEF Moved

\* How a call can come to its end.
LEMMA EndedBy ==
  ASSUME PromiseInv, SyncNext, NEW p \in Procs,
         proc[p].pc # "done", proc'[p].pc = "done"
  PROVE  \/ DatasetLockTimesOut(p) \/ PlanFails(p) \/ RecordFailedRun(p)
         \/ PublicationFails(p) /\ AnyPublished(p)
         \/ Commit(p) \/ ResolveVisible(p) \/ ResolveInvisible(p)
<1> USE DEF PromiseInv, SyncInv
<1>1. ~Tick
  BY DEF Tick
<1>2. PICK q \in Procs :
        \/ \E k \in Keys, r \in Requests, v \in Providers : StartCall(q, k, r, v)
        \/ CallStep(q) \/ Return(q) \/ Crash(q)
  BY <1>1 DEF SyncNext
<1>3. q = p
  BY <1>2, ActorMoves
<1>4. ~\E k \in Keys, r \in Requests, v \in Providers : StartCall(p, k, r, v)
  BY StartCallEffect
<1>5. ~Return(p) /\ ~Crash(p)
  BY ClearedEffect DEF Return, Crash
<1>6. ~AcquireDatasetLock(p) /\ ~Plan(p) /\ ~Observe(p) /\ ~ProviderReplies(p)
  BY AcquireEffect, PlanEffect, ObserveEffect, RepliesEffect
<1>7. ~EnterPublication(p) /\ ~CommitUncertain(p)
  BY PhaseEffect DEF EnterPublication, CommitUncertain, Locked
<1>8. ~\E m \in Months : PrepareMonth(p, m) \/ PublishMonth(p, m)
  BY PrepareEffect, PublishEffect
<1>9. ~RejectLineage(p) /\ ~ObservationFails(p) /\ ~EnterFails(p)
  BY FailingEffect DEF RejectLineage, ObservationFails, EnterFails, Abandon, Outcome
<1>10. ~\E m \in Months : PrepareFails(p, m)
  BY FailingEffect DEF PrepareFails, Outcome
<1>11. ~(PublicationFails(p) /\ ~AnyPublished(p))
  BY FailingEffect DEF PublicationFails, PublicationRaises, Rejections, Outcome
<1> QED
  BY <1>2, <1>3, <1>4, <1>5, <1>6, <1>7, <1>8, <1>9, <1>10, <1>11 DEF CallStep

\* A call comes to its failure handler with all it has prepared and published.
LEMMA FailsWith ==
  ASSUME PromiseInv, SyncNext, NEW p \in Procs, proc'[p].pc = "failing"
  PROVE  /\ proc'[p].key = proc[p].key /\ proc'[p].prepared = proc[p].prepared
         /\ proc'[p].published = proc[p].published
<1> USE DEF PromiseInv, SyncInv
<1>1. CASE Tick
  BY <1>1 DEF Tick
<1>2. CASE ~Tick
  <2>1. PICK q \in Procs :
          \/ \E k \in Keys, r \in Requests, v \in Providers : StartCall(q, k, r, v)
          \/ CallStep(q) \/ Return(q) \/ Crash(q)
    BY <1>2 DEF SyncNext
  <2>2. CASE \E m \in Months : PrepareMonth(q, m) \/ PublishMonth(q, m)
    BY <2>2, PrepareEffect, PublishEffect DEF Moved
  <2>3. CASE Plan(q) \/ ProviderReplies(q)
    BY <2>3, PlanEffect, RepliesEffect DEF Keeps, Moved
  <2>4. CASE \/ AcquireDatasetLock(q) \/ Observe(q) \/ RejectLineage(q)
             \/ ObservationFails(q) \/ EnterPublication(q) \/ EnterFails(q)
             \/ CommitUncertain(q) \/ \E m \in Months : PrepareFails(q, m)
             \/ PublicationFails(q) /\ ~AnyPublished(q)
    BY <2>4, Carrying DEF Carries, Keeps, Moved
  <2>5. CASE \/ \E k \in Keys, r \in Requests, v \in Providers : StartCall(q, k, r, v)
             \/ DatasetLockTimesOut(q) \/ PlanFails(q) \/ RecordFailedRun(q)
             \/ PublicationFails(q) /\ AnyPublished(q)
             \/ Commit(q) \/ ResolveVisible(q) \/ ResolveInvisible(q)
             \/ Return(q) \/ Crash(q)
    BY <2>5, Ending DEF Blank, Moved
  <2> QED BY <2>1, <2>2, <2>3, <2>4, <2>5 DEF CallStep
<1> QED BY <1>1, <1>2

\* A call that ends by itself, on whatever path, leaves no temporary behind.
THEOREM NoTempIsLeft == SyncSpec => EndLeavesNoTemp
<1> DEFINE Clean == \A p \in Procs :
              (proc[p].pc \in Locked /\ proc'[p].pc \in {"failing", "done"}) =>
                PreparedMonths(p) \cap temps'[proc[p].key] = {}
<1>1. ASSUME PromiseInv, SyncNext PROVE Clean
  <2> USE <1>1 DEF PromiseInv, SyncInv, At
  <2> SUFFICES ASSUME NEW p \in Procs, proc[p].pc \in Locked,
                      proc'[p].pc \in {"failing", "done"}
               PROVE  PreparedMonths(p) \cap temps'[proc[p].key] = {}
    OBVIOUS
  <2>1. proc[p].key \in Keys
    BY DEF SyncTypeOK, Locked
  <2>2. CASE proc'[p].pc = "failing"
    <3>1. PreparedMonths(p)' = PreparedMonths(p) /\ proc'[p].key = proc[p].key
      BY <2>2, FailsWith DEF PreparedMonths
    <3> QED BY <2>2, <3>1, TempsStep DEF TempsOwned
  <2>3. CASE proc'[p].pc = "done"
    <3>1. CASE PlanFails(p)
      BY <3>1 DEF PlanFails, PreparedCurrent, PreparedBy
    <3>2. CASE RecordFailedRun(p)
      BY <3>2 DEF RecordFailedRun, TempsOwned
    <3>3. CASE PublicationFails(p)
      <4>1. temps'[proc[p].key] = Discarded(p)
        BY <2>1, <3>3 DEF PublicationFails, PublicationRaises, SyncTypeOK
      <4> QED BY <4>1 DEF Discarded, TempsOwned
    <3>4. CASE Commit(p) \/ ResolveVisible(p) \/ ResolveInvisible(p)
      <4>1. AllPublished(p) /\ temps' = temps
        BY <3>4 DEF Commit, MayCommit, ResolveVisible, ResolveInvisible,
                    PreparedCurrent, PreparedBy
      <4> QED BY <4>1 DEF AllPublished, TempsOwned
    <3>5. ~DatasetLockTimesOut(p)
      BY DEF DatasetLockTimesOut, Locked
    <3> QED BY <2>3, <3>1, <3>2, <3>3, <3>4, <3>5, EndedBy DEF Locked
  <2> QED BY <2>2, <2>3
<1>2. PromiseInv /\ [SyncNext]_syncVars => [Clean]_syncVars
  BY <1>1
<1> QED BY <1>2, PromiseSafety, PTL DEF SyncSpec, EndLeavesNoTemp

\* A call that reports success has published all it prepared, and the
\* catalog indexes exactly what it published.
THEOREM SuccessMeansIndexed == SyncSpec => SuccessIsIndexed
<1> DEFINE Indexed == \A p \in Procs :
       (~At(p, "done") /\ proc'[p].pc = "done" /\ proc'[p].outcome = "ok") =>
         \A m \in PreparedMonths(p) :
           /\ m \in proc[p].published
           /\ catalog'.index[proc[p].key][m] = disk'[proc[p].key][m]
<1>1. ASSUME NEW p \in Procs, NEW o,
             proc \in [Procs -> Call], Finish(p, o)
      PROVE  proc'[p].outcome = o
  BY <1>1 DEF Finish, NoCall
<1>2. ASSUME PromiseInv, SyncNext PROVE Indexed
  <2> USE <1>2 DEF PromiseInv, SyncInv, At
  <2> SUFFICES ASSUME NEW p \in Procs, proc[p].pc # "done", proc'[p].pc = "done",
                      proc'[p].outcome = "ok", NEW m \in PreparedMonths(p)
               PROVE  /\ m \in proc[p].published
                      /\ catalog'.index[proc[p].key][m] = disk'[proc[p].key][m]
    OBVIOUS
  <2>1. proc \in [Procs -> Call] /\ m \in Months
    BY DEF SyncTypeOK, PreparedMonths
  <2>2. ~PlanFails(p) /\ ~ResolveInvisible(p)
    BY <1>1, <2>1 DEF PlanFails, ResolveInvisible
  <2>3. ~DatasetLockTimesOut(p)
    BY <2>1 DEF DatasetLockTimesOut, NoCall
  <2>4. ~RecordFailedRun(p)
    BY <1>1, <2>1 DEF RecordFailedRun, TempsOwned
  <2>5. ~(PublicationFails(p) /\ AnyPublished(p))
    BY <1>1, <2>1 DEF PublicationFails, PublicationRaises, Rejections
  <2>6. /\ AllPublished(p) /\ disk' = disk /\ proc[p].pc \in {"publishing", "uncertain"}
        /\ catalog'.index[proc[p].key][m] = proc[p].prepared[m]
    <3>1. CASE Commit(p)
      <4>1. FactsCommitted(p)
        BY <3>1, CommitFacts DEF Commit, MayCommit
      <4> QED BY <2>1, <3>1, <4>1 DEF Commit, MayCommit, FactsCommitted
    <3>2. CASE ResolveVisible(p)
      BY <2>1, <3>2 DEF ResolveVisible, TerminalCommitVisible, PreparedCurrent,
                        PreparedBy, PreparedMonths
    <3> QED BY <2>2, <2>3, <2>4, <2>5, <3>1, <3>2, EndedBy
  <2>7. m \in proc[p].published
    BY <2>6 DEF AllPublished
  <2>8. disk[proc[p].key][m] = proc[p].prepared[m]
    BY <2>6, <2>7 DEF PreparedCurrent, PreparedBy, Locked
  <2> QED BY <2>6, <2>7, <2>8
<1>3. PromiseInv /\ [SyncNext]_syncVars => [Indexed]_syncVars
  BY <1>2
<1> QED BY <1>3, PromiseSafety, PTL DEF SyncSpec, SuccessIsIndexed

-----------------------------------------------------------------------------
(* Rows and what readers are promised.                                     *)

\* Publication replaces rows of its month, keeps those that are available
\* and removes none.
LEMMA PublishedMonth ==
  ASSUME PromiseInv, NEW p \in Procs, NEW m \in Months, PublishMonth(p, m)
  PROVE  /\ proc[p].key \in Keys /\ catalog.exists /\ UNCHANGED catalog
         /\ \A k \in Keys \ {proc[p].key} : disk'[k] = disk[k]
         /\ \A n \in Months \ {m} : disk'[proc[p].key][n] = disk[proc[p].key][n]
         /\ \A k \in Keys, s \in Slots :
              catalog.coverage[k][s] = "available" =>
                disk'[k][MonthOf[s]].rows[s] = disk[k][MonthOf[s]].rows[s]
         /\ Held(disk[proc[p].key][m].rows) \subseteq Held(disk'[proc[p].key][m].rows)
<1> USE DEF PromiseInv, SyncInv, At
<1> DEFINE k == proc[p].key
<1>1. /\ k \in Keys /\ UNCHANGED catalog /\ proc[p].pc = "publishing"
      /\ m \in PreparedMonths(p) /\ m \notin proc[p].published
      /\ disk' = [disk EXCEPT ![k][m] = proc[p].prepared[m]]
  BY DEF PublishMonth, SyncTypeOK
<1>2. /\ disk'[k][m] = proc[p].prepared[m]
      /\ \A n \in Months \ {m} : disk'[k][n] = disk[k][n]
      /\ \A j \in Keys \ {k} : disk'[j] = disk[j]
  BY <1>1 DEF SyncTypeOK
<1>3. catalog.exists
  BY <1>1 DEF LocksHeld, Locked
<1>4. ASSUME NEW s \in Slots, catalog.coverage[k][s] = "available"
      PROVE  disk'[k][MonthOf[s]].rows[s] = disk[k][MonthOf[s]].rows[s]
  <2>1. s \notin Held(proc[p].batch)
    BY <1>1, <1>4 DEF FillsGaps
  <2>2. MonthOf[s] \in Months
    BY StoreAssumption
  <2>3. CASE MonthOf[s] = m
    BY <1>1, <1>2, <2>1, <2>3 DEF FillsGaps
  <2> QED BY <1>2, <2>2, <2>3
<1>5. Held(disk[k][m].rows) \subseteq Held(disk'[k][m].rows)
  BY <1>1, <1>2 DEF PreparedCurrent, PreparedBy, Locked
<1> QED BY <1>1, <1>2, <1>3, <1>4, <1>5

\* A row that the catalog reports as available is never rewritten, although
\* fetch windows fetch it again.
THEOREM AvailableRowsStay == SyncSpec => AvailableRowsImmutable
<1> DEFINE Stay == \A k \in Keys, s \in Slots :
              catalog.coverage[k][s] = "available" =>
                disk'[k][MonthOf[s]].rows[s] = disk[k][MonthOf[s]].rows[s]
<1>1. ASSUME PromiseInv, SyncNext PROVE Stay
  <2> USE <1>1 DEF PromiseInv, SyncInv
  <2>1. CASE Tick
    BY <2>1 DEF Tick
  <2>2. ASSUME NEW p \in Procs, Step(p) PROVE Stay
    <3>1. CASE \E m \in Months : PublishMonth(p, m)
      BY <3>1, PublishedMonth
    <3>2. CASE ~\E m \in Months : PublishMonth(p, m)
      <4>1. disk' = disk
        BY <2>2, <3>2 DEF Step, Starts, Locks, Proceeds, Enters, Doubts, Stops,
                          ProviderReplies, PrepareMonth
      <4> QED BY <4>1
    <3> QED BY <3>1, <3>2
  <2> QED BY <2>1, <2>2, StepKinds
<1>2. PromiseInv /\ [SyncNext]_syncVars => [Stay]_syncVars
  BY <1>1
<1> QED BY <1>2, PromiseSafety, PTL DEF SyncSpec, AvailableRowsImmutable

\* A step that keeps the files and the facts of the catalog is none of
\* PublishedRows, or creates the catalog over an empty store.
LEMMA KeepingFacts ==
  ASSUME PromiseInv, FactsKept, UNCHANGED disk
  PROVE  Published!Create \/ UNCHANGED Published!pubVars
<1> USE DEF PromiseInv, SyncInv
<1>1. catalog'.coverage = catalog.coverage /\ catalog.exists \in BOOLEAN
      /\ catalog'.exists \in BOOLEAN
  BY DEF FactsKept, SyncTypeOK, CatalogState
<1>2. CASE catalog'.exists = catalog.exists
  BY <1>1, <1>2 DEF Published!pubVars, SlotsWith
<1>3. CASE catalog'.exists # catalog.exists
  <2>1. ~catalog.exists /\ catalog'.exists
    BY <1>1, <1>3 DEF FactsKept
  <2>2. \A k \in Keys, m \in Months : disk[k][m] = NoFile
    BY <2>1 DEF FactsKept, LocksHeld, NoCatalog
  <2>3. \A k \in Keys, s \in Slots : disk[k][MonthOf[s]].rows[s] = None
    BY <2>2, StoreAssumption DEF NoFile, NoRows
  <2>4. \A k \in Keys : Published!Durable(k) = {}
    BY <2>3 DEF Published!Durable
  <2> QED BY <1>1, <2>1, <2>4 DEF Published!Create, SlotsWith
<1> QED BY <1>2, <1>3

\* A durable commit shows rows of prepared files and settles proven slots.
LEMMA RevealingFacts ==
  ASSUME PromiseInv, NEW p \in Procs, FactsCommitted(p), UNCHANGED disk,
         NEW k \in Keys, k = proc[p].key
  PROVE  Published!Reveal(k)
<1> USE DEF PromiseInv, SyncInv, At
<1> DEFINE old == catalog.coverage[k]
           seg == NewSegments(p)
           more == {s \in Slots : seg[s] = "available"}
           none == {s \in Slots : seg[s] = "unavailable" /\ old[s] # "available"}
<1>1. proc[p].pc = "publishing" /\ catalog.exists /\ catalog'.exists
  BY DEF FactsCommitted, SyncTypeOK, LocksHeld, Locked
<1>2. old \in Coverage /\ seg \in Coverage
  BY <1>1, NewSegmentsType DEF SyncTypeOK, CatalogState
<1>3. /\ catalog' \in CatalogState
      /\ catalog'.coverage[k] = ApplyCoverage(old, seg)
      /\ \A j \in Keys \ {k} : catalog'.coverage[j] = catalog.coverage[j]
  BY DEF FactsCommitted
<1>4. ASSUME NEW s \in Slots, seg[s] = "available"
      PROVE  disk[k][MonthOf[s]].rows[s] # None
  <2>1. /\ MonthOf[s] \in PreparedMonths(p)
        /\ proc[p].prepared[MonthOf[s]].rows[s] # None
    BY <1>1, <1>4, RevealedAreHeld
  <2>2. disk[k][MonthOf[s]] = proc[p].prepared[MonthOf[s]]
    BY <1>1, <2>1 DEF FactsCommitted, AllPublished, PreparedCurrent, PreparedBy, Locked
  <2> QED BY <2>1, <2>2
<1>5. \A s \in Slots :
        /\ catalog'.coverage[k][s] = "available" <=> old[s] = "available" \/ s \in more
        /\ catalog'.coverage[k][s] = "unavailable" <=>
             (old[s] = "unavailable" \/ s \in none) /\ s \notin more
  BY <1>2, <1>3 DEF ApplyCoverage, Prefer, Coverage, Status
<1> HIDE DEF old, seg
<1>6. SlotsWith(k, "available")' = SlotsWith(k, "available") \cup more
  BY <1>5 DEF SlotsWith, old
<1>7. SlotsWith(k, "unavailable")' = (SlotsWith(k, "unavailable") \cup none) \ more
  BY <1>5 DEF SlotsWith, old
<1>8. \A j \in Keys \ {k} : /\ SlotsWith(j, "available")' = SlotsWith(j, "available")
                            /\ SlotsWith(j, "unavailable")' = SlotsWith(j, "unavailable")
  BY <1>3 DEF SlotsWith
<1>9. more \subseteq Published!Durable(k)
  BY <1>1, <1>4 DEF Published!Durable, seg
<1>10. none \subseteq Slots \ SlotsWith(k, "available") /\ more \cap none = {}
  BY DEF SlotsWith, old
<1> HIDE DEF more, none
<1>11. [j \in Keys |-> SlotsWith(j, "available")]'
         = [[j \in Keys |-> SlotsWith(j, "available")] EXCEPT ![k] = @ \cup more]
  BY <1>1, <1>6, <1>8
<1>12. [j \in Keys |-> SlotsWith(j, "unavailable")]'
         = [[j \in Keys |-> SlotsWith(j, "unavailable")] EXCEPT ![k] = (@ \cup none) \ more]
  BY <1>1, <1>7, <1>8
<1>13. [j \in Keys |-> SlotsWith(j, "available")][k] = SlotsWith(k, "available")
  OBVIOUS
<1>14. catalog'.exists = catalog.exists
  BY <1>1, <1>3 DEF SyncTypeOK, CatalogState
<1>15. UNCHANGED [j \in Keys |-> [s \in Slots |-> disk[j][MonthOf[s]].rows[s]]]
  OBVIOUS
<1>16. more \in SUBSET Published!Durable(k)
  BY <1>9
<1>17. none \in SUBSET (Slots \ [j \in Keys |-> SlotsWith(j, "available")][k])
  BY <1>10, <1>13
<1> QED
  BY <1>1, <1>10, <1>11, <1>12, <1>14, <1>15, <1>16, <1>17 DEF Published!Reveal

\* A publication is a replacement of one month.
LEMMA ReplacingRows ==
  ASSUME PromiseInv, NEW p \in Procs, NEW m \in Months, PublishMonth(p, m),
         NEW k \in Keys, k = proc[p].key
  PROVE  Published!Replace(k, m)
<1> USE DEF PromiseInv, SyncInv
<1> DEFINE row(j, s) == disk[j][MonthOf[s]].rows[s]
           new == [s \in Slots |-> disk'[k][MonthOf[s]].rows[s]]
<1>1. /\ catalog.exists /\ UNCHANGED catalog
      /\ \A j \in Keys \ {k} : disk'[j] = disk[j]
      /\ \A n \in Months \ {m} : disk'[k][n] = disk[k][n]
      /\ \A j \in Keys, s \in Slots :
           catalog.coverage[j][s] = "available" =>
             disk'[j][MonthOf[s]].rows[s] = row(j, s)
      /\ Held(disk[k][m].rows) \subseteq Held(disk'[k][m].rows)
  BY PublishedMonth
<1>2. disk' \in [Keys -> [Months -> File]]
  <2>1. SyncNext
    BY DEF SyncNext, CallStep
  <2> QED BY <2>1, NextHolds DEF SyncTypeOK
<1>3. new \in [Slots -> Values \cup {None}]
  BY <1>1, <1>2, StoreAssumption DEF File, Rows
<1>4. \A s \in Slots : MonthOf[s] # m \/ s \in SlotsWith(k, "available")
                         => new[s] = row(k, s)
  BY <1>1, StoreAssumption DEF SlotsWith
<1>5. \A s \in Slots : row(k, s) # None => new[s] # None
  BY <1>1, StoreAssumption DEF Held
<1>6. [j \in Keys |-> [s \in Slots |-> row(j, s)]]'
        = [[j \in Keys |-> [s \in Slots |-> row(j, s)]] EXCEPT ![k] = new]
  BY <1>1
<1>7. \A s \in Published!Durable(k) : new[s] # None
  BY <1>1, <1>5 DEF Published!Durable
<1>8. UNCHANGED <<[j \in Keys |-> SlotsWith(j, "available")],
                  [j \in Keys |-> SlotsWith(j, "unavailable")], catalog.exists>>
  BY <1>1 DEF SlotsWith
<1>9. /\ [j \in Keys |-> SlotsWith(j, "available")][k] = SlotsWith(k, "available")
      /\ \A s \in Slots : [j \in Keys |-> [t \in Slots |-> row(j, t)]][k][s] = row(k, s)
  BY <1>1
<1> HIDE DEF new
<1> QED BY <1>1, <1>3, <1>4, <1>6, <1>7, <1>8, <1>9 DEF Published!Replace

\* With its files, locks, failures and crashes, sync implements what readers
\* are promised: a publication replaces one month, a durable commit reveals,
\* the first plan creates, and every other step is invisible.
THEOREM SyncImplementsPublishedRows == SyncSpec => ImplementsPublishedRows
<1>1. SyncInit => Published!PubInit
  <2> SUFFICES ASSUME SyncInit PROVE Published!PubInit
    OBVIOUS
  <2>1. \A k \in Keys, s \in Slots : disk[k][MonthOf[s]].rows[s] = None
    BY StoreAssumption DEF SyncInit, NoFile, NoRows
  <2>2. \A k \in Keys, s \in Slots : catalog.coverage[k][s] = "missing"
    BY DEF SyncInit, NoCatalog, Nothing
  <2>3. ~catalog.exists
    BY DEF SyncInit, NoCatalog
  <2> QED BY <2>1, <2>2, <2>3 DEF Published!PubInit, SlotsWith, SyncInit, NoCatalog
<1>2. ASSUME PromiseInv, SyncNext
      PROVE  Published!PubNext \/ UNCHANGED Published!pubVars
  <2> USE <1>2 DEF PromiseInv, SyncInv
  <2>1. CASE UNCHANGED <<disk, catalog>>
    BY <2>1 DEF Published!pubVars, SlotsWith
  <2>2. CASE Tick
    BY <2>1, <2>2 DEF Tick
  <2>3. ASSUME NEW p \in Procs, Step(p)
        PROVE  Published!PubNext \/ UNCHANGED Published!pubVars
    <3>1. CASE FactsKept /\ UNCHANGED disk
      BY <3>1, KeepingFacts DEF Published!PubNext
    <3>2. CASE FactsCommitted(p) /\ UNCHANGED disk
      <4>1. proc[p].key \in Keys
        BY <3>2 DEF FactsCommitted, SyncTypeOK, At
      <4>2. PICK k \in Keys : k = proc[p].key
        BY <4>1
      <4> QED BY <3>2, <4>2, RevealingFacts DEF Published!PubNext
    <3>3. ASSUME NEW m \in Months, PublishMonth(p, m)
          PROVE  Published!PubNext
      <4>1. PICK k \in Keys : k = proc[p].key
        BY <3>3, PublishedMonth
      <4> QED BY <3>3, <4>1, ReplacingRows DEF Published!PubNext
    <3>4. CASE ProviderReplies(p) \/ \E m \in Months : PrepareMonth(p, m)
      BY <2>1, <3>4 DEF ProviderReplies, PrepareMonth
    <3> QED BY <2>1, <2>3, <3>1, <3>2, <3>3, <3>4
            DEF Step, Starts, Locks, Proceeds, Enters, Doubts, Stops
  <2> QED BY <2>2, <2>3, StepKinds
<1>3. ASSUME UNCHANGED syncVars PROVE UNCHANGED Published!pubVars
  BY <1>3 DEF syncVars, Published!pubVars, SlotsWith
<1>4. PromiseInv /\ [SyncNext]_syncVars => [Published!PubNext]_(Published!pubVars)
  BY <1>2, <1>3
<1> QED BY <1>1, <1>4, PromiseSafety, PTL
        DEF SyncSpec, ImplementsPublishedRows, Published!PubSpec
=============================================================================
