------------------------------ MODULE BarSync ------------------------------
(***************************************************************************)
(* BarDataset.sync: several callers reconcile datasets of one store with   *)
(* their providers.  A call holds the lock of its dataset from its plan to *)
(* its end and the store-wide catalog gate twice: once to read the gaps    *)
(* and record a running run, once to publish the prepared month files one  *)
(* by one and commit the catalog transaction.  Provider and temporary-file *)
(* work runs between the two, outside the gate.  Any step may fail, the    *)
(* outcome of a commit may be unknown, and a caller may be killed          *)
(* anywhere: the kernel then drops its locks and SQLite its transaction.   *)
(***************************************************************************)
EXTENDS StoreFacts

CONSTANTS
  Requests,   \* the ranges callers ask for, as sets of slots
  NoOwner,    \* the owner of a free lock
  MaxClock    \* bound: the last instant of the model's clock

ASSUME SyncAssumption ==
  /\ Requests \subseteq SUBSET Slots
  /\ NoOwner \notin Procs
  /\ MaxClock \in Nat

VARIABLES
  disk,     \* disk[k][m]: the canonical file of month m of dataset k
  temps,    \* temps[k]: the months of k with a temporary file beside them
  catalog,  \* the SQLite catalog
  lock,     \* lock[k]: the holder of the lock of dataset k
  gate,     \* the holder of the catalog gate
  clock,    \* how many bars are final by now
  proc,     \* proc[p]: the call p is in
  faulted   \* history: datasets left for maintenance since the last rebuild

syncVars == <<disk, temps, catalog, lock, gate, clock, proc, faulted>>

-----------------------------------------------------------------------------
(* Types.                                                                  *)

Locked == {"planning", "observing", "replying", "preparing", "publishing",
           "uncertain", "failing"}

\* "attention": the call raised the SyncError that asks for validate();
\* "lineage": it was refused because another provider owns the dataset.
Outcome == {"none", "ok", "error", "lineage", "attention"}

Call ==
  [pc        : {"idle", "locking", "done"} \cup Locked,
   key       : Keys \cup {None},
   prov      : Providers \cup {None},
   req       : SUBSET Slots,
   gaps      : SUBSET Slots,         \* missing slots, read by the plan
   lineage   : Providers \cup {None},\* source lineage, read by the plan
   evidence  : Nat,                  \* evidence_at: the clock before the reply
   observed  : SUBSET Slots,         \* slots the provider's reply proves
   batch     : Rows,                 \* its rows, restricted to the gaps
   prepared  : [Months -> File],     \* what each temporary will publish
   published : SUBSET Months,        \* prepared files already moved in place
   outcome   : Outcome]

NoCall ==
  [pc |-> "idle", key |-> None, prov |-> None, req |-> {}, gaps |-> {},
   lineage |-> None, evidence |-> 0, observed |-> {}, batch |-> NoRows,
   prepared |-> [m \in Months |-> NoFile], published |-> {},
   outcome |-> "none"]

SyncTypeOK ==
  /\ disk \in [Keys -> [Months -> File]]
  /\ temps \in [Keys -> SUBSET Months]
  /\ catalog \in CatalogState
  /\ lock \in [Keys -> Procs \cup {NoOwner}]
  /\ clock \in Nat
  /\ proc \in [Procs -> Call]
  /\ \A p \in Procs : proc[p].pc \notin {"idle", "done"} => proc[p].key \in Keys
  /\ faulted \in SUBSET Keys

SyncInit ==
  /\ disk = [k \in Keys |-> [m \in Months |-> NoFile]]
  /\ temps = [k \in Keys |-> {}]
  /\ catalog = NoCatalog
  /\ lock = [k \in Keys |-> NoOwner]
  /\ gate = NoOwner
  /\ clock = 0
  /\ proc = [p \in Procs |-> NoCall]
  /\ faulted = {}

-----------------------------------------------------------------------------
(* Helpers.                                                                *)

At(p, pc) == proc[p].pc = pc

PreparedMonths(p) == {m \in Months : proc[p].prepared[m] # NoFile}
AllPrepared(p)  == BatchMonths(proc[p].batch) \subseteq PreparedMonths(p)
AllPublished(p) == PreparedMonths(p) \subseteq proc[p].published

\* FileLock.release, by the context manager or by the kernel after a crash.
Unlock(k) == lock' = [lock EXCEPT ![k] = NoOwner]

\* discard_prepared_file on every artifact: published ones are left alone.
DiscardKeepsAll(p) == temps[proc[p].key]
Discarded(p) ==
  temps[proc[p].key] \ (PreparedMonths(p) \ proc[p].published)

\* The test that tells a failure after publication from one before it.
EverythingPublished(p) ==
  proc[p].published # {} /\ AllPublished(p)
AnyPublished(p) == proc[p].published # {}

\* The call returns or raises: its lock is released with its last step.
Finish(p, outcome) ==
  /\ proc' = [proc EXCEPT ![p] = [NoCall EXCEPT !.pc = "done",
                                                !.key = proc[p].key,
                                                !.outcome = outcome]]
  /\ Unlock(proc[p].key)

-----------------------------------------------------------------------------
(* Phase 1: the dataset lock and the plan.                                 *)

StartCall(p, k, r, v) ==
  /\ At(p, "idle")
  /\ proc' = [proc EXCEPT ![p] = [NoCall EXCEPT !.pc = "locking", !.key = k,
                                                !.req = r, !.prov = v]]
  /\ UNCHANGED <<disk, temps, catalog, lock, gate, clock, faulted>>

LockAlwaysFree(k) == TRUE
LockFree(k) == lock[k] = NoOwner

AcquireDatasetLock(p) ==
  /\ At(p, "locking")
  /\ LockFree(proc[p].key)
  /\ lock' = [lock EXCEPT ![proc[p].key] = p]
  /\ proc' = [proc EXCEPT ![p].pc = "planning"]
  /\ UNCHANGED <<disk, temps, catalog, gate, clock, faulted>>

\* acquire polls until its deadline and then raises.
NeverTimesOut(p) == FALSE
MayTimeOut(p) == ~LockFree(proc[p].key)

DatasetLockTimesOut(p) ==
  /\ At(p, "locking")
  /\ MayTimeOut(p)
  /\ proc' = [proc EXCEPT ![p] = [NoCall EXCEPT !.pc = "done",
                                                !.key = proc[p].key,
                                                !.outcome = "error"]]
  /\ UNCHANGED <<disk, temps, catalog, lock, gate, clock, faulted>>

ForgottenLineage(k) == None
PlannedLineage(k) == catalog.lineage[k]

\* The gate is held for exactly this step: refuse a catalog that is absent
\* beside stored files, read the gaps and the lineage, record the run.
Plan(p) ==
  LET k == proc[p].key IN
  /\ At(p, "planning")
  /\ gate = NoOwner
  /\ catalog.exists \/ StorageEmpty(disk, temps)
  /\ LET gaps == MissingIn(catalog.coverage[k], proc[p].req) IN
       proc' = [proc EXCEPT
                  ![p].pc = IF gaps = {} THEN "preparing" ELSE "observing",
                  ![p].gaps = gaps,
                  ![p].lineage = PlannedLineage(k)]
  /\ catalog' = RecordRun(catalog, p, "running")
  /\ UNCHANGED <<disk, temps, lock, gate, clock, faulted>>

\* The refusal above, a gate timeout or a catalog error: nothing to undo.
PlanFails(p) ==
  /\ At(p, "planning")
  /\ Finish(p, "error")
  /\ UNCHANGED <<disk, temps, catalog, gate, clock, faulted>>

-----------------------------------------------------------------------------
(* Phase 2: observation and preparation, outside the gate.                 *)

\* The clock is read before the provider is asked.
Observe(p) ==
  /\ At(p, "observing")
  /\ LineageAdmits(proc[p].lineage, proc[p].prov)
  /\ proc' = [proc EXCEPT ![p].pc = "replying", ![p].evidence = clock]
  /\ UNCHANGED <<disk, temps, catalog, lock, gate, clock, faulted>>

\* Any exception of this phase: discard the temporaries, record a failed
\* run if possible, raise.
Abandon(p, outcome) ==
  /\ proc' = [proc EXCEPT ![p].pc = "failing", ![p].outcome = outcome]
  /\ temps' = [temps EXCEPT ![proc[p].key] = Discarded(p)]

RejectLineage(p) ==
  /\ At(p, "observing")
  /\ ~LineageAdmits(proc[p].lineage, proc[p].prov)
  /\ Abandon(p, "lineage")
  /\ UNCHANGED <<disk, catalog, lock, gate, clock, faulted>>

\* A reply proves some slots of the fetch window.  Among them it has a row
\* for exactly the bars the provider has by now; rows that were not final
\* when the provider was asked are dropped, and so are those outside the
\* gaps.  A presence-only provider proves only slots it has a row for.
ProviderReplies(p) ==
  LET gaps == proc[p].gaps IN
  /\ At(p, "replying")
  /\ \E seen \in SUBSET FetchWindow(gaps), values \in [Slots -> Values] :
       LET bars == {s \in seen \cap Bars[proc[p].prov] : s < clock}
           rows == [s \in Slots |->
                      IF s \in Finalizable(bars, proc[p].evidence)
                      THEN values[s] ELSE None]
       IN  proc' = [proc EXCEPT ![p].pc = "preparing",
                                ![p].observed = seen,
                                ![p].batch = FilterToRanges(rows, gaps)]
  /\ UNCHANGED <<disk, temps, catalog, lock, gate, clock, faulted>>

\* A provider error, a fatal quality finding.
ObservationFails(p) ==
  /\ At(p, "replying")
  /\ Abandon(p, "error")
  /\ UNCHANGED <<disk, catalog, lock, gate, clock, faulted>>

\* prepare_month: clean the month's stale temporaries, merge the batch over
\* the file on disk, write and verify a temporary.  A month file of another
\* provider is refused.
PrepareMonth(p, m) ==
  LET k == proc[p].key
      existing == disk[k][m]
  IN
  /\ At(p, "preparing")
  /\ m \in BatchMonths(proc[p].batch) \ PreparedMonths(p)
  /\ LineageAdmits(existing.prov, proc[p].prov)
  /\ proc' = [proc EXCEPT ![p].prepared[m] =
                [prov |-> proc[p].prov,
                 rows |-> MergeFrames(existing.rows,
                                      SplitByMonth(proc[p].batch, m))]]
  /\ temps' = [temps EXCEPT ![k] = @ \cup {m}]
  /\ UNCHANGED <<disk, catalog, lock, gate, clock, faulted>>

\* prepare_month raises, after its clean-up and without leaving its own
\* temporary: a month file of another provider, or an I/O error.
PrepareFails(p, m) ==
  /\ At(p, "preparing")
  /\ m \in BatchMonths(proc[p].batch) \ PreparedMonths(p)
  /\ proc' = [proc EXCEPT ![p].pc = "failing",
                ![p].outcome =
                  IF LineageAdmits(disk[proc[p].key][m].prov, proc[p].prov)
                  THEN "error" ELSE "lineage"]
  /\ temps' = [temps EXCEPT ![proc[p].key] = Discarded(p) \ {m}]
  /\ UNCHANGED <<disk, catalog, lock, gate, clock, faulted>>

\* _record_failed_run_best_effort, then the exception is raised again.
RecordFailedRun(p) ==
  /\ At(p, "failing")
  /\ \/ gate = NoOwner /\ catalog' = RecordRun(catalog, p, "failed")
     \/ UNCHANGED catalog
  /\ Finish(p, proc[p].outcome)
  /\ UNCHANGED <<disk, temps, gate, clock, faulted>>

-----------------------------------------------------------------------------
(* Phase 3: publication and commit, under the gate.                        *)

\* Maintenance may have replaced the catalog since the plan, so the running
\* run is recorded again.
EnterPublication(p) ==
  /\ At(p, "preparing")
  /\ AllPrepared(p)
  /\ gate = NoOwner
  /\ gate' = p
  /\ catalog' = RecordRun(catalog, p, "running")
  /\ proc' = [proc EXCEPT ![p].pc = "publishing"]
  /\ UNCHANGED <<disk, temps, lock, clock, faulted>>

\* The gate times out or the catalog cannot be opened.
EnterFails(p) ==
  /\ At(p, "preparing")
  /\ AllPrepared(p)
  /\ Abandon(p, "error")
  /\ UNCHANGED <<disk, catalog, lock, gate, clock, faulted>>

\* publish_prepared_file: one atomic os.replace.
PublishMonth(p, m) ==
  LET k == proc[p].key IN
  /\ At(p, "publishing")
  /\ m \in PreparedMonths(p) \ proc[p].published
  /\ m \in temps[k]
  /\ disk' = [disk EXCEPT ![k][m] = proc[p].prepared[m]]
  /\ temps' = [temps EXCEPT ![k] = @ \ {m}]
  /\ proc' = [proc EXCEPT ![p].published = @ \cup {m}]
  /\ UNCHANGED <<catalog, lock, gate, clock, faulted>>

\* The handlers of phase 3: the gate is released and the transaction rolled
\* back, unpublished temporaries are discarded; after a publication the
\* error asks for maintenance, before it the failed run is recorded.
PublicationRaises(p, outcome) ==
  /\ temps' = [temps EXCEPT ![proc[p].key] = Discarded(p)]
  /\ IF AnyPublished(p)
     THEN /\ Finish(p, IF outcome = "lineage" THEN outcome ELSE "attention")
          /\ faulted' = faulted \cup {proc[p].key}
     ELSE /\ proc' = [proc EXCEPT ![p].pc = "failing", ![p].outcome = outcome]
          /\ UNCHANGED <<lock, faulted>>

\* The slots whose coverage the call may change, and what it found there.
ProvenSlots(p) ==
  Finalizable(proc[p].observed \cap proc[p].gaps, proc[p].evidence)

NewSegments(p) == BarSegments(Held(proc[p].batch), ProvenSlots(p))

\* There is something to bind a lineage for.
HasFacts(p) == PreparedMonths(p) # {} \/ NewSegments(p) # Nothing

Committed(p) ==
  CommittedCatalog(catalog, p, proc[p].key, proc[p].prov,
                   NewSegments(p), proc[p].prepared)

MayCommit(p) ==
  /\ At(p, "publishing")
  /\ AllPublished(p)
  /\ HasFacts(p) => LineageAdmits(catalog.lineage[proc[p].key], proc[p].prov)

Commit(p) ==
  /\ MayCommit(p)
  /\ catalog' = Committed(p)
  /\ gate' = NoOwner
  /\ Finish(p, "ok")
  /\ UNCHANGED <<disk, temps, clock, faulted>>

\* bind_source_lineage refuses when another lineage was bound since the plan.
Rejections(p) ==
  {o \in {"lineage"} : AllPublished(p) /\ HasFacts(p)
                       /\ ~LineageAdmits(catalog.lineage[proc[p].key], proc[p].prov)}

\* Recording, publication, the transaction or that refusal raises.
PublicationFails(p) ==
  /\ At(p, "publishing")
  /\ \E outcome \in {"error"} \cup Rejections(p) : PublicationRaises(p, outcome)
  /\ gate' = NoOwner
  /\ UNCHANGED <<disk, catalog, clock>>

\* COMMIT itself raises: the transaction is durable or it is lost.
CommitUncertain(p) ==
  /\ MayCommit(p)
  /\ catalog' \in {catalog, Committed(p)}
  /\ gate' = NoOwner
  /\ proc' = [proc EXCEPT ![p].pc = "uncertain"]
  /\ UNCHANGED <<disk, temps, lock, clock, faulted>>

\* The handler looks for its own commit in the catalog, without the gate.
ResolveVisible(p) ==
  /\ At(p, "uncertain")
  /\ TerminalCommitVisible(catalog, p, proc[p].key, proc[p].prepared)
  /\ Finish(p, "ok")
  /\ UNCHANGED <<disk, temps, catalog, gate, clock, faulted>>

\* Not visible, or the check itself fails.  No failed run is recorded.
ResolveInvisible(p) ==
  /\ At(p, "uncertain")
  /\ IF AnyPublished(p)
     THEN /\ Finish(p, "attention")
          /\ faulted' = faulted \cup {proc[p].key}
     ELSE /\ Finish(p, "error")
          /\ UNCHANGED faulted
  /\ UNCHANGED <<disk, temps, catalog, gate, clock>>

-----------------------------------------------------------------------------
(* The caller, its death, and time.                                        *)

Return(p) ==
  /\ At(p, "done")
  /\ proc' = [proc EXCEPT ![p] = NoCall]
  /\ UNCHANGED <<disk, temps, catalog, lock, gate, clock, faulted>>

\* A killed caller, or one interrupted by an exception no handler catches:
\* its locks are released, its temporaries stay.
Crash(p) ==
  LET k == proc[p].key IN
  /\ proc[p].pc \notin {"idle", "done"}
  /\ proc' = [proc EXCEPT ![p] = NoCall]
  /\ IF proc[p].pc \in Locked THEN Unlock(k) ELSE UNCHANGED lock
  /\ gate' = IF gate = p THEN NoOwner ELSE gate
  /\ faulted' = IF proc[p].published # {} THEN faulted \cup {k} ELSE faulted
  /\ UNCHANGED <<disk, temps, catalog, clock>>

Tick ==
  /\ clock < MaxClock
  /\ clock' = clock + 1
  /\ UNCHANGED <<disk, temps, catalog, lock, gate, proc, faulted>>

\* The steps a running call takes by itself.
CallStep(p) ==
  \/ AcquireDatasetLock(p) \/ DatasetLockTimesOut(p)
  \/ Plan(p) \/ PlanFails(p)
  \/ Observe(p) \/ RejectLineage(p) \/ ProviderReplies(p) \/ ObservationFails(p)
  \/ \E m \in Months : PrepareMonth(p, m) \/ PrepareFails(p, m)
  \/ RecordFailedRun(p)
  \/ EnterPublication(p) \/ EnterFails(p)
  \/ \E m \in Months : PublishMonth(p, m)
  \/ PublicationFails(p) \/ Commit(p) \/ CommitUncertain(p)
  \/ ResolveVisible(p) \/ ResolveInvisible(p)

SyncNext ==
  \/ \E p \in Procs :
       \/ \E k \in Keys, r \in Requests, v \in Providers : StartCall(p, k, r, v)
       \/ CallStep(p)
       \/ Return(p)
       \/ Crash(p)
  \/ Tick

SyncSpec == SyncInit /\ [][SyncNext]_syncVars

\* Every lock wait has a deadline and every provider call returns or raises,
\* so a call that is not killed keeps taking steps.
SyncFairSpec == SyncSpec /\ \A p \in Procs : WF_syncVars(CallStep(p))

-----------------------------------------------------------------------------
(* Safety.                                                                 *)

\* Available coverage is backed: the catalog indexes a file with that row,
\* and the canonical file on disk still has it.  Coverage and files are
\* written by different steps, and either may be missing after a failure.
AvailableBacked ==
  \A k \in Keys, s \in Slots :
    catalog.coverage[k][s] = "available" =>
      /\ catalog.index[k][MonthOf[s]].rows[s] # None
      /\ disk[k][MonthOf[s]].rows[s] # None

\* The catalog never silently disagrees with the canonical files: while no
\* sync works on a dataset, every file is indexed exactly as it is on disk
\* unless a caller was told to validate, or died, after publishing.
NoSilentDrift ==
  \A k \in Keys :
    (lock[k] = NoOwner /\ k \notin faulted /\ catalog.exists)
      => catalog.index[k] = disk[k]

\* Unavailable coverage is proven: the dataset's provider has no such bar
\* and the bar's interval is over.  A late bar, an unproven slot or a
\* failure must never be recorded as a gap in the market.
UnavailableIsProven ==
  \A k \in Keys, s \in Slots :
    catalog.coverage[k][s] = "unavailable" =>
      /\ catalog.lineage[k] # None
      /\ s \notin Bars[catalog.lineage[k]]
      /\ s < clock

\* Two calls never work on one dataset, so the temporary a call is about to
\* publish is still there: nobody else cleaned it up as stale.
TempsSurvive ==
  \A p \in Procs :
    proc[p].pc \in {"preparing", "publishing"} =>
      PreparedMonths(p) \ proc[p].published \subseteq temps[proc[p].key]

\* No step of any caller removes a row from a canonical file.
RowsNeverLost ==
  [][\A k \in Keys, m \in Months : Held(disk[k][m].rows) \subseteq Held(disk'[k][m].rows)]_disk

\* A row the catalog reports as available is never rewritten, although the
\* fetch windows that fill the gaps around it fetch it again.
AvailableRowsImmutable ==
  [][\A k \in Keys, s \in Slots :
       catalog.coverage[k][s] = "available" =>
         disk'[k][MonthOf[s]].rows[s] = disk[k][MonthOf[s]].rows[s]]_syncVars

\* A call that reports success has every file it published indexed with the
\* published content, and nothing it prepared is left unpublished.
SuccessIsIndexed ==
  [][\A p \in Procs :
       (~At(p, "done") /\ proc'[p].pc = "done" /\ proc'[p].outcome = "ok") =>
         \A m \in PreparedMonths(p) :
           /\ m \in proc[p].published
           /\ catalog'.index[proc[p].key][m] = disk'[proc[p].key][m]]_syncVars

\* A call that ends by itself leaves no temporary of its own behind, on any
\* of its error paths; only a killed one does.
EndLeavesNoTemp ==
  [][\A p \in Procs :
       (proc[p].pc \in Locked /\ proc'[p].pc \in {"failing", "done"}) =>
         PreparedMonths(p) \cap temps'[proc[p].key] = {}]_syncVars

\* A call of another provider is rejected before it publishes anything
\* (docs/reference/api.md:256, "a different provider name is rejected before
\* publication").  The lineage is read by the plan, long before.
LineageRejectedBeforePublication ==
  [][\A p \in Procs :
       (proc'[p].outcome = "lineage") => proc[p].published = {}]_syncVars

(* Liveness.                                                               *)

\* Every call ends: it returns, raises, or its caller dies.  It may not
\* wait forever for a lock others keep taking.
CallsEnd ==
  \A p \in Procs : At(p, "locking") ~> proc[p].pc \in {"done", "idle"}

-----------------------------------------------------------------------------
(* Refinement: what readers are promised.                                  *)

SlotsWith(k, status) == {s \in Slots : catalog.coverage[k][s] = status}

Published == INSTANCE PublishedRows WITH
  rows   <- [k \in Keys |-> [s \in Slots |-> disk[k][MonthOf[s]].rows[s]]],
  shown  <- [k \in Keys |-> SlotsWith(k, "available")],
  absent <- [k \in Keys |-> SlotsWith(k, "unavailable")],
  open   <- catalog.exists

\* With its files, locks, failures and crashes, sync keeps the promise of
\* PublishedRows: publication is a replacement of one month, a durable
\* commit is a revelation, and every other step changes nothing a reader
\* may rely on.
ImplementsPublishedRows == Published!PubSpec

-----------------------------------------------------------------------------
(* The inductive invariant of the safety theorems.                         *)

\* A call past its lock holds it, exactly the publishing call holds the
\* gate; the catalog a call planned with cannot have been lost since, and a
\* lost catalog knows nothing.
LocksHeld ==
  /\ \A p \in Procs : proc[p].pc \in Locked => lock[proc[p].key] = p
  /\ \A p \in Procs : At(p, "publishing") <=> gate = p
  /\ \A p \in Procs : proc[p].pc \in Locked \ {"planning"} => catalog.exists
  /\ catalog.exists \/ catalog = NoCatalog

\* Every canonical file and every prepared one holds rows of its month.
MonthsSorted ==
  /\ \A k \in Keys, m \in Months : disk[k][m] \in MonthFile(m)
  /\ \A p \in Procs, m \in Months : proc[p].prepared[m] \in MonthFile(m)

\* What a call has published is on disk, what it has only prepared loses no
\* row that is on disk and has every row of its batch; nothing is prepared
\* before the reply, a call publishes once all its rows are prepared and
\* commits once all of them are published.
PreparedBy(p) ==
  LET k == proc[p].key IN
  /\ proc[p].pc \in Locked =>
       \A m \in PreparedMonths(p) :
         IF m \in proc[p].published
         THEN disk[k][m] = proc[p].prepared[m]
         ELSE Held(disk[k][m].rows) \subseteq Held(proc[p].prepared[m].rows)
  /\ proc[p].pc \in {"locking", "planning", "observing", "replying"} =>
       PreparedMonths(p) = {}
  /\ \A s \in Held(proc[p].batch) :
       MonthOf[s] \in PreparedMonths(p)
         => proc[p].prepared[MonthOf[s]].rows[s] # None
  /\ proc[p].published \subseteq PreparedMonths(p)
  /\ proc[p].pc \in {"publishing", "uncertain"} => AllPrepared(p)
  /\ At(p, "uncertain") => AllPublished(p)
  /\ proc[p].pc \notin {"publishing", "uncertain"} => proc[p].published = {}

PreparedCurrent == \A p \in Procs : PreparedBy(p)

\* Coverage is backed by the index and the index by the files.
IndexBacked ==
  /\ \A k \in Keys, s \in Slots :
       catalog.coverage[k][s] = "available" =>
         catalog.index[k][MonthOf[s]].rows[s] # None
  /\ \A k \in Keys, m \in Months :
       Held(catalog.index[k][m].rows) \subseteq Held(disk[k][m].rows)

\* Where catalog and files differ, either maintenance is due or the holder
\* of the dataset's lock has published the file and not yet ended.
DriftOwned ==
  \A k \in Keys, m \in Months :
    \/ k \in faulted
    \/ ~catalog.exists
    \/ catalog.index[k][m] = disk[k][m]
    \/ \E p \in Procs : lock[k] = p /\ proc[p].key = k /\ m \in proc[p].published

SyncInv ==
  /\ SyncTypeOK
  /\ LocksHeld
  /\ MonthsSorted
  /\ PreparedCurrent
  /\ IndexBacked
  /\ DriftOwned
=============================================================================
