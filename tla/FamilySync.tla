----------------------------- MODULE FamilySync -----------------------------
(***************************************************************************)
(* sync of one settled-funding, reference-bar or open-interest dataset,    *)
(* with the crashes, the lost catalog and the rebuilds that may meet it.   *)
(*                                                                         *)
(* The dataset lock admits one call at a time (BarSync shows the lock at   *)
(* work, and temporaries, run status and uncertain commits, which are the  *)
(* same here), so there is one call record; rebuild takes the catalog gate *)
(* only, and runs between the steps of a call that do not hold it.  A call *)
(* over several gaps makes one observation per gap; here their union is    *)
(* one observation, made at one evidence instant.                          *)
(***************************************************************************)
EXTENDS FamilyFacts

CONSTANTS
  Families,  \* the families to choose the dataset from
  Requests,  \* the ranges callers ask for
  Offers     \* Offers[s]: the values a provider may report at slot s

ASSUME RequestsAssumption ==
  /\ Families \subseteq Family
  /\ Requests \subseteq (SUBSET Slots) \ {{}}
  /\ Offers \in [Slots -> SUBSET Values]

VARIABLES
  family,   \* the family of the dataset, fixed
  disk,     \* canonical month files
  catalog,  \* SQLite's facts about the dataset
  call,     \* the sync that holds the dataset lock
  brought,  \* history: the rows committed calls brought, since the last rebuild
  torn      \* history: a call ended between publication and commit

vars == <<family, disk, catalog, call, brought, torn>>

Idle == [pc |-> "idle", prov |-> None, asked |-> {}, rows |-> NoRows,
         observed |-> {}, segments |-> Nothing, contributors |-> {},
         prepared |-> NoFiles, published |-> {}]

FamilyTypeOK ==
  /\ family \in Family
  /\ disk \in [Months -> File]
  /\ \A m \in Stored(disk) : ValidArtifact(family, m, disk[m])
  /\ catalog \in CatalogState
  /\ call \in [pc : {"idle", "planned", "observed", "prepared", "publishing"},
               prov : Providers \cup {None}, asked : SUBSET Slots, rows : Rows,
               observed : SUBSET Slots, segments : Coverage,
               contributors : SUBSET Contributor,
               prepared : [Months -> File], published : SUBSET Months]
  /\ brought \in Rows
  /\ torn \in BOOLEAN

Init ==
  /\ family \in Families
  /\ disk = NoFiles
  /\ catalog = NoCatalog
  /\ call = Idle
  /\ brought = NoRows
  /\ torn = FALSE

At(pc) == call.pc = pc
Archival == call.prov \in Archives
Missing(r) == {s \in r : catalog.coverage[s] = "missing"}

-----------------------------------------------------------------------------
(* Plan: under the catalog gate, what is missing of the range and whether  *)
(* this provider may fetch it.  An absent catalog is only created over     *)
(* empty storage.  A refused call changes nothing.                         *)

CatalogOpens == catalog.exists \/ Stored(disk) = {}

Plan(v, asked) ==
  /\ At("idle")
  /\ CatalogOpens
  /\ catalog' = [catalog EXCEPT !.exists = TRUE]
  /\ call' = [Idle EXCEPT !.pc = "planned", !.prov = v, !.asked = asked]
  /\ UNCHANGED <<family, disk, brought, torn>>

PlanFunding(v, r) ==
  /\ family = "funding"
  /\ Missing(r) # {} => LineageAdmits(catalog.lineage, v)
  /\ Plan(v, Missing(r))

PlanReference(v, r) ==
  /\ family = "reference"
  /\ Missing(r) # {} => LineageAdmits(catalog.lineage, v)
  /\ Plan(v, Missing(r))

\* An archive is asked for the whole range again, whatever is covered.
PlanOpenInterest(v, r) ==
  /\ family = "oi"
  /\ RequestAdmitted(catalog.owners, r, v)
  /\ Plan(v, IF v \in Archives THEN r ELSE Missing(r))

-----------------------------------------------------------------------------
(* Observe: the provider replies with anything; its runtime lets only      *)
(* valid replies through, and without a gap the provider is not called.    *)

Observed(rows, observed, segments, contributors) ==
  /\ call' = [call EXCEPT !.pc = "observed", !.rows = rows, !.observed = observed,
                          !.segments = segments, !.contributors = contributors]
  /\ UNCHANGED <<family, disk, catalog, brought, torn>>

Instants == {s + 1 : s \in Slots} \cup Slots

ObserveFunding(raw, evidence) ==
  /\ At("planned") /\ family = "funding"
  /\ ValidFundingReply(raw, call.asked, evidence)
  /\ LET observed == FundingWindows(raw, evidence)
     IN  Observed(raw.rows, observed, FundingSegments(observed), {})

ObserveReference(raw, evidence) ==
  /\ At("planned") /\ family = "reference"
  /\ ValidReferenceReply(raw, call.asked, evidence)
  /\ Observed(raw.rows, raw.observed,
              GridSegments(Held(raw.rows), raw.observed, evidence), {})

\* Samples are final as labelled: every observed slot counts.
OpenInterestSegments(raw) ==
  [s \in Slots |-> IF s \notin raw.observed THEN "missing"
                   ELSE IF raw.rows[s] # None THEN "available" ELSE "unavailable"]

\* CCXT's history names no contributors and observes its samples only.
ObserveOpenInterest(raw) ==
  /\ At("planned") /\ family = "oi" /\ ~Archival
  /\ raw.observed = Held(raw.rows)
  /\ LET contributors == WindowContributors(call.prov, raw.observed)
     IN  /\ ValidOpenInterestReply(raw, call.asked, contributors)
         /\ Observed(raw.rows, raw.observed, OpenInterestSegments(raw), contributors)

ObserveArchive(raw, days) ==
  /\ At("planned") /\ family = "oi" /\ Archival
  /\ WholeDays(call.asked)
  /\ days \in PublishedDays(call.asked)
  /\ raw.observed = Held(raw.rows)
  /\ LET contributors == DayContributors(call.prov, days)
     IN  /\ ValidOpenInterestReply(raw, call.asked, contributors)
         /\ Observed(raw.rows, raw.observed, OpenInterestSegments(raw), contributors)

-----------------------------------------------------------------------------
(* Prepare: the rows of every month they touch are merged over the file    *)
(* on disk into a validated temporary; one failure ends the call.          *)

Touched == {MonthOf[s] : s \in Held(call.rows)}
Batch(m) == SplitByMonth(call.rows, m)

Prepare(months, incoming) ==
  /\ call' = [call EXCEPT !.pc = "prepared",
                !.prepared = [m \in Months |->
                   IF m \in months
                   THEN MergedFile(disk[m], call.prov, Batch(m), incoming[m])
                   ELSE NoFile]]
  /\ UNCHANGED <<family, disk, catalog, brought, torn>>

PrepareFunding ==
  /\ At("observed") /\ family = "funding"
  /\ \A m \in Touched : MayPrepare(family, m, disk[m], call.prov, Batch(m), {})
  /\ Prepare(Touched, [m \in Months |-> {}])

PrepareReference ==
  /\ At("observed") /\ family = "reference"
  /\ \A m \in Touched : MayPrepare(family, m, disk[m], call.prov, Batch(m), {})
  /\ Prepare(Touched, [m \in Months |-> {}])

Incoming == [m \in Months |-> MonthSources(call.contributors, m)]

PrepareOpenInterest ==
  /\ At("observed") /\ family = "oi" /\ ~Archival
  /\ \A m \in Touched : MayPrepare(family, m, disk[m], call.prov, Batch(m), Incoming[m])
  /\ Prepare(Touched, Incoming)

\* An archive's contributors without rows are prepared as well.
PrepareRevision ==
  /\ At("observed") /\ family = "oi" /\ Archival
  /\ LET revised == {m \in Months : Incoming[m] # {}}
     IN  /\ \A m \in revised :
              MayPrepareRevision(m, disk[m], call.prov, Batch(m), Incoming[m])
         /\ Prepare(revised, Incoming)

-----------------------------------------------------------------------------
(* Publish and commit, under the gate.                                     *)

PreparedMonths == {m \in Months : call.prepared[m] # NoFile}

\* For open interest, ownership is checked for all files before the first
\* is published, against what the catalog says by now.
Enter ==
  /\ At("prepared")
  /\ family = "oi" => OwnershipAdmits(catalog.owners, AllContributors(call.prepared))
  /\ call' = [call EXCEPT !.pc = "publishing"]
  /\ catalog' = [catalog EXCEPT !.exists = TRUE]
  /\ UNCHANGED <<family, disk, brought, torn>>

\* The temporary becomes the canonical file.
PublishMonth(m) ==
  /\ At("publishing")
  /\ m \in PreparedMonths \ call.published
  /\ disk' = [disk EXCEPT ![m] = call.prepared[m]]
  /\ call' = [call EXCEPT !.published = @ \cup {m}]
  /\ UNCHANGED <<family, catalog, brought, torn>>

Reported == {s \in Slots : call.segments[s] # "missing"}

\* What committed calls brought: the new rows, and nothing any more where
\* a revised day has no sample.
Bring(revised) ==
  brought' = [s \in Slots |-> IF call.rows[s] # None THEN call.rows[s]
                              ELSE IF s \in revised THEN None ELSE brought[s]]

\* One transaction: coverage, lineage, the index and recorded ownership.
Commit(coverage, lineage, revised) ==
  /\ At("publishing")
  /\ call.published = PreparedMonths
  /\ catalog' = [catalog EXCEPT
       !.coverage = coverage,
       !.lineage  = lineage,
       !.index    = IndexedFiles(catalog.index, call.prepared),
       !.owners   = @ \cup AllContributors(call.prepared)]
  /\ Bring(revised)
  /\ call' = Idle
  /\ UNCHANGED <<family, disk, torn>>

\* The lineage is bound by the first call that brings facts, and the
\* transaction fails if it is another's by now.
BoundLineage ==
  IF Reported # {} \/ PreparedMonths # {} THEN call.prov ELSE catalog.lineage

CommitFunding ==
  /\ family = "funding"
  /\ BoundLineage = call.prov => LineageAdmits(catalog.lineage, call.prov)
  /\ Commit(ApplyCoverage(catalog.coverage, call.segments), BoundLineage, {})

CommitReference ==
  /\ family = "reference"
  /\ BoundLineage = call.prov => LineageAdmits(catalog.lineage, call.prov)
  /\ Commit(ApplyCoverage(catalog.coverage, call.segments), BoundLineage, {})

\* A revision replaces the coverage of its days, so that samples it no
\* longer has are missing again.
CommitOpenInterest ==
  /\ family = "oi"
  /\ LET revised == IF Archival THEN Spans(call.contributors) ELSE {}
     IN  Commit(IF Archival
                THEN ReplaceCoverage(catalog.coverage, call.segments, revised)
                ELSE ApplyCoverage(catalog.coverage, call.segments),
                catalog.lineage, revised)

\* An exception or the death of the process at any point: temporaries are
\* dropped, published files stay, the transaction is rolled back.  (Marking
\* the run as failed changes no fact about the dataset.)
Stops ==
  /\ ~At("idle")
  /\ torn' = (torn \/ call.published # {})
  /\ call' = Idle
  /\ UNCHANGED <<family, disk, catalog, brought>>

-----------------------------------------------------------------------------
(* Maintenance.                                                            *)

\* The catalog file is lost while no call runs.
CatalogLost ==
  /\ At("idle")
  /\ catalog.exists
  /\ catalog' = NoCatalog
  /\ brought' = NoRows
  /\ UNCHANGED <<family, disk, call, torn>>

\* rebuild_catalog takes the gate but no dataset lock.
Rebuild ==
  /\ ~At("publishing")
  /\ MayRebuild(disk)
  /\ catalog' = RebuiltCatalog(family, disk)
  /\ brought' = NoRows
  /\ torn' = FALSE
  /\ UNCHANGED <<family, disk, call>>

-----------------------------------------------------------------------------

PlanNext ==
  \E v \in Providers, r \in Requests :
    PlanFunding(v, r) \/ PlanReference(v, r) \/ PlanOpenInterest(v, r)

\* A provider replies with anything, up to one slot beyond what it is asked
\* for; its runtime lets only valid replies pass.
Replies(asked) ==
  LET near == {s \in Slots : s \in asked \/ (s > 0 /\ s - 1 \in asked)}
  IN  [rows : {f \in [Slots -> Values \cup {None}] :
                 \A s \in Held(f) : s \in near /\ f[s] \in Offers[s]},
       observed : SUBSET near]

ObserveNext ==
  /\ At("planned")
  /\ \E raw \in Replies(call.asked) :
       \/ \E e \in Instants : ObserveFunding(raw, e) \/ ObserveReference(raw, e)
       \/ ObserveOpenInterest(raw)
       \/ \E days \in SUBSET Days : ObserveArchive(raw, days)

CommitNext == CommitFunding \/ CommitReference \/ CommitOpenInterest

Next ==
  \/ PlanNext
  \/ ObserveNext
  \/ PrepareFunding \/ PrepareReference \/ PrepareOpenInterest \/ PrepareRevision
  \/ Enter
  \/ \E m \in Months : PublishMonth(m)
  \/ CommitNext
  \/ Stops
  \/ CatalogLost
  \/ Rebuild

Spec == Init /\ [][Next]_vars

-----------------------------------------------------------------------------
(* Safety.                                                                 *)

\* Every interval has one owner: the contributors in the month files and
\* those the catalog remembers never overlap unless they are the same,
\* whichever providers synced and wherever they were interrupted.
OneOwner ==
  LET certified == AllContributors(disk) \cup catalog.owners
  IN  \A c, d \in certified : Overlaps(c, d) => c = d

\* Unless a call was torn, an available slot of a grid family has a row in
\* the indexed file, and of open interest an owner whose interval holds it.
AvailableBacked ==
  ~torn /\ family # "funding" =>
    \A s \in Slots : catalog.coverage[s] = "available" =>
      LET f == catalog.index[MonthOf[s]]
      IN  /\ f.rows[s] # None
          /\ family = "oi" => s \in Spans(f.contributors)

\* docs/guides/synchronization.md: "Persisted `available` means canonical
\* facts exist": an available slot of a grid family has a row in the file
\* the catalog indexes, whatever happened before.
AvailableIsStored ==
  family # "funding" =>
    \A s \in Slots : catalog.coverage[s] = "available" =>
      catalog.index[MonthOf[s]].rows[s] # None

\* Unless a call was torn, a row that a committed call brought is still
\* indexed and available: later calls, over other slots or by other
\* providers, and revisions of other days take none away.
BroughtIsKept ==
  ~torn =>
    \A s \in Held(brought) :
      /\ catalog.index[MonthOf[s]].rows[s] = brought[s]
      /\ catalog.coverage[s] = "available"

\* Files can always replace a lost catalog: for open interest after any
\* crash, for the other families unless a call was torn or is publishing.
RebuildPossible ==
  (family # "oi" /\ (torn \/ At("publishing"))) \/ MayRebuild(disk)

\* A published interval stays its owner's, with its bounds, in the files
\* for good, and in the catalog until that is rebuilt or lost.
OwnersKept ==
  [][\A c \in AllContributors(disk) : c \in AllContributors(disk')]_disk

\* A stored row is replaced or removed only inside an interval of the
\* provider that publishes; funding and reference rows never are.
RowsRewrittenOnlyByOwner ==
  [][\A s \in Slots :
       LET old == disk[MonthOf[s]]
       IN  old.rows[s] \notin {None, disk'[MonthOf[s]].rows[s]} =>
             \E c \in old.contributors : s \in c.span /\ c.prov = call.prov]_disk
=============================================================================
