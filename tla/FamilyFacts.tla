----------------------------- MODULE FamilyFacts -----------------------------
(***************************************************************************)
(* The values the local store of the other dataset families (settled       *)
(* funding, reference bars, open interest) is made of, and the pure        *)
(* functions sync and rebuild apply to them: month files with a manifest   *)
(* of contributors, provider ownership of intervals, validated replies,    *)
(* merging and coverage.                                                   *)
(*                                                                         *)
(* Slot s stands for the half-open interval [s, s+1): one bar or sample of *)
(* the dataset's grid, or a span with at most one funding event.  An       *)
(* interval is the set of its slots.  What a contributor says beyond its   *)
(* provider and its interval (checksum, revision, row counts) is evidence  *)
(* nothing is decided by, and is left out.                                 *)
(***************************************************************************)
EXTENDS Naturals

CONSTANTS
  Slots,      \* the boundaries of the dataset's grid
  Months,     \* calendar months, the unit of a canonical file
  MonthOf,    \* the month a slot starts in
  Days,       \* UTC days, the unit of an archive object
  Providers,  \* provider descriptor names
  Archives,   \* providers whose open-interest policy is REVISIONED_ARCHIVE
  Values,     \* the values a row may be reported with
  None        \* no row, no provider

ASSUME FamilyAssumption ==
  /\ Slots \subseteq Nat
  /\ MonthOf \in [Slots -> Months]
  /\ Days \subseteq SUBSET Slots
  /\ {} \notin Days
  /\ \A d, e \in Days : d # e => d \cap e = {}
  /\ \A d \in Days : \A s, t \in d : MonthOf[s] = MonthOf[t]
  /\ Archives \subseteq Providers
  /\ None \notin Values
  /\ None \notin Providers

Family == {"funding", "reference", "oi"}

-----------------------------------------------------------------------------
(* Month files.                                                            *)

Rows   == [Slots -> Values \cup {None}]
NoRows == [s \in Slots |-> None]
Held(rows) == {s \in Slots : rows[s] # None}

\* An interval certified by one provider; it owns the interval for good.
Contributor == [prov : Providers, span : (SUBSET Slots) \ {{}}]
Spans(contributors) == UNION {c.span : c \in contributors}

\* The provider that published last, the rows, the contributor manifest.
File   == [prov : Providers \cup {None}, rows : Rows, contributors : SUBSET Contributor]
NoFile == [prov |-> None, rows |-> NoRows, contributors |-> {}]

Overlaps(c, d) == c.span \cap d.span # {}

OrderedDisjoint(contributors) ==
  \A c, d \in contributors : c # d => ~Overlaps(c, d)

\* Every row of the file is in its month, and a file without rows is only
\* kept as a manifest of open-interest contributors.
ValidArtifact(family, m, f) ==
  /\ \A s \in Held(f.rows) : MonthOf[s] = m
  /\ Held(f.rows) = {} => /\ family = "oi"
                          /\ f.contributors # {}
                          /\ \A s \in Spans(f.contributors) : MonthOf[s] = m
  /\ OrderedDisjoint(f.contributors)

SplitByMonth(rows, m) ==
  [s \in Slots |-> IF MonthOf[s] = m THEN rows[s] ELSE None]

\* A contributor across months is cut into one piece per month.
MonthSources(contributors, m) ==
  {[c EXCEPT !.span = {s \in c.span : MonthOf[s] = m}] :
     c \in {d \in contributors : \E s \in d.span : MonthOf[s] = m}}

-----------------------------------------------------------------------------
(* Merging a batch over the file on disk.                                  *)

\* An incoming contributor replaces an older one only if both are the same
\* provider's and cover exactly the same interval.
MayMergeContributors(existing, incoming) ==
  \A c \in existing, d \in incoming : Overlaps(c, d) => c = d

MergedContributorsForget(existing, incoming) ==
  IF incoming = {} THEN existing ELSE incoming
MergedContributors(existing, incoming) == existing \cup incoming

\* Without contributors a stored row is never replaced by another value.
ConflictsIgnored(existing, batch, incoming) == TRUE
MayMergeRows(existing, batch, incoming) ==
  incoming = {} =>
    \A s \in Held(existing) \cap Held(batch) : existing[s] = batch[s]

\* With contributors, the rows inside their intervals are replaced as a set.
MergedRowsDropOthers(existing, batch, incoming) ==
  IF incoming # {} THEN batch
  ELSE [s \in Slots |-> IF batch[s] # None THEN batch[s] ELSE existing[s]]
MergedRows(existing, batch, incoming) ==
  [s \in Slots |-> IF s \in Spans(incoming) \/ batch[s] # None
                   THEN batch[s] ELSE existing[s]]

MergedFile(existing, v, batch, incoming) ==
  [prov |-> v,
   rows |-> MergedRows(existing.rows, batch, incoming),
   contributors |-> MergedContributors(existing.contributors, incoming)]

\* prepare_family_month: a month file of another provider is only extended
\* where both sides name their contributors.
SourcesAdmit(family, existing, v, incoming) ==
  \/ existing = NoFile
  \/ existing.prov = v
  \/ family = "oi" /\ incoming # {} /\ existing.contributors # {}

MayPrepare(family, m, existing, v, batch, incoming) ==
  /\ SourcesAdmit(family, existing, v, incoming)
  /\ MayMergeContributors(existing.contributors, incoming)
  /\ MayMergeRows(existing.rows, batch, incoming)
  /\ ValidArtifact(family, m, MergedFile(existing, v, batch, incoming))

\* prepare_open_interest_revision_month: the provider of the file on disk
\* does not matter, its contributors do.
MayPrepareUnmerged(m, existing, v, batch, incoming) == OrderedDisjoint(incoming)
MayPrepareRevision(m, existing, v, batch, incoming) ==
  /\ MayMergeContributors(existing.contributors, incoming)
  /\ ValidArtifact("oi", m, MergedFile(existing, v, batch, incoming))

-----------------------------------------------------------------------------
(* Replies.  A raw reply is whatever the provider object returns; only one *)
(* its runtime accepts becomes an observation.                             *)

RawReply == [rows : Rows, observed : SUBSET Slots]

\* Funding: windows inside the request, cut at the instant evidence was
\* asked for; every row inside the request and a window.
FundingWindows(raw, evidence) == {s \in raw.observed : s < evidence}
ValidFundingReply(raw, asked, evidence) ==
  /\ raw.observed \subseteq asked
  /\ Held(raw.rows) \subseteq FundingWindows(raw, evidence)

\* Reference bars: aligned windows inside the request, rows final and
\* inside a window.
ValidReferenceReply(raw, asked, evidence) ==
  /\ raw.observed \subseteq asked
  /\ \A s \in Held(raw.rows) : s \in raw.observed /\ s < evidence

\* Open interest: every row inside a window and a contributor, every window
\* covered by contributors, those inside the request.
ValidOpenInterestReply(raw, asked, contributors) ==
  /\ raw.observed \subseteq asked
  /\ Held(raw.rows) \subseteq raw.observed
  /\ raw.observed \subseteq Spans(contributors)
  /\ Spans(contributors) \subseteq asked

\* A provider that names no contributors owns each of its windows; the CCXT
\* history has one window per sample.
WindowContributors(v, observed) == {[prov |-> v, span |-> {s}] : s \in observed}

\* The archive answers for whole days, of which some are not published; a
\* published day is certified as a whole, and only its samples are observed.
WholeDays(asked) == \E days \in SUBSET Days : asked = UNION days
PublishedDays(asked) == SUBSET {d \in Days : d \subseteq asked}
DayContributors(v, days) == {[prov |-> v, span |-> d] : d \in days}

-----------------------------------------------------------------------------
(* Coverage.                                                               *)

Coverage == [Slots -> {"missing", "available", "unavailable"}]
Nothing  == [s \in Slots |-> "missing"]

\* Funding events are irregular: an observed span is covered whether or not
\* there was an event in it.
FundingSegments(observed) ==
  [s \in Slots |-> IF s \in observed THEN "available" ELSE "missing"]

\* On a grid an observed slot is available if it has a row; slots that are
\* not final stay missing.
GridSegments(present, observed, evidence) ==
  [s \in Slots |-> IF s \notin observed \/ s >= evidence THEN "missing"
                   ELSE IF s \in present THEN "available" ELSE "unavailable"]

\* Overlapping segments: available wins, and otherwise the later one.
ApplyCoverage(old, new) ==
  [s \in Slots |-> IF "available" \in {old[s], new[s]} THEN "available"
                   ELSE IF new[s] = "missing" THEN old[s] ELSE new[s]]

\* replace_coverage_range: inside the interval only the new facts remain.
ReplaceOnlyProven(old, new, span) == ApplyCoverage(old, new)
ReplaceCoverage(old, new, span) ==
  [s \in Slots |-> IF s \in span THEN new[s] ELSE old[s]]

-----------------------------------------------------------------------------
(* The catalog's facts about one dataset.                                  *)

CatalogState ==
  [exists   : BOOLEAN,
   coverage : Coverage,
   index    : [Months -> File],
   lineage  : Providers \cup {None},
   owners   : SUBSET Contributor]  \* source_ownership

NoFiles   == [m \in Months |-> NoFile]
NoCatalog == [exists |-> FALSE, coverage |-> Nothing, index |-> NoFiles,
              lineage |-> None, owners |-> {}]

\* validate_provider_request: no part of the range is owned by another.
RequestAdmitted(owners, range, v) ==
  \A o \in owners : o.span \cap range # {} => o.prov = v

\* validate_source_ownership: contributors keep to recorded intervals.
OwnershipAdmits(owners, contributors) ==
  \A o \in owners, c \in contributors : Overlaps(o, c) => o = c

\* bind_source_lineage accepts the first provider and then only that one.
LineageAdmitsAll(bound, v) == TRUE
LineageAdmits(bound, v) == bound \in {None, v}

IndexedFiles(index, prepared) ==
  [m \in Months |-> IF prepared[m] # NoFile THEN prepared[m] ELSE index[m]]

AllContributors(files) == UNION {files[m].contributors : m \in Months}

-----------------------------------------------------------------------------
(* Rebuild: what canonical files alone prove.                              *)

Stored(files) == {m \in Months : files[m] # NoFile}

\* Either all files name contributors, which then must not overlap, or none
\* does and they are all of one provider.
MayRebuild(files) ==
  IF \E m \in Stored(files) : files[m].contributors # {}
  THEN /\ \A m \in Stored(files) : files[m].contributors # {}
       /\ OrderedDisjoint(AllContributors(files))
  ELSE \A m, n \in Stored(files) : files[m].prov = files[n].prov

RebuiltLineage(files) ==
  IF Stored(files) = {} \/ AllContributors(files) # {} THEN None
  ELSE files[CHOOSE m \in Stored(files) : TRUE].prov

\* Rows prove availability, except that funding rows prove no span.
RebuiltCoverage(family, files) ==
  [s \in Slots |-> IF family # "funding" /\ files[MonthOf[s]].rows[s] # None
                   THEN "available" ELSE "missing"]

RebuiltCatalog(family, files) ==
  [exists   |-> TRUE,
   coverage |-> RebuiltCoverage(family, files),
   index    |-> files,
   lineage  |-> RebuiltLineage(files),
   owners   |-> AllContributors(files)]
=============================================================================
