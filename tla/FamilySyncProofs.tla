-------------------------- MODULE FamilySyncProofs --------------------------
(***************************************************************************)
(* The safety theorems of a funding, reference or open-interest dataset.   *)
(* FamilyInv is inductive: each action keeps it, by what its checks admit  *)
(* and by what the merged file it prepares has of the file it found.       *)
(***************************************************************************)
EXTENDS FamilyInvariant, TLAPS

-----------------------------------------------------------------------------
(* What the operators of FamilyFacts return and preserve.                  *)

LEMMA NoFileFacts ==
  /\ NoFile \in File
  /\ NoFiles \in [Months -> File]
  /\ Held(NoRows) = {}
  /\ \A m \in Months : NoFiles[m] = NoFile
  /\ NoFile.contributors = {} /\ NoFile.rows = NoRows /\ NoFile.prov = None
BY DEF NoFile, File, NoFiles, NoRows, Rows, Held

LEMMA SplitType ==
  ASSUME NEW rows \in Rows, NEW m
  PROVE  /\ SplitByMonth(rows, m) \in Rows
         /\ \A s \in Slots : SplitByMonth(rows, m)[s] =
              IF MonthOf[s] = m THEN rows[s] ELSE None
BY DEF SplitByMonth, Rows

LEMMA PiecesFacts ==
  ASSUME NEW C \in SUBSET Contributor, NEW m \in Months
  PROVE  /\ MonthSources(C, m) \in SUBSET Contributor
         /\ \A p \in MonthSources(C, m) :
              /\ \A s \in Slots : s \in p.span => MonthOf[s] = m
              /\ \E c \in C : /\ p.prov = c.prov
                              /\ \A s \in Slots : s \in p.span <=> s \in c.span /\ MonthOf[s] = m
         /\ \A c \in C, s \in Slots :
              s \in c.span /\ MonthOf[s] = m =>
                \E p \in MonthSources(C, m) : s \in p.span
<1> DEFINE Piece(c) == [c EXCEPT !.span = {s \in c.span : MonthOf[s] = m}]
<1>1. ASSUME NEW c \in C, NEW t \in c.span, MonthOf[t] = m
      PROVE  /\ Piece(c) \in Contributor
             /\ Piece(c).prov = c.prov
             /\ Piece(c).span = {s \in c.span : MonthOf[s] = m}
  BY <1>1 DEF Contributor
<1>2. \A c \in C : c.span \in SUBSET Slots
  BY DEF Contributor
<1>3. MonthSources(C, m) = {Piece(c) : c \in {d \in C : \E s \in d.span : MonthOf[s] = m}}
  BY DEF MonthSources
<1> HIDE DEF Piece
<1>4. \A p \in MonthSources(C, m) :
        \E c \in C : p = Piece(c) /\ \E s \in c.span : MonthOf[s] = m
  BY <1>3
<1>5. \A c \in C : (\E s \in c.span : MonthOf[s] = m) => Piece(c) \in MonthSources(C, m)
  BY <1>3
<1>6. \A p \in MonthSources(C, m) :
        /\ p \in Contributor
        /\ \A s \in Slots : s \in p.span => MonthOf[s] = m
        /\ \E c \in C : /\ p.prov = c.prov
                        /\ \A s \in Slots : s \in p.span <=> s \in c.span /\ MonthOf[s] = m
  <2> TAKE p \in MonthSources(C, m)
  <2>1. PICK c \in C : p = Piece(c) /\ \E s \in c.span : MonthOf[s] = m
    BY <1>4
  <2> QED BY <2>1, <1>1
<1>7. \A c \in C, s \in Slots :
        s \in c.span /\ MonthOf[s] = m => \E p \in MonthSources(C, m) : s \in p.span
  <2> TAKE c \in C, s \in Slots
  <2> HAVE s \in c.span /\ MonthOf[s] = m
  <2>1. Piece(c) \in MonthSources(C, m) /\ s \in Piece(c).span
    BY <1>1, <1>2, <1>5
  <2> QED BY <2>1
<1> QED BY <1>6, <1>7

LEMMA SpansMember ==
  ASSUME NEW C, NEW s
  PROVE  s \in Spans(C) <=> \E c \in C : s \in c.span
BY DEF Spans

LEMMA PiecesSpan ==
  ASSUME NEW C \in SUBSET Contributor, NEW s \in Slots
  PROVE  /\ s \in Spans(C) <=> s \in Spans(MonthSources(C, MonthOf[s]))
         /\ \A m \in Months : s \in Spans(MonthSources(C, m)) => s \in Spans(C) /\ MonthOf[s] = m
<1>1. MonthOf[s] \in Months
  BY FamilyAssumption
<1> QED BY <1>1, PiecesFacts, SpansMember

LEMMA MergedType ==
  ASSUME NEW f \in File, NEW v \in Providers, NEW b \in Rows,
         NEW inc \in SUBSET Contributor
  PROVE  /\ MergedFile(f, v, b, inc) \in File
         /\ MergedFile(f, v, b, inc) # NoFile
         /\ MergedFile(f, v, b, inc).prov = v
         /\ MergedFile(f, v, b, inc).contributors = f.contributors \cup inc
         /\ \A s \in Slots : MergedFile(f, v, b, inc).rows[s] =
              IF s \in Spans(inc) \/ b[s] # None THEN b[s] ELSE f.rows[s]
<1>1. MergedRows(f.rows, b, inc) \in Rows
  BY DEF MergedRows, Rows, File
<1>2. f.contributors \cup inc \in SUBSET Contributor
  BY DEF File
<1>3. v # None
  BY FamilyAssumption
<1> QED BY <1>1, <1>2, <1>3 DEF MergedFile, MergedContributors, MergedRows, File, NoFile

\* A merge over a sound file that a preparation accepts is sound.
LEMMA MergedSound ==
  ASSUME NEW fam, NEW m \in Months, NEW f \in File, NEW v \in Providers,
         NEW b \in Rows, NEW inc \in SUBSET Contributor,
         SoundFile(fam, m, f),
         ValidArtifact(fam, m, MergedFile(f, v, b, inc)),
         \A c \in inc, s \in Slots : s \in c.span => MonthOf[s] = m,
         IF fam = "oi" THEN Held(b) \subseteq Spans(inc) ELSE inc = {}
  PROVE  SoundFile(fam, m, MergedFile(f, v, b, inc))
<1> DEFINE g == MergedFile(f, v, b, inc)
<1>1. /\ g.prov = v
      /\ g.contributors = f.contributors \cup inc
      /\ \A s \in Slots : g.rows[s] =
              IF s \in Spans(inc) \/ b[s] # None THEN b[s] ELSE f.rows[s]
  BY MergedType
<1> HIDE DEF g
<1>2. ASSUME fam = "oi" PROVE Held(g.rows) \subseteq Spans(g.contributors)
  <2> SUFFICES ASSUME NEW s \in Slots, g.rows[s] # None
               PROVE  s \in Spans(g.contributors)
    BY DEF Held
  <2>2. s \in Spans(inc) \/ s \in Spans(f.contributors)
    BY <1>1, <1>2 DEF SoundFile, Held
  <2> QED BY <2>2, <1>1, SpansMember
<1>3. fam # "oi" => g.contributors = {}
  BY <1>1 DEF SoundFile
<1>4. ValidArtifact(fam, m, g)
  BY DEF g
<1>5. \A c \in g.contributors, s \in Slots : s \in c.span => MonthOf[s] = m
  BY <1>1 DEF SoundFile
<1>6. OrderedDisjoint(g.contributors)
  BY <1>4 DEF ValidArtifact
<1>7. SoundFile(fam, m, g)
  BY <1>1, <1>2, <1>3, <1>4, <1>5, <1>6 DEF SoundFile
<1> QED BY <1>7 DEF g

-----------------------------------------------------------------------------
(* Every step keeps the invariant.                                         *)

LEMMA EmptySound ==
  ASSUME NEW fam, NEW m \in Months PROVE SoundFile(fam, m, NoFile)
BY NoFileFacts DEF SoundFile, OrderedDisjoint

LEMMA EmptyStore ==
  /\ AllContributors(NoFiles) = {}
  /\ Stored(NoFiles) = {}
  /\ NoCatalog \in CatalogState
  /\ NoCatalog.owners = {} /\ NoCatalog.index = NoFiles /\ NoCatalog.exists = FALSE
  /\ \A s \in Slots : NoCatalog.coverage[s] = "missing"
BY NoFileFacts DEF AllContributors, Stored, NoCatalog, CatalogState, Coverage, Nothing

LEMMA IdleFacts ==
  /\ Idle.pc = "idle" /\ Idle.prov = None /\ Idle.asked = {} /\ Idle.rows = NoRows
  /\ Idle.observed = {} /\ Idle.segments = Nothing /\ Idle.contributors = {}
  /\ Idle.prepared = NoFiles /\ Idle.published = {}
  /\ Idle.asked \subseteq Slots /\ Idle.rows \in Rows /\ Nothing \in Coverage
  /\ \A s \in Slots : Nothing[s] = "missing" /\ NoRows[s] = None
BY DEF Idle, NoRows, Rows, Nothing, Coverage

\* The parts of the invariant that an idle call fulfils.
LEMMA IdleHolds ==
  ASSUME call' = Idle
  PROVE  /\ CallPhase' /\ ReplySound' /\ PreparedMerges'
         /\ PreparedMonths' = {}
         /\ \A m \in Months : SoundFile(family', m, call'.prepared[m])
<1>1. PreparedMonths' = {}
  BY IdleFacts, NoFileFacts DEF PreparedMonths
<1>2. CallPhase'
  BY <1>1, IdleFacts DEF CallPhase, At
<1>3. ReplySound'
  <2>1. Held(NoRows) = {} /\ Spans({}) = {}
    BY NoFileFacts DEF Spans
  <2> QED BY <2>1, IdleFacts DEF ReplySound, SoundReply, Archival
<1>4. PreparedMerges'
  BY <1>1, IdleFacts DEF PreparedMerges
<1>5. \A m \in Months : SoundFile(family', m, call'.prepared[m])
  BY IdleFacts, NoFileFacts, EmptySound
<1> QED BY <1>1, <1>2, <1>3, <1>4, <1>5

LEMMA InitHolds == Init => FamilyInv
<1> SUFFICES ASSUME Init PROVE FamilyInv
  OBVIOUS
<1> USE DEF Init
<1>1. FamilyTypeOK
  <2>1. family \in Family
    BY RequestsAssumption
  <2> QED BY <2>1, NoFileFacts, EmptyStore, IdleFacts DEF FamilyTypeOK, Idle
<1>2. PreparedMonths = {}
  BY IdleFacts, NoFileFacts DEF PreparedMonths
<1>3. FilesSound
  BY EmptySound, EmptyStore, NoFileFacts, IdleFacts DEF FilesSound
<1>4. OwnersStored /\ IndexCurrent /\ OneLineage
  BY <1>2, EmptyStore, IdleFacts DEF OwnersStored, IndexCurrent, OneLineage, At
<1>5. CallPhase /\ ReplySound /\ PreparedMerges
  <2>1. Held(NoRows) = {} /\ Spans({}) = {}
    BY NoFileFacts DEF Spans
  <2> QED BY <1>2, <2>1, IdleFacts
          DEF CallPhase, ReplySound, SoundReply, PreparedMerges, At, Archival
<1>6. AvailableBacked /\ BroughtIsKept
  BY EmptyStore, NoFileFacts DEF AvailableBacked, BroughtIsKept
<1> QED BY <1>1, <1>3, <1>4, <1>5, <1>6 DEF FamilyInv

\* A step that changes of the catalog at most whether it exists leaves what
\* relates the catalog to the history alone.
LEMMA HistoryKept ==
  ASSUME FamilyInv, UNCHANGED <<family, brought, torn>>,
         catalog'.coverage = catalog.coverage, catalog'.index = catalog.index
  PROVE  AvailableBacked' /\ BroughtIsKept'
BY DEF FamilyInv, AvailableBacked, BroughtIsKept

LEMMA PlanKeeps ==
  ASSUME FamilyInv, NEW v \in Providers, NEW asked \in SUBSET Slots, Plan(v, asked)
  PROVE  FamilyInv'
<1> USE DEF FamilyInv
<1>1. /\ UNCHANGED <<family, disk, brought, torn>>
      /\ At("idle") /\ CatalogOpens /\ call = Idle
      /\ catalog \in CatalogState
  BY DEF Plan, FamilyTypeOK, CallPhase
<1>2. /\ catalog'.coverage = catalog.coverage /\ catalog'.index = catalog.index
      /\ catalog'.lineage = catalog.lineage /\ catalog'.owners = catalog.owners
      /\ catalog'.exists /\ catalog' \in CatalogState
  BY <1>1 DEF Plan, CatalogState
<1>3. /\ call'.pc = "planned" /\ call'.prov = v /\ call'.asked = asked
      /\ call'.rows = NoRows /\ call'.segments = Nothing
      /\ call'.contributors = {} /\ call'.observed = {}
      /\ call'.prepared = NoFiles /\ call'.published = {}
  BY DEF Plan, Idle
<1>4. FamilyTypeOK'
  <2>1. call' \in [pc : {"idle", "planned", "observed", "prepared", "publishing"},
               prov : Providers \cup {None}, asked : SUBSET Slots, rows : Rows,
               observed : SUBSET Slots, segments : Coverage,
               contributors : SUBSET Contributor,
               prepared : [Months -> File], published : SUBSET Months]
    BY IdleFacts, NoFileFacts DEF Plan, Idle
  <2> QED BY <1>1, <1>2, <2>1 DEF FamilyTypeOK
<1>5. PreparedMonths' = {}
  BY <1>3, NoFileFacts DEF PreparedMonths
<1>6. FilesSound'
  BY <1>1, <1>2, <1>3, EmptySound, NoFileFacts DEF FilesSound
<1>7. CallPhase' /\ ReplySound' /\ PreparedMerges'
  <2>1. Held(NoRows) = {} /\ Spans({}) = {}
    BY NoFileFacts DEF Spans
  <2> QED BY <1>3, <1>5, <2>1, IdleFacts
          DEF CallPhase, ReplySound, SoundReply, PreparedMerges, At, Archival
<1>8. IndexCurrent'
  <2>1. ASSUME ~torn, NEW m \in Months PROVE catalog.index[m] = disk[m]
    <3>1. CASE catalog.exists
      BY <3>1, <2>1, <1>1, IdleFacts DEF IndexCurrent
    <3>2. CASE ~catalog.exists
      BY <3>2, <1>1, EmptyStore, NoFileFacts DEF IndexCurrent, CatalogOpens, Stored
    <3> QED BY <3>1, <3>2
  <2> QED BY <2>1, <1>1, <1>2, <1>5 DEF IndexCurrent
<1>9. OwnersStored' /\ OneLineage'
  BY <1>1, <1>2, <1>3 DEF OwnersStored, OneLineage, At
<1> QED BY <1>1, <1>2, <1>4, <1>6, <1>7, <1>8, <1>9, HistoryKept

\* What a validated reply gives each of the four ways of observing.
LEMMA RepliesSound ==
  ASSUME FamilyInv, ObserveNext
  PROVE  \E rows \in Rows, seen \in SUBSET Slots, segs \in Coverage,
            cs \in SUBSET Contributor :
           /\ At("planned") /\ Observed(rows, seen, segs, cs)
           /\ SoundReply(rows, segs, cs)
<1> USE DEF ObserveNext, SoundReply
<1>0. call.prov \in Providers /\ At("planned") /\ call.asked \subseteq Slots
  BY DEF FamilyInv, CallPhase, At, FamilyTypeOK
<1>1. PICK raw \in Replies(call.asked) :
        \/ \E e \in Instants : ObserveFunding(raw, e) \/ ObserveReference(raw, e)
        \/ ObserveOpenInterest(raw)
        \/ \E days \in SUBSET Days : ObserveArchive(raw, days)
  OBVIOUS
<1>2. raw.rows \in Rows /\ raw.observed \in SUBSET Slots
  BY DEF Replies, Rows
<1>3. Spans({}) = {}
  BY DEF Spans
<1>4. Held(raw.rows) \subseteq Slots /\ \A s \in Slots : s \in Held(raw.rows) <=> raw.rows[s] # None
  BY DEF Held
<1>5. ASSUME NEW e \in Instants, ObserveFunding(raw, e)
      PROVE  \E rows \in Rows, seen \in SUBSET Slots, segs \in Coverage,
                cs \in SUBSET Contributor :
           /\ At("planned") /\ Observed(rows, seen, segs, cs)
           /\ SoundReply(rows, segs, cs)
  <2> DEFINE seen == FundingWindows(raw, e)
             segs == FundingSegments(seen)
  <2>1. seen \in SUBSET Slots /\ segs \in Coverage
    BY <1>2 DEF FundingWindows, FundingSegments, Coverage
  <2>2. /\ family = "funding" /\ Observed(raw.rows, seen, segs, {})
        /\ Held(raw.rows) \subseteq seen
    BY <1>5 DEF ObserveFunding, ValidFundingReply
  <2>3. \A s \in Held(raw.rows) : segs[s] = "available"
    BY <2>2, <1>4 DEF FundingSegments
  <2> HIDE DEF seen, segs
  <2> QED BY <1>0, <1>2, <1>3, <2>1, <2>2, <2>3
<1>6. ASSUME NEW e \in Instants, ObserveReference(raw, e)
      PROVE  \E rows \in Rows, seen \in SUBSET Slots, segs \in Coverage,
                cs \in SUBSET Contributor :
           /\ At("planned") /\ Observed(rows, seen, segs, cs)
           /\ SoundReply(rows, segs, cs)
  <2> DEFINE segs == GridSegments(Held(raw.rows), raw.observed, e)
  <2>1. segs \in Coverage
    BY DEF GridSegments, Coverage
  <2>2. /\ family = "reference" /\ Observed(raw.rows, raw.observed, segs, {})
        /\ \A s \in Held(raw.rows) : s \in raw.observed /\ s < e
    BY <1>6 DEF ObserveReference, ValidReferenceReply
  <2>3. \A s \in Held(raw.rows) : ~(s >= e)
    <3>1. Slots \subseteq Nat
      BY FamilyAssumption
    <3>2. e \in Nat
      <4>1. e \in Slots \/ \E t \in Slots : e = t + 1
        BY DEF Instants
      <4>2. \A t \in Slots : t \in Nat /\ t + 1 \in Nat
        BY <3>1
      <4> QED BY <4>1, <4>2
    <3> TAKE s \in Held(raw.rows)
    <3>3. s \in Nat /\ s < e
      BY <2>2, <1>4, <3>1
    <3> QED BY <3>2, <3>3
  <2>4. /\ \A s \in Held(raw.rows) : segs[s] = "available"
        /\ \A s \in Slots : segs[s] = "available" => s \in Held(raw.rows)
    BY <2>2, <2>3, <1>4 DEF GridSegments
  <2> HIDE DEF segs
  <2> QED BY <1>0, <1>2, <1>3, <2>1, <2>2, <2>4
<1>7. /\ OpenInterestSegments(raw) \in Coverage
      /\ raw.observed = Held(raw.rows) =>
           \A s \in Slots : OpenInterestSegments(raw)[s] = "available" <=> s \in Held(raw.rows)
  BY <1>4 DEF OpenInterestSegments, Coverage
<1>8. ASSUME ObserveOpenInterest(raw)
      PROVE  \E rows \in Rows, seen \in SUBSET Slots, segs \in Coverage,
                cs \in SUBSET Contributor :
           /\ At("planned") /\ Observed(rows, seen, segs, cs)
           /\ SoundReply(rows, segs, cs)
  <2> DEFINE cs == WindowContributors(call.prov, raw.observed)
  <2>1. cs \in SUBSET Contributor /\ \A c \in cs : c.prov = call.prov
    <3>1. \A s \in raw.observed : {s} \in (SUBSET Slots) \ {{}}
      BY <1>2
    <3> QED BY <1>0, <3>1 DEF WindowContributors, Contributor
  <2>2. /\ family = "oi" /\ raw.observed = Held(raw.rows)
        /\ Observed(raw.rows, raw.observed, OpenInterestSegments(raw), cs)
    BY <1>8 DEF ObserveOpenInterest
  <2>3. Spans(cs) = Held(raw.rows)
    <3>1. \A s \in raw.observed : \E c \in cs : s \in c.span
      <4> TAKE s \in raw.observed
      <4> DEFINE c == [prov |-> call.prov, span |-> {s}]
      <4>1. c \in cs /\ s \in c.span
        BY DEF WindowContributors
      <4> QED BY <4>1
    <3>2. \A c \in cs : \E s \in raw.observed : c.span = {s}
      BY DEF WindowContributors
    <3> HIDE DEF cs
    <3>3. \A s : s \in Spans(cs) <=> s \in raw.observed
      BY <3>1, <3>2, SpansMember
    <3> QED BY <3>3, <2>2
  <2> HIDE DEF cs
  <2> QED BY <1>0, <1>2, <1>4, <1>7, <2>1, <2>2, <2>3
<1>9. ASSUME NEW days \in SUBSET Days, ObserveArchive(raw, days)
      PROVE  \E rows \in Rows, seen \in SUBSET Slots, segs \in Coverage,
                cs \in SUBSET Contributor :
           /\ At("planned") /\ Observed(rows, seen, segs, cs)
           /\ SoundReply(rows, segs, cs)
  <2> DEFINE cs == DayContributors(call.prov, days)
  <2>1. cs \in SUBSET Contributor /\ \A c \in cs : c.prov = call.prov
    <3>1. \A d \in days : d \in (SUBSET Slots) \ {{}}
      <4> TAKE d \in days
      <4>1. d \in Days
        OBVIOUS
      <4>2. Days \subseteq SUBSET Slots /\ {} \notin Days
        BY FamilyAssumption
      <4> QED BY <4>1, <4>2
    <3> QED BY <1>0, <3>1 DEF DayContributors, Contributor
  <2>2. /\ family = "oi" /\ Archival /\ raw.observed = Held(raw.rows)
        /\ Observed(raw.rows, raw.observed, OpenInterestSegments(raw), cs)
        /\ Held(raw.rows) \subseteq Spans(cs)
    BY <1>9 DEF ObserveArchive, ValidOpenInterestReply
  <2> HIDE DEF cs
  <2> QED BY <1>0, <1>2, <1>4, <1>7, <2>1, <2>2
<1> QED BY <1>1, <1>5, <1>6, <1>8, <1>9

LEMMA ObserveKeeps ==
  ASSUME FamilyInv, ObserveNext PROVE FamilyInv'
<1>1. PICK rows \in Rows, seen \in SUBSET Slots, segs \in Coverage,
           cs \in SUBSET Contributor :
        /\ At("planned") /\ Observed(rows, seen, segs, cs)
        /\ SoundReply(rows, segs, cs)
  BY RepliesSound
<1> USE DEF FamilyInv
<1>2. UNCHANGED <<family, disk, catalog, brought, torn>>
  BY <1>1 DEF Observed
<1>3. FamilyTypeOK'
  BY <1>1, <1>2 DEF Observed, FamilyTypeOK
<1>4. /\ call'.pc = "observed" /\ call'.prov = call.prov
      /\ call'.rows = rows /\ call'.segments = segs /\ call'.contributors = cs
      /\ call'.prepared = call.prepared /\ call'.published = call.published
  BY <1>1 DEF Observed, FamilyTypeOK
<1>5. /\ call.pc = "planned" /\ call.prov \in Providers
      /\ call.prepared = NoFiles /\ call.published = {} /\ catalog.exists
  BY <1>1 DEF At, CallPhase, IndexCurrent
<1>6. PreparedMonths' = {}
  BY <1>4, <1>5, NoFileFacts DEF PreparedMonths
<1>7. FilesSound' /\ OwnersStored' /\ CallPhase'
  BY <1>2, <1>4, <1>5, <1>6 DEF FilesSound, OwnersStored, CallPhase, At
<1>8. ReplySound'
  BY <1>1, <1>2, <1>4 DEF ReplySound, SoundReply, Archival
<1>9. PreparedMerges' /\ IndexCurrent' /\ OneLineage'
  BY <1>2, <1>4, <1>5, <1>6 DEF PreparedMerges, IndexCurrent, OneLineage, At
<1> QED BY <1>2, <1>3, <1>7, <1>8, <1>9, HistoryKept

\* The pieces of a call's contributors, by month.
LEMMA IncomingFacts ==
  ASSUME FamilyTypeOK, NEW m \in Months
  PROVE  /\ Incoming[m] = MonthSources(call.contributors, m)
         /\ Incoming[m] \in SUBSET Contributor
         /\ call.contributors = {} => Incoming[m] = {}
<1>1. Incoming[m] = MonthSources(call.contributors, m)
  BY DEF Incoming
<1>2. call.contributors \in SUBSET Contributor
  BY DEF FamilyTypeOK
<1>3. call.contributors = {} => MonthSources(call.contributors, m) = {}
  BY DEF MonthSources
<1> QED BY <1>1, <1>2, <1>3, PiecesFacts

\* The four ways to prepare merge every month they touch as it is checked.
LEMMA PreparationsMerge ==
  ASSUME FamilyInv,
         PrepareFunding \/ PrepareReference \/ PrepareOpenInterest \/ PrepareRevision
  PROVE  \E months \in SUBSET Months :
           /\ At("observed") /\ Prepare(months, Incoming)
           /\ Touched \subseteq months
           /\ \A m \in months :
                /\ MayMergeContributors(disk[m].contributors, Incoming[m])
                /\ MayMergeRows(disk[m].rows, Batch(m), Incoming[m])
                /\ ValidArtifact(family, m, MergedFile(disk[m], call.prov, Batch(m), Incoming[m]))
<1>0. FamilyTypeOK /\ ReplySound /\ call.rows \in Rows
  BY DEF FamilyInv, FamilyTypeOK
<1>1. Touched \subseteq Months
  BY FamilyAssumption DEF Touched, Held
<1>2. ASSUME family # "oi" PROVE Incoming = [m \in Months |-> {}]
  <2>1. \A m \in Months : Incoming[m] = {}
    BY <1>0, <1>2, IncomingFacts DEF ReplySound, SoundReply
  <2> QED BY <2>1 DEF Incoming
<1>3. CASE PrepareFunding
  BY <1>1, <1>2, <1>3 DEF PrepareFunding, MayPrepare
<1>4. CASE PrepareReference
  BY <1>1, <1>2, <1>4 DEF PrepareReference, MayPrepare
<1>5. CASE PrepareOpenInterest
  BY <1>1, <1>5 DEF PrepareOpenInterest, MayPrepare
<1>6. CASE PrepareRevision
  <2> DEFINE revised == {m \in Months : Incoming[m] # {}}
  <2>1. /\ At("observed") /\ family = "oi" /\ Prepare(revised, Incoming)
        /\ \A m \in revised : MayPrepareRevision(m, disk[m], call.prov, Batch(m), Incoming[m])
    BY <1>6 DEF PrepareRevision
  <2>2. Touched \subseteq revised
    <3> SUFFICES ASSUME NEW s \in Held(call.rows) PROVE MonthOf[s] \in revised
      BY DEF Touched
    <3>1. s \in Slots /\ s \in Spans(call.contributors)
      BY <1>0, <2>1 DEF ReplySound, SoundReply, Held
    <3>2. s \in Spans(MonthSources(call.contributors, MonthOf[s])) /\ MonthOf[s] \in Months
      BY <3>1, <1>0, PiecesSpan, FamilyAssumption DEF FamilyTypeOK
    <3>3. Incoming[MonthOf[s]] # {}
      BY <3>2, <1>0, IncomingFacts, SpansMember
    <3> QED BY <3>2, <3>3
  <2>3. \A m \in revised : MayMergeRows(disk[m].rows, Batch(m), Incoming[m])
    BY DEF MayMergeRows
  <2>4. revised \in SUBSET Months
    OBVIOUS
  <2> HIDE DEF revised
  <2> QED BY <2>1, <2>2, <2>3, <2>4 DEF MayPrepareRevision
<1> QED BY <1>3, <1>4, <1>5, <1>6

LEMMA PrepareKeeps ==
  ASSUME FamilyInv, NEW months \in SUBSET Months,
         At("observed"), Prepare(months, Incoming), Touched \subseteq months,
         \A m \in months :
           /\ MayMergeContributors(disk[m].contributors, Incoming[m])
           /\ MayMergeRows(disk[m].rows, Batch(m), Incoming[m])
           /\ ValidArtifact(family, m, MergedFile(disk[m], call.prov, Batch(m), Incoming[m]))
  PROVE  FamilyInv'
<1> USE DEF FamilyInv
<1>1. UNCHANGED <<family, disk, catalog, brought, torn>>
  BY DEF Prepare
<1>2. /\ call.pc = "observed" /\ call.prov \in Providers /\ call.published = {}
      /\ call.prepared = NoFiles /\ catalog.exists
  BY DEF At, CallPhase, IndexCurrent
<1>3. /\ call'.pc = "prepared" /\ call'.prov = call.prov /\ call'.rows = call.rows
      /\ call'.segments = call.segments /\ call'.contributors = call.contributors
      /\ call'.published = {}
      /\ call'.prepared = [m \in Months |->
            IF m \in months THEN MergedFile(disk[m], call.prov, Batch(m), Incoming[m])
                            ELSE NoFile]
  BY <1>2 DEF Prepare, FamilyTypeOK
<1>4. \A m \in Months : /\ disk[m] \in File
                        /\ Batch(m) \in Rows
                        /\ Incoming[m] \in SUBSET Contributor
                        /\ Incoming[m] = MonthSources(call.contributors, m)
  BY SplitType, IncomingFacts DEF FamilyTypeOK, Batch
<1>5. \A m \in Months : call'.prepared[m] \in File /\ (call'.prepared[m] # NoFile <=> m \in months)
  BY <1>2, <1>3, <1>4, MergedType, NoFileFacts
<1>6. FamilyTypeOK'
  <2>1. call'.prepared \in [Months -> File]
    BY <1>3, <1>5
  <2> QED BY <1>1, <2>1 DEF Prepare, FamilyTypeOK
<1>7. PreparedMonths' = months
  BY <1>5 DEF PreparedMonths
<1>8. \A m \in months : SoundFile(family, m, call'.prepared[m])
  <2> TAKE m \in months
  <2> DEFINE inc == Incoming[m]
             b   == Batch(m)
  <2>0. m \in Months /\ SoundFile(family, m, disk[m])
    BY DEF FilesSound
  <2>1. \A c \in inc, s \in Slots : s \in c.span => MonthOf[s] = m
    <3>1. call.contributors \in SUBSET Contributor /\ inc = MonthSources(call.contributors, m)
      BY <1>4, <2>0 DEF FamilyTypeOK
    <3> HIDE DEF inc
    <3>2. \A p \in MonthSources(call.contributors, m) :
            \A s \in Slots : s \in p.span => MonthOf[s] = m
      BY <3>1, <2>0, PiecesFacts
    <3> QED BY <3>1, <3>2
  <2>2. ASSUME family = "oi" PROVE Held(b) \subseteq Spans(inc)
    <3> SUFFICES ASSUME NEW s \in Slots, b[s] # None PROVE s \in Spans(inc)
      BY DEF Held
    <3>1. MonthOf[s] = m /\ call.rows[s] # None
      BY SplitType DEF Batch, FamilyTypeOK
    <3>2. s \in Spans(call.contributors)
      BY <3>1, <2>2 DEF ReplySound, SoundReply, Held
    <3> QED BY <3>1, <3>2, <1>4, <2>0, PiecesSpan DEF FamilyTypeOK
  <2>3. family # "oi" => inc = {}
    BY <2>0, IncomingFacts DEF ReplySound, SoundReply
  <2>4. ValidArtifact(family, m, MergedFile(disk[m], call.prov, b, inc))
    OBVIOUS
  <2>5. b \in Rows /\ inc \in SUBSET Contributor /\ disk[m] \in File
    BY <1>4, <2>0
  <2> HIDE DEF inc, b
  <2>6. SoundFile(family, m, MergedFile(disk[m], call.prov, b, inc))
    BY <1>2, <2>0, <2>1, <2>2, <2>3, <2>4, <2>5, MergedSound
  <2> QED BY <2>0, <2>6, <1>3 DEF inc, b
<1>9. FilesSound'
  BY <1>1, <1>3, <1>8, EmptySound DEF FilesSound
<1>10. CallPhase' /\ ReplySound' /\ OwnersStored'
  BY <1>1, <1>2, <1>3, <1>7 DEF CallPhase, At, ReplySound, SoundReply, Archival, OwnersStored
<1>11. \A m \in months : MergedOver(call', m, disk[m])
  BY <1>3, <1>4 DEF MergedOver, Batch
<1>12. PreparedMerges'
  BY <1>1, <1>3, <1>7, <1>11 DEF PreparedMerges, Touched
<1>13. IndexCurrent'
  <2>1. ~torn => \A m \in Months : catalog.index[m] = disk[m]
    BY <1>2 DEF IndexCurrent
  <2> QED BY <1>1, <1>2, <1>3, <1>7, <1>11, <2>1 DEF IndexCurrent
<1>14. OneLineage'
  BY <1>1, <1>2, <1>3 DEF OneLineage, At
<1> QED BY <1>1, <1>6, <1>9, <1>10, <1>12, <1>13, <1>14, HistoryKept

LEMMA EnterKeeps == ASSUME FamilyInv, Enter PROVE FamilyInv'
<1> USE DEF FamilyInv
<1>1. /\ UNCHANGED <<family, disk, brought, torn>>
      /\ catalog.exists /\ catalog' = catalog /\ call.pc = "prepared"
  BY DEF Enter, At, IndexCurrent, FamilyTypeOK, CatalogState
<1>2. /\ call'.pc = "publishing" /\ call'.prov = call.prov /\ call'.rows = call.rows
      /\ call'.segments = call.segments /\ call'.contributors = call.contributors
      /\ call'.prepared = call.prepared /\ call'.published = call.published
  BY DEF Enter, FamilyTypeOK
<1>3. FamilyTypeOK'
  BY <1>1 DEF Enter, FamilyTypeOK
<1>4. PreparedMonths' = PreparedMonths /\ Touched' = Touched
  BY <1>2 DEF PreparedMonths, Touched
<1>5. FilesSound' /\ OwnersStored' /\ CallPhase' /\ ReplySound'
  BY <1>1, <1>2, <1>4
     DEF FilesSound, OwnersStored, CallPhase, At, ReplySound, SoundReply, Archival
<1>6. \A m \in Months : \A f : MergedOver(call', m, f) <=> MergedOver(call, m, f)
  BY <1>2 DEF MergedOver
<1>7. PreparedMerges' /\ IndexCurrent' /\ OneLineage'
  <2>1. PreparedMerges'
    BY <1>1, <1>2, <1>4, <1>6 DEF PreparedMerges, PreparedMonths
  <2>2. IndexCurrent'
    BY <1>1, <1>2, <1>4, <1>6 DEF IndexCurrent, PreparedMonths
  <2>3. OneLineage'
    BY <1>1, <1>2 DEF OneLineage, At
  <2> QED BY <2>1, <2>2, <2>3
<1> QED BY <1>1, <1>3, <1>5, <1>7, HistoryKept

\* A merge adds to the contributors of the file it is made over.
LEMMA MergeKeepsContributors ==
  ASSUME FamilyTypeOK, NEW m, NEW f, MergedOver(call, m, f)
  PROVE  f.contributors \subseteq call.prepared[m].contributors
BY DEF MergedOver, MergedFile, MergedContributors

LEMMA PublishKeeps ==
  ASSUME FamilyInv, NEW m \in Months, PublishMonth(m) PROVE FamilyInv'
<1> USE DEF FamilyInv
<1>1. /\ UNCHANGED <<family, catalog, brought, torn>>
      /\ call.pc = "publishing" /\ call.prov \in Providers /\ catalog.exists
      /\ m \in PreparedMonths /\ m \notin call.published
  BY DEF PublishMonth, At, CallPhase, IndexCurrent
<1>2. /\ call'.pc = "publishing" /\ call'.prov = call.prov /\ call'.rows = call.rows
      /\ call'.segments = call.segments /\ call'.contributors = call.contributors
      /\ call'.prepared = call.prepared /\ call'.published = call.published \cup {m}
  BY <1>1 DEF PublishMonth, FamilyTypeOK
<1>3. /\ disk' \in [Months -> File] /\ disk'[m] = call.prepared[m]
      /\ \A n \in Months : n # m => disk'[n] = disk[n]
  BY DEF PublishMonth, FamilyTypeOK
<1>4. \A n \in Months : SoundFile(family, n, disk'[n])
  BY <1>3 DEF FilesSound
<1>5. FamilyTypeOK'
  <2>1. \A n \in Stored(disk') : ValidArtifact(family, n, disk'[n])
    BY <1>4 DEF Stored, SoundFile
  <2> QED BY <1>1, <1>3, <2>1 DEF PublishMonth, FamilyTypeOK
<1>6. PreparedMonths' = PreparedMonths /\ Touched' = Touched
  BY <1>2 DEF PreparedMonths, Touched
<1>7. FilesSound' /\ CallPhase' /\ ReplySound'
  BY <1>1, <1>2, <1>4, <1>6
     DEF FilesSound, CallPhase, At, ReplySound, SoundReply, Archival
<1>8. OwnersStored'
  <2>1. \A n \in Months : disk[n].contributors \subseteq disk'[n].contributors
    <3>1. MergedOver(call, m, disk[m])
      BY <1>1 DEF PreparedMerges
    <3>2. disk[m].contributors \subseteq disk'[m].contributors
      BY <3>1, <1>3, MergeKeepsContributors
    <3> QED BY <1>3, <3>2
  <2>2. \A c \in AllContributors(disk) : c \in AllContributors(disk')
    BY <2>1 DEF AllContributors
  <2> QED BY <1>1, <2>2 DEF OwnersStored
<1>9. \A n \in Months : \A f : MergedOver(call', n, f) <=> MergedOver(call, n, f)
  BY <1>2 DEF MergedOver
<1>10. PreparedMerges'
  BY <1>1, <1>2, <1>3, <1>6, <1>9 DEF PreparedMerges, PreparedMonths
<1>11. IndexCurrent'
  BY <1>1, <1>2, <1>3, <1>6, <1>9 DEF IndexCurrent, PreparedMonths
<1>12. OneLineage'
  BY <1>1, <1>2 DEF OneLineage, At
<1> QED BY <1>1, <1>5, <1>7, <1>8, <1>10, <1>11, <1>12, HistoryKept

LEMMA StopsKeeps == ASSUME FamilyInv, Stops PROVE FamilyInv'
<1> USE DEF FamilyInv
<1>1. /\ UNCHANGED <<family, disk, catalog, brought>>
      /\ ~At("idle") /\ call' = Idle /\ catalog.exists
      /\ torn' = (torn \/ call.published # {})
  BY DEF Stops, IndexCurrent
<1>2. /\ CallPhase' /\ ReplySound' /\ PreparedMerges' /\ PreparedMonths' = {}
      /\ \A m \in Months : SoundFile(family', m, call'.prepared[m])
  BY <1>1, IdleHolds
<1>3. FamilyTypeOK'
  BY <1>1, IdleFacts, NoFileFacts DEF FamilyTypeOK, Idle
<1>4. FilesSound' /\ OwnersStored'
  BY <1>1, <1>2 DEF FilesSound, OwnersStored
<1>5. ~torn' => ~torn /\ call.published = {}
  BY <1>1 DEF FamilyTypeOK
<1>6. IndexCurrent'
  BY <1>1, <1>2, <1>5, IdleFacts DEF IndexCurrent
<1>7. OneLineage'
  <2> SUFFICES ASSUME family # "oi", ~torn'
               PROVE  /\ \A m, n \in Stored(disk) : disk[m].prov = disk[n].prov
                      /\ \A m \in Stored(catalog.index) : catalog.index[m].prov = catalog.lineage
    BY <1>1 DEF OneLineage
  <2>1. \A m \in Months : catalog.index[m] = disk[m]
    BY <1>1, <1>5 DEF IndexCurrent
  <2>2. \A m \in Stored(catalog.index) : catalog.index[m].prov = catalog.lineage
    BY <1>5 DEF OneLineage
  <2> QED BY <2>1, <2>2 DEF Stored
<1>8. AvailableBacked' /\ BroughtIsKept'
  BY <1>1, <1>5 DEF AvailableBacked, BroughtIsKept
<1> QED BY <1>2, <1>3, <1>4, <1>6, <1>7, <1>8

LEMMA LossKeeps == ASSUME FamilyInv, CatalogLost PROVE FamilyInv'
<1> USE DEF FamilyInv
<1>1. /\ UNCHANGED <<family, disk, call, torn>> /\ call = Idle
      /\ catalog' = NoCatalog /\ brought' = NoRows
  BY DEF CatalogLost, CallPhase
<1>2. call' = Idle
  BY <1>1
<1>3. /\ CallPhase' /\ ReplySound' /\ PreparedMerges' /\ PreparedMonths' = {}
      /\ \A m \in Months : SoundFile(family', m, call'.prepared[m])
  BY <1>2, IdleHolds
<1>4. FamilyTypeOK'
  BY <1>1, IdleFacts, NoFileFacts, EmptyStore DEF FamilyTypeOK
<1>5. FilesSound' /\ OwnersStored'
  BY <1>1, <1>3, EmptyStore, EmptySound, NoFileFacts DEF FilesSound, OwnersStored
<1>6. IndexCurrent'
  BY <1>1, <1>3, EmptyStore, IdleFacts DEF IndexCurrent, At
<1>7. OneLineage'
  BY <1>1, EmptyStore, IdleFacts DEF OneLineage, At
<1>8. AvailableBacked' /\ BroughtIsKept'
  BY <1>1, EmptyStore, NoFileFacts DEF AvailableBacked, BroughtIsKept
<1> QED BY <1>3, <1>4, <1>5, <1>6, <1>7, <1>8

\* What a rebuild reads off the files: no more than they hold.
LEMMA RebuiltFacts ==
  ASSUME FamilyTypeOK
  PROVE  LET new == RebuiltCatalog(family, disk)
         IN  /\ new \in CatalogState /\ new.exists /\ new.index = disk
             /\ new.lineage = RebuiltLineage(disk)
             /\ new.owners = AllContributors(disk)
             /\ \A s \in Slots : new.coverage[s] = "available" =>
                                   disk[MonthOf[s]].rows[s] # None
<1> DEFINE cov == RebuiltCoverage(family, disk)
           new == RebuiltCatalog(family, disk)
<1>1. cov \in Coverage /\ \A s \in Slots : cov[s] = "available" =>
                                             disk[MonthOf[s]].rows[s] # None
  BY DEF RebuiltCoverage, Coverage
<1>2. \A m \in Months : disk[m] \in File
  BY DEF FamilyTypeOK
<1>3. RebuiltLineage(disk) \in Providers \cup {None}
  <2>1. CASE Stored(disk) = {} \/ AllContributors(disk) # {}
    BY <2>1 DEF RebuiltLineage
  <2>2. CASE ~(Stored(disk) = {} \/ AllContributors(disk) # {})
    <3>1. PICK m \in Months : m = CHOOSE n \in Stored(disk) : TRUE
      BY <2>2 DEF Stored
    <3> QED BY <2>2, <3>1, <1>2 DEF RebuiltLineage, File
  <2> QED BY <2>1, <2>2
<1>4. AllContributors(disk) \subseteq Contributor
  BY <1>2 DEF AllContributors, File
<1>5. new = [exists |-> TRUE, coverage |-> cov, index |-> disk,
             lineage |-> RebuiltLineage(disk), owners |-> AllContributors(disk)]
  BY DEF RebuiltCatalog
<1>6. disk \in [Months -> File]
  BY DEF FamilyTypeOK
<1> HIDE DEF cov, new
<1>7. /\ new \in CatalogState /\ new.exists /\ new.index = disk
      /\ new.lineage = RebuiltLineage(disk)
      /\ new.owners = AllContributors(disk) /\ new.coverage = cov
  BY <1>1, <1>3, <1>4, <1>5, <1>6 DEF CatalogState
<1> QED BY <1>1, <1>7 DEF new

LEMMA RebuildKeeps == ASSUME FamilyInv, Rebuild PROVE FamilyInv'
<1> USE DEF FamilyInv
<1>1. /\ UNCHANGED <<family, disk, call>> /\ call.pc # "publishing"
      /\ MayRebuild(disk) /\ torn' = FALSE /\ brought' = NoRows
  BY DEF Rebuild, At
<1>2. /\ catalog' \in CatalogState /\ catalog'.exists /\ catalog'.index = disk
      /\ catalog'.lineage = RebuiltLineage(disk)
      /\ catalog'.owners = AllContributors(disk)
      /\ \A s \in Slots : catalog'.coverage[s] = "available" =>
                            disk[MonthOf[s]].rows[s] # None
  BY RebuiltFacts DEF Rebuild
<1>3. FamilyTypeOK'
  BY <1>1, <1>2, IdleFacts DEF FamilyTypeOK
<1>4. FilesSound' /\ OwnersStored' /\ CallPhase' /\ ReplySound' /\ PreparedMerges'
  BY <1>1, <1>2 DEF FilesSound, OwnersStored, CallPhase, At, PreparedMonths,
     ReplySound, SoundReply, Archival, PreparedMerges, Touched
<1>5. call.published = {}
  BY <1>1 DEF CallPhase, At
<1>6. IndexCurrent'
  BY <1>1, <1>2, <1>5 DEF IndexCurrent, PreparedMerges, PreparedMonths
<1>7. OneLineage'
  <2> SUFFICES ASSUME family # "oi"
               PROVE  /\ \A m, n \in Stored(disk) : disk[m].prov = disk[n].prov
                      /\ \A m \in Stored(disk) : disk[m].prov = catalog'.lineage
    BY <1>1, <1>2 DEF OneLineage
  <2>1. \A m \in Months : disk[m].contributors = {}
    BY DEF FilesSound, SoundFile
  <2>2. \A m, n \in Stored(disk) : disk[m].prov = disk[n].prov
    BY <1>1, <2>1 DEF MayRebuild, Stored
  <2>3. AllContributors(disk) = {}
    BY <2>1 DEF AllContributors
  <2>4. Stored(disk) # {} => \E m \in Stored(disk) : RebuiltLineage(disk) = disk[m].prov
    BY <2>3 DEF RebuiltLineage
  <2> QED BY <1>2, <2>2, <2>4
<1>8. AvailableBacked' /\ BroughtIsKept'
  <2>1. \A s \in Slots : MonthOf[s] \in Months
    BY FamilyAssumption
  <2>2. ASSUME family = "oi", NEW s \in Slots, disk[MonthOf[s]].rows[s] # None
        PROVE  s \in Spans(disk[MonthOf[s]].contributors)
    BY <2>1, <2>2 DEF FilesSound, SoundFile, Held
  <2>3. Held(brought') = {}
    BY <1>1, NoFileFacts
  <2> QED BY <1>1, <1>2, <2>2, <2>3 DEF AvailableBacked, BroughtIsKept
<1> QED BY <1>3, <1>4, <1>6, <1>7, <1>8

\* The three commits as one: what is reported becomes coverage, and inside
\* the days a revision certifies nothing else remains.
Covers(coverage, revised) ==
  /\ coverage \in Coverage
  /\ \A s \in Slots :
       /\ coverage[s] = "available" =>
            \/ call.segments[s] = "available"
            \/ catalog.coverage[s] = "available" /\ s \notin revised
       /\ call.segments[s] = "available" => coverage[s] = "available"
       /\ catalog.coverage[s] = "available" /\ s \notin revised =>
            coverage[s] = "available"

LEMMA CommitKinds ==
  ASSUME FamilyInv, CommitNext
  PROVE  \E coverage, lineage, revised :
           /\ Commit(coverage, lineage, revised)
           /\ Covers(coverage, revised)
           /\ lineage \in Providers \cup {None}
           /\ family # "oi" =>
                /\ revised = {} /\ catalog.lineage \in {None, lineage}
                /\ PreparedMonths # {} => lineage = call.prov
           /\ family = "oi" => revised = IF Archival THEN Spans(call.contributors) ELSE {}
<1> USE DEF FamilyInv
<1>1. /\ call.segments \in Coverage /\ catalog.coverage \in Coverage
      /\ catalog.lineage \in Providers \cup {None} /\ call.prov \in Providers \cup {None}
  BY DEF FamilyTypeOK, CatalogState
<1>2. Covers(ApplyCoverage(catalog.coverage, call.segments), {})
  BY <1>1 DEF Covers, ApplyCoverage, Coverage
<1>3. BoundLineage \in Providers \cup {None}
  BY <1>1 DEF BoundLineage
<1>4. CASE CommitFunding
  BY <1>1, <1>2, <1>3, <1>4 DEF CommitFunding, LineageAdmits, BoundLineage
<1>5. CASE CommitReference
  BY <1>1, <1>2, <1>3, <1>5 DEF CommitReference, LineageAdmits, BoundLineage
<1>6. CASE CommitOpenInterest /\ Archival
  <2>1. \A s \in Slots \ Spans(call.contributors) : call.segments[s] = "available" =>
          FALSE
    <3>1. family = "oi"
      BY <1>6 DEF CommitOpenInterest
    <3> QED BY <3>1 DEF ReplySound, SoundReply
  <2>2. Covers(ReplaceCoverage(catalog.coverage, call.segments, Spans(call.contributors)),
               Spans(call.contributors))
    BY <1>1, <2>1 DEF Covers, ReplaceCoverage, Coverage
  <2> QED BY <1>1, <1>6, <2>2 DEF CommitOpenInterest
<1>7. CASE CommitOpenInterest /\ ~Archival
  BY <1>1, <1>2, <1>7 DEF CommitOpenInterest
<1> QED BY <1>4, <1>5, <1>6, <1>7 DEF CommitNext

\* A merge the preparation accepted keeps the rows the batch does not speak
\* of, and takes the batch's where it does.
LEMMA MergeKeepsRows ==
  ASSUME FamilyInv, call.prov \in Providers, NEW f \in File,
         NEW s \in Slots, MonthOf[s] \in PreparedMonths, MergedOver(call, MonthOf[s], f)
  PROVE  /\ call.rows[s] # None => call.prepared[MonthOf[s]].rows[s] = call.rows[s]
         /\ call.rows[s] = None /\ s \notin Spans(call.contributors) =>
              call.prepared[MonthOf[s]].rows[s] = f.rows[s]
         /\ family # "oi" /\ f.rows[s] # None =>
              call.prepared[MonthOf[s]].rows[s] = f.rows[s]
<1> DEFINE m   == MonthOf[s]
           b   == SplitByMonth(call.rows, m)
           inc == MonthSources(call.contributors, m)
<1>1. /\ m \in Months /\ call.rows \in Rows /\ call.contributors \in SUBSET Contributor
      /\ ReplySound
  BY FamilyAssumption DEF FamilyInv, FamilyTypeOK
<1>2. b \in Rows /\ b[s] = call.rows[s]
  BY <1>1, SplitType
<1>3. inc \in SUBSET Contributor
  BY <1>1, PiecesFacts
<1>4. s \in Spans(inc) <=> s \in Spans(call.contributors)
  BY <1>1, PiecesSpan
<1>5. call.prepared[m] = MergedFile(f, call.prov, b, inc) /\ MayMergeRows(f.rows, b, inc)
  BY DEF MergedOver
<1>6. family # "oi" => call.contributors = {} /\ inc = {}
  BY <1>1 DEF ReplySound, SoundReply, MonthSources
<1>7. Spans({}) = {}
  BY DEF Spans
<1> HIDE DEF b, inc
<1>8. call.prepared[m].rows[s] = IF s \in Spans(inc) \/ b[s] # None THEN b[s] ELSE f.rows[s]
  BY <1>2, <1>3, <1>5, MergedType
<1>9. ASSUME family # "oi", f.rows[s] # None, b[s] # None PROVE b[s] = f.rows[s]
  BY <1>5, <1>6, <1>9 DEF MayMergeRows, Held
<1> QED BY <1>2, <1>4, <1>6, <1>7, <1>8, <1>9

LEMMA CommitKeeps ==
  ASSUME FamilyInv, NEW coverage, NEW lineage, NEW revised,
         Commit(coverage, lineage, revised), Covers(coverage, revised),
         lineage \in Providers \cup {None},
         family # "oi" => /\ revised = {} /\ catalog.lineage \in {None, lineage}
                          /\ PreparedMonths # {} => lineage = call.prov,
         family = "oi" => revised = IF Archival THEN Spans(call.contributors) ELSE {}
  PROVE  FamilyInv'
<1> USE DEF FamilyInv
<1>1. /\ UNCHANGED <<family, disk, torn>> /\ call' = Idle
      /\ call.pc = "publishing" /\ call.prov \in Providers /\ catalog.exists
      /\ call.published = PreparedMonths
      /\ catalog \in CatalogState
  BY DEF Commit, At, CallPhase, IndexCurrent, FamilyTypeOK
<1>2. /\ catalog'.exists /\ catalog'.coverage = coverage /\ catalog'.lineage = lineage
      /\ catalog'.index = IndexedFiles(catalog.index, call.prepared)
      /\ catalog'.owners = catalog.owners \cup AllContributors(call.prepared)
      /\ brought' = [s \in Slots |-> IF call.rows[s] # None THEN call.rows[s]
                                     ELSE IF s \in revised THEN None ELSE brought[s]]
  BY <1>1 DEF Commit, CatalogState, Bring
<1>3. /\ CallPhase' /\ ReplySound' /\ PreparedMerges' /\ PreparedMonths' = {}
      /\ \A m \in Months : SoundFile(family', m, call'.prepared[m])
  BY <1>1, IdleHolds
<1>4. /\ catalog'.index \in [Months -> File]
      /\ \A m \in Months : catalog'.index[m] = IF m \in PreparedMonths THEN call.prepared[m]
                                               ELSE catalog.index[m]
  BY <1>1, <1>2 DEF IndexedFiles, PreparedMonths, FamilyTypeOK, CatalogState
<1>5. \A m \in Months : call.prepared[m].contributors \subseteq disk[m].contributors
  <2> TAKE m \in Months
  <2>1. CASE m \in PreparedMonths
    BY <2>1, <1>1 DEF PreparedMerges
  <2>2. CASE m \notin PreparedMonths
    BY <2>2, NoFileFacts DEF PreparedMonths
  <2> QED BY <2>1, <2>2
<1>6. AllContributors(call.prepared) \subseteq AllContributors(disk)
  BY <1>5 DEF AllContributors
<1>7. OwnersStored'
  BY <1>1, <1>2, <1>6 DEF OwnersStored
<1>8. FilesSound'
  BY <1>1, <1>3, <1>4 DEF FilesSound
<1>9. FamilyTypeOK'
  <2>1. AllContributors(call.prepared) \subseteq Contributor
    BY DEF AllContributors, FamilyTypeOK, File
  <2>2. catalog' = [catalog EXCEPT !.coverage = coverage, !.lineage = lineage,
                      !.index = IndexedFiles(catalog.index, call.prepared),
                      !.owners = @ \cup AllContributors(call.prepared)]
    BY DEF Commit
  <2>3. catalog' \in CatalogState
    BY <1>1, <1>2, <1>4, <2>1, <2>2 DEF CatalogState, Covers
  <2>4. brought' \in Rows
    BY <1>2 DEF FamilyTypeOK, Rows
  <2> QED BY <1>1, <2>3, <2>4, IdleFacts, NoFileFacts DEF FamilyTypeOK, Idle
<1>10. IndexCurrent'
  <2>1. ~torn => \A m \in Months : catalog'.index[m] = disk[m]
    BY <1>1, <1>4 DEF IndexCurrent, PreparedMerges
  <2> QED BY <1>1, <1>2, <1>3, <2>1, IdleFacts DEF IndexCurrent
<1>11. OneLineage'
  <2> SUFFICES ASSUME family # "oi", ~torn
               PROVE  /\ \A m, n \in Stored(disk) : disk[m].prov = disk[n].prov
                      /\ \A m \in Stored(catalog'.index) : catalog'.index[m].prov = lineage
    BY <1>1, <1>2 DEF OneLineage
  <2>1. \A m \in Months : catalog'.index[m] = disk[m]
    BY <1>1, <1>4 DEF IndexCurrent, PreparedMerges
  <2>2. ASSUME NEW m \in Months, catalog'.index[m] # NoFile
        PROVE  catalog'.index[m].prov = lineage
    <3>1. CASE m \in PreparedMonths
      <4>1. MergedOver(call, m, catalog.index[m])
        BY <3>1 DEF IndexCurrent
      <4>2. call.prepared[m].prov = call.prov
        BY <4>1 DEF MergedOver, MergedFile
      <4> QED BY <3>1, <4>2, <1>4
    <3>2. CASE m \notin PreparedMonths
      <4>1. catalog.index[m] # NoFile /\ catalog'.index[m] = catalog.index[m]
        BY <3>2, <2>2, <1>4
      <4>2. catalog.index[m].prov = catalog.lineage /\ catalog.index[m].prov \in Providers
        BY <4>1 DEF OneLineage, Stored, FilesSound, SoundFile
      <4> QED BY <4>1, <4>2, FamilyAssumption
    <3> QED BY <3>1, <3>2
  <2> QED BY <2>1, <2>2 DEF Stored
<1>12. ASSUME ~torn, NEW s \in Slots
       PROVE  /\ call.rows[s] # None => catalog'.index[MonthOf[s]].rows[s] = call.rows[s]
              /\ call.rows[s] = None /\ s \notin revised =>
                   catalog'.index[MonthOf[s]].rows[s] = catalog.index[MonthOf[s]].rows[s]
  <2> DEFINE m == MonthOf[s]
  <2>1. m \in Months
    BY FamilyAssumption
  <2>2. call.rows[s] # None => m \in PreparedMonths
    BY <1>1 DEF PreparedMerges, Touched, Held
  <2>3. CASE m \in PreparedMonths
    <3>1. MergedOver(call, m, catalog.index[m]) /\ catalog.index[m] \in File
      BY <2>1, <2>3, <1>1, <1>12 DEF IndexCurrent, CatalogState
    <3>2. call.rows[s] = None /\ s \notin revised => s \notin Spans(call.contributors)
      <4>1. family # "oi" => call.contributors = {}
        BY DEF ReplySound, SoundReply
      <4>2. family = "oi" /\ ~Archival => Spans(call.contributors) \subseteq Held(call.rows)
        BY DEF ReplySound, SoundReply
      <4>3. Spans({}) = {}
        BY DEF Spans
      <4> QED BY <4>1, <4>2, <4>3 DEF Held
    <3> QED BY <2>3, <3>1, <3>2, <1>1, <1>4, <2>1, MergeKeepsRows
  <2>4. CASE m \notin PreparedMonths
    BY <2>1, <2>2, <2>4, <1>4
  <2> QED BY <2>3, <2>4
<1>13. AvailableBacked'
  <2> SUFFICES ASSUME ~torn, family # "funding", NEW s \in Slots, coverage[s] = "available"
               PROVE  LET f == catalog'.index[MonthOf[s]]
                      IN  /\ f.rows[s] # None
                          /\ family = "oi" => s \in Spans(f.contributors)
    BY <1>1, <1>2 DEF AvailableBacked
  <2>1. catalog'.index[MonthOf[s]].rows[s] # None
    <3>1. CASE call.rows[s] # None
      BY <3>1, <1>12
    <3>2. CASE call.rows[s] = None
      <4>1. call.segments[s] # "available"
        BY <3>2 DEF ReplySound, SoundReply, Held
      <4>2. catalog.coverage[s] = "available" /\ s \notin revised
        BY <4>1 DEF Covers
      <4> QED BY <3>2, <4>2, <1>12 DEF AvailableBacked
    <3> QED BY <3>1, <3>2
  <2>2. MonthOf[s] \in Months
    BY FamilyAssumption
  <2> QED BY <2>1, <2>2, <1>1, <1>8 DEF FilesSound, SoundFile, Held
<1>14. BroughtIsKept'
  <2> SUFFICES ASSUME ~torn, NEW s \in Slots, brought'[s] # None
               PROVE  /\ catalog'.index[MonthOf[s]].rows[s] = brought'[s]
                      /\ coverage[s] = "available"
    BY <1>1, <1>2 DEF BroughtIsKept, Held
  <2>1. CASE call.rows[s] # None
    <3>1. call.segments[s] = "available"
      BY <2>1 DEF ReplySound, SoundReply, Held
    <3> QED BY <2>1, <3>1, <1>2, <1>12 DEF Covers
  <2>2. CASE call.rows[s] = None
    <3>1. s \notin revised /\ brought'[s] = brought[s]
      BY <2>2, <1>2
    <3>2. catalog.index[MonthOf[s]].rows[s] = brought[s] /\ catalog.coverage[s] = "available"
      BY <3>1 DEF BroughtIsKept, Held
    <3> QED BY <2>2, <3>1, <3>2, <1>12 DEF Covers
  <2> QED BY <2>1, <2>2
<1> QED BY <1>3, <1>7, <1>8, <1>9, <1>10, <1>11, <1>13, <1>14

LEMMA NextKeeps == FamilyInv /\ [Next]_vars => FamilyInv'
<1> SUFFICES ASSUME FamilyInv, [Next]_vars PROVE FamilyInv'
  OBVIOUS
<1>1. CASE PlanNext
  <2>1. \A r \in Requests : r \subseteq Slots /\ Missing(r) \subseteq Slots
    BY RequestsAssumption DEF Missing
  <2>2. PICK v \in Providers, asked \in SUBSET Slots : Plan(v, asked)
    BY <1>1, <2>1 DEF PlanNext, PlanFunding, PlanReference, PlanOpenInterest
  <2> QED BY <2>2, PlanKeeps
<1>2. CASE ObserveNext
  BY <1>2, ObserveKeeps
<1>3. CASE PrepareFunding \/ PrepareReference \/ PrepareOpenInterest \/ PrepareRevision
  BY <1>3, PreparationsMerge, PrepareKeeps
<1>4. CASE Enter
  BY <1>4, EnterKeeps
<1>5. CASE \E m \in Months : PublishMonth(m)
  BY <1>5, PublishKeeps
<1>6. CASE CommitNext
  BY <1>6, CommitKinds, CommitKeeps
<1>7. CASE Stops
  BY <1>7, StopsKeeps
<1>8. CASE CatalogLost
  BY <1>8, LossKeeps
<1>9. CASE Rebuild
  BY <1>9, RebuildKeeps
<1>10. CASE UNCHANGED vars
  <2>1. UNCHANGED <<family, disk, catalog, call, brought, torn>>
    BY <1>10 DEF vars
  <2> QED BY <2>1 DEF FamilyInv, FamilyTypeOK, FilesSound, OwnersStored, CallPhase,
          ReplySound, SoundReply, PreparedMerges, IndexCurrent, OneLineage,
          AvailableBacked, BroughtIsKept, At, Archival, PreparedMonths, Touched
<1> QED BY <1>1, <1>2, <1>3, <1>4, <1>5, <1>6, <1>7, <1>8, <1>9, <1>10 DEF Next

-----------------------------------------------------------------------------
(* The theorems.                                                           *)

\* The inductive invariant holds in every reachable state, whatever calls
\* and rebuilds meet and wherever calls stop.
THEOREM FamilyInvariance == Spec => []FamilyInv
<1>1. Init => FamilyInv
  BY InitHolds
<1>2. FamilyInv /\ [Next]_vars => FamilyInv'
  BY NextKeeps
<1> QED BY <1>1, <1>2, PTL DEF Spec

\* The files of a call that stopped and of all others are sound: two
\* contributors of one month are disjoint, those of two months as well.
LEMMA OwnersDisjoint == ASSUME FamilyInv PROVE OneOwner
<1> SUFFICES ASSUME NEW c \in AllContributors(disk), NEW d \in AllContributors(disk),
                    Overlaps(c, d)
             PROVE  c = d
  BY DEF FamilyInv, OwnersStored, OneOwner
<1>1. PICK m \in Months, n \in Months : c \in disk[m].contributors /\ d \in disk[n].contributors
  BY DEF AllContributors
<1>2. c \in Contributor /\ d \in Contributor
  BY <1>1 DEF FamilyInv, FamilyTypeOK, File
<1>3. PICK s \in Slots : s \in c.span /\ s \in d.span
  BY <1>2 DEF Overlaps, Contributor
<1>4. m = n
  BY <1>1, <1>3 DEF FamilyInv, FilesSound, SoundFile
<1> QED BY <1>1, <1>4 DEF FamilyInv, FilesSound, SoundFile, OrderedDisjoint

\* Every interval of open interest has one owner, in the files and in the
\* catalog, however the syncs of several providers are interrupted.
THEOREM OneOwnerHolds == Spec => []OneOwner
<1>1. FamilyInv => OneOwner
  BY OwnersDisjoint
<1> QED BY <1>1, FamilyInvariance, PTL

\* Coverage never promises a row or an owner the indexed file does not
\* have, unless a call was torn between publication and commit.
THEOREM AvailableBackedHolds == Spec => []AvailableBacked
<1>1. FamilyInv => AvailableBacked
  BY DEF FamilyInv
<1> QED BY <1>1, FamilyInvariance, PTL

\* What committed calls brought stays indexed and available, unless a call
\* was torn.
THEOREM BroughtIsKeptHolds == Spec => []BroughtIsKept
<1>1. FamilyInv => BroughtIsKept
  BY DEF FamilyInv
<1> QED BY <1>1, FamilyInvariance, PTL

\* A lost catalog can be rebuilt: for open interest after any crash, for
\* the other families unless a call was torn.
THEOREM RebuildPossibleHolds == Spec => []RebuildPossible
<1>1. ASSUME FamilyInv PROVE RebuildPossible
  <2> USE DEF FamilyInv
  <2>1. CASE family = "oi"
    <3>1. ASSUME NEW m \in Stored(disk) PROVE disk[m].contributors # {}
      <4>1. m \in Months /\ ValidArtifact(family, m, disk[m])
        BY <1>1 DEF FamilyTypeOK, Stored
      <4>2. CASE Held(disk[m].rows) = {}
        BY <4>1, <4>2 DEF ValidArtifact
      <4>3. CASE Held(disk[m].rows) # {}
        <5>1. Spans(disk[m].contributors) # {}
          BY <1>1, <4>1, <4>3, <2>1 DEF FilesSound, SoundFile
        <5> QED BY <5>1, SpansMember
      <4> QED BY <4>2, <4>3
    <3>2. OrderedDisjoint(AllContributors(disk))
      BY <1>1, OwnersDisjoint DEF OneOwner, OrderedDisjoint
    <3>3. CASE Stored(disk) = {}
      BY <3>3 DEF RebuildPossible, MayRebuild
    <3>4. CASE Stored(disk) # {}
      BY <3>1, <3>2, <3>4 DEF RebuildPossible, MayRebuild
    <3> QED BY <3>3, <3>4
  <2>2. CASE family # "oi" /\ ~torn /\ ~At("publishing")
    <3>1. \A m \in Stored(disk) : disk[m].contributors = {}
      BY <1>1, <2>2 DEF FilesSound, SoundFile, Stored
    <3> QED BY <1>1, <2>2, <3>1 DEF OneLineage, RebuildPossible, MayRebuild
  <2> QED BY <2>1, <2>2 DEF RebuildPossible
<1> QED BY <1>1, FamilyInvariance, PTL

\* Only a publication writes canonical files.
LEMMA FilesWritten ==
  ASSUME [Next]_vars
  PROVE  UNCHANGED disk \/ \E m \in Months : PublishMonth(m)
BY DEF Next, vars, PlanNext, PlanFunding, PlanReference, PlanOpenInterest, Plan,
       ObserveNext, ObserveFunding, ObserveReference, ObserveOpenInterest, ObserveArchive,
       Observed, PrepareFunding, PrepareReference, PrepareOpenInterest, PrepareRevision,
       Prepare, Enter, CommitNext, CommitFunding, CommitReference, CommitOpenInterest,
       Commit, Stops, CatalogLost, Rebuild

\* A publication writes the file of one month, merged over the one it finds.
LEMMA PublicationMerges ==
  ASSUME FamilyInv, NEW m \in Months, PublishMonth(m)
  PROVE  /\ m \in PreparedMonths /\ call.prov \in Providers
         /\ MergedOver(call, m, disk[m])
         /\ disk'[m] = call.prepared[m]
         /\ \A n \in Months : n # m => disk'[n] = disk[n]
BY DEF FamilyInv, PublishMonth, At, CallPhase, PreparedMerges, FamilyTypeOK

\* A published interval stays its owner's, with its bounds, for good.
THEOREM OwnersKeptHolds == Spec => OwnersKept
<1>1. ASSUME FamilyInv, [Next]_vars
      PROVE  [\A c \in AllContributors(disk) : c \in AllContributors(disk')]_disk
  <2>1. CASE UNCHANGED disk
    BY <2>1
  <2>2. ASSUME NEW m \in Months, PublishMonth(m)
        PROVE  \A c \in AllContributors(disk) : c \in AllContributors(disk')
    <3>1. disk[m].contributors \subseteq disk'[m].contributors
      BY <1>1, <2>2, PublicationMerges, MergeKeepsContributors DEF FamilyInv
    <3>2. \A n \in Months : disk[n].contributors \subseteq disk'[n].contributors
      BY <1>1, <2>2, <3>1, PublicationMerges
    <3> QED BY <3>2 DEF AllContributors
  <2> QED BY <1>1, <2>1, <2>2, FilesWritten
<1> QED BY <1>1, FamilyInvariance, PTL DEF Spec, OwnersKept

\* A stored row is replaced or removed only inside an interval of the
\* provider that publishes; a funding or reference row never is.
THEOREM RewritesAreOwned == Spec => RowsRewrittenOnlyByOwner
<1>1. ASSUME FamilyInv, [Next]_vars
      PROVE  [\A s \in Slots :
                LET old == disk[MonthOf[s]]
                IN  old.rows[s] \notin {None, disk'[MonthOf[s]].rows[s]} =>
                      \E c \in old.contributors : s \in c.span /\ c.prov = call.prov]_disk
  <2>1. CASE UNCHANGED disk
    BY <2>1
  <2>2. ASSUME NEW m \in Months, PublishMonth(m), NEW s \in Slots,
               disk[MonthOf[s]].rows[s] \notin {None, disk'[MonthOf[s]].rows[s]}
        PROVE  \E c \in disk[MonthOf[s]].contributors : s \in c.span /\ c.prov = call.prov
    <3> DEFINE inc == MonthSources(call.contributors, m)
    <3>1. MonthOf[s] = m
      BY <1>1, <2>2, PublicationMerges, FamilyAssumption
    <3>2. /\ m \in PreparedMonths /\ call.prov \in Providers /\ MergedOver(call, m, disk[m])
          /\ disk[m] \in File /\ call.prepared[m].rows[s] # disk[m].rows[s]
          /\ disk[m].rows[s] # None
      BY <1>1, <2>2, <3>1, PublicationMerges DEF FamilyInv, FamilyTypeOK
    <3>3. family = "oi" /\ (call.rows[s] # None \/ s \in Spans(call.contributors))
      BY <1>1, <3>1, <3>2, MergeKeepsRows
    <3>4. s \in Spans(call.contributors) /\ s \in Spans(disk[m].contributors)
      BY <1>1, <3>2, <3>3 DEF FamilyInv, ReplySound, SoundReply, FilesSound, SoundFile, Held
    <3>5. call.contributors \in SUBSET Contributor
      BY <1>1 DEF FamilyInv, FamilyTypeOK
    <3>6. PICK d \in inc : s \in d.span
      BY <3>1, <3>4, <3>5, PiecesSpan, SpansMember
    <3>7. d.prov = call.prov
      <4>1. \E e \in call.contributors : d.prov = e.prov
        BY <3>5, <3>6, PiecesFacts
      <4> QED BY <1>1, <4>1 DEF FamilyInv, ReplySound, SoundReply
    <3>8. PICK c \in disk[m].contributors : s \in c.span
      BY <3>4, SpansMember
    <3>9. c = d
      BY <3>2, <3>6, <3>8 DEF MergedOver, MayMergeContributors, Overlaps
    <3> QED BY <3>1, <3>7, <3>8, <3>9
  <2> QED BY <1>1, <2>1, <2>2, FilesWritten
<1> QED BY <1>1, FamilyInvariance, PTL DEF Spec, RowsRewrittenOnlyByOwner
=============================================================================
