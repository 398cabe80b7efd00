-------------------------- MODULE FamilyInvariant --------------------------
(***************************************************************************)
(* The inductive invariant behind the safety properties of FamilySync.     *)
(* Checked by TLC on a small instance; FamilySyncProofs shows that it      *)
(* is inductive for every instance and implies those properties.           *)
(***************************************************************************)
EXTENDS FamilySync

\* A file is absent, or a valid artifact of one provider; its contributors
\* keep to its month, and exactly an open-interest file names them, for
\* every row it holds.
SoundFile(fam, m, f) ==
  /\ f # NoFile => f.prov \in Providers /\ ValidArtifact(fam, m, f)
  /\ OrderedDisjoint(f.contributors)
  /\ \A c \in f.contributors, s \in Slots : s \in c.span => MonthOf[s] = m
  /\ IF fam = "oi" THEN Held(f.rows) \subseteq Spans(f.contributors)
                   ELSE f.contributors = {}

FilesSound ==
  \A m \in Months : /\ SoundFile(family, m, disk[m])
                    /\ SoundFile(family, m, call.prepared[m])
                    /\ SoundFile(family, m, catalog.index[m])

\* The catalog remembers no owner that the files do not name.
OwnersStored == catalog.owners \subseteq AllContributors(disk)

\* What a call knows at each of its steps.
CallPhase ==
  /\ At("idle") => call = Idle
  /\ ~At("idle") => call.prov \in Providers
  /\ call.pc \in {"planned", "observed"} => call.prepared = NoFiles
  /\ call.published # {} => At("publishing")
  /\ call.published \subseteq PreparedMonths

\* The reply behind a call: rows and coverage agree, and for open interest
\* each row is certified by a contributor of the provider that was asked.
SoundReply(rows, segments, contributors) ==
  /\ \A s \in Held(rows) : segments[s] = "available"
  /\ family # "funding" =>
       \A s \in Slots : segments[s] = "available" => s \in Held(rows)
  /\ \A c \in contributors : c.prov = call.prov
  /\ IF family = "oi" THEN Held(rows) \subseteq Spans(contributors)
                      ELSE contributors = {}
  /\ ~Archival => Spans(contributors) \subseteq Held(rows)

ReplySound == SoundReply(call.rows, call.segments, call.contributors)

\* Call c prepared for month m the batch merged over file f.
MergedOver(c, m, f) ==
  LET batch    == SplitByMonth(c.rows, m)
      incoming == MonthSources(c.contributors, m)
  IN  /\ c.prepared[m] = MergedFile(f, c.prov, batch, incoming)
      /\ MayMergeContributors(f.contributors, incoming)
      /\ MayMergeRows(f.rows, batch, incoming)

\* Prepared files stay mergers over what is on disk until they are it.
PreparedMerges ==
  /\ \A m \in PreparedMonths : IF m \in call.published
                               THEN disk[m] = call.prepared[m]
                               ELSE MergedOver(call, m, disk[m])
  /\ call.pc \in {"prepared", "publishing"} => Touched \subseteq PreparedMonths

\* Unless a call was torn, the catalog indexes the files as they are, but
\* for those the call at work has published.
IndexCurrent ==
  /\ ~catalog.exists => At("idle") /\ catalog = NoCatalog
  /\ ~torn /\ catalog.exists =>
       \A m \in Months \ call.published : catalog.index[m] = disk[m]
  /\ ~torn => \A m \in PreparedMonths : MergedOver(call, m, catalog.index[m])

\* Unless a call was torn, the files of a family without contributors are
\* of one provider, the one the catalog is bound to.
OneLineage ==
  family # "oi" /\ ~torn =>
    /\ ~At("publishing") =>
         \A m, n \in Stored(disk) : disk[m].prov = disk[n].prov
    /\ \A m \in Stored(catalog.index) : catalog.index[m].prov = catalog.lineage

\* A dataset is sound together with the call at work on it: types, files,
\* owners, the call's progress, and what the catalog says of them.
FamilyInv ==
  /\ FamilyTypeOK
  /\ FilesSound
  /\ OwnersStored
  /\ CallPhase
  /\ ReplySound
  /\ PreparedMerges
  /\ IndexCurrent
  /\ OneLineage
  /\ AvailableBacked
  /\ BroughtIsKept
=============================================================================
