------------------------------ MODULE BarStore ------------------------------
(***************************************************************************)
(* The store under maintenance: the callers of BarSync, plus               *)
(* maintenance.rebuild_catalog(), which replaces the catalog by what the   *)
(* canonical files prove, and the operator who loses the catalog file.     *)
(* Rebuild takes the catalog gate but no dataset lock, so it may run       *)
(* between the plan of a sync and its publication.                         *)
(***************************************************************************)
EXTENDS BarSync

CONSTANT Rebuilder  \* the gate's owner during a rebuild

ASSUME RebuilderAssumption == Rebuilder \notin Procs /\ Rebuilder # NoOwner

VARIABLE rebuild  \* the rebuild in progress: its pc and the files it read

vars == <<disk, temps, catalog, lock, gate, clock, proc, faulted, rebuild>>

NoRebuild == [pc |-> "idle", files |-> [k \in Keys |-> [m \in Months |-> NoFile]]]

TypeOK ==
  /\ SyncTypeOK
  /\ gate \in Procs \cup {NoOwner, Rebuilder}
  /\ rebuild \in [pc : {"idle", "read"}, files : [Keys -> [Months -> File]]]

Init == SyncInit /\ rebuild = NoRebuild

-----------------------------------------------------------------------------

NeverBusy == TRUE
GateFree == gate = NoOwner

\* Under the gate: an absent catalog is only rebuilt over unambiguous
\* storage, and a leftover temporary is ambiguous.  Every canonical file is
\* read and validated.
RebuildReads ==
  /\ rebuild.pc = "idle"
  /\ GateFree
  /\ catalog.exists \/ \A k \in Keys : temps[k] = {}
  /\ gate' = Rebuilder
  /\ rebuild' = [pc |-> "read", files |-> disk]
  /\ UNCHANGED <<disk, temps, catalog, lock, clock, proc, faulted>>

\* One transaction, or one os.replace of a freshly built catalog: the
\* derived facts replace everything.  Each file is read again for its rows
\* and must still have the content that was read first.
RebuildReplaces ==
  /\ rebuild.pc = "read"
  /\ \A k \in Keys : OneLineage(rebuild.files[k])
  /\ \A k \in Keys : \A m \in FileMonths(rebuild.files[k]) :
       disk[k][m] = rebuild.files[k][m]
  /\ catalog' = RebuiltCatalog(rebuild.files)
  /\ gate' = NoOwner
  /\ faulted' = {}
  /\ rebuild' = NoRebuild
  /\ UNCHANGED <<disk, temps, lock, clock, proc>>

\* Conflicting lineages, a changed or unreadable file, a catalog error, or
\* the death of the maintainer: the transaction is rolled back.
RebuildFails ==
  /\ rebuild.pc = "read"
  /\ gate' = NoOwner
  /\ rebuild' = NoRebuild
  /\ UNCHANGED <<disk, temps, catalog, lock, clock, proc, faulted>>

\* The catalog file is lost while every writer is stopped.
CatalogLost ==
  /\ \A p \in Procs : At(p, "idle")
  /\ rebuild.pc = "idle"
  /\ catalog.exists
  /\ catalog' = NoCatalog
  /\ UNCHANGED <<disk, temps, lock, gate, clock, proc, faulted, rebuild>>

Maintenance == RebuildReads \/ RebuildReplaces \/ RebuildFails

Next ==
  \/ SyncNext /\ UNCHANGED rebuild
  \/ Maintenance
  \/ CatalogLost

Spec == Init /\ [][Next]_vars

-----------------------------------------------------------------------------
(* Safety.                                                                 *)

\* Every indexed file is of the lineage the catalog has bound, whichever of
\* several providers' calls and rebuilds bound it, and in whatever order.
IndexNamesLineage ==
  \A k \in Keys : \A m \in FileMonths(catalog.index[k]) :
    catalog.index[k][m].prov = catalog.lineage[k]

\* Once available, a bar stays available until the catalog is lost: neither
\* later syncs, with whatever the provider now says, nor a rebuild, which
\* starts from nothing but the files, take it back.
AvailableIsSticky ==
  [][\A k \in Keys, s \in Slots :
       (catalog.coverage[k][s] = "available" /\ catalog'.exists)
         => catalog'.coverage[k][s] = "available"]_catalog

\* A catalog never comes into being blind to stored files: after a loss no
\* sync starts over an index that ignores them, only a rebuild does.
LossNeedsRebuild ==
  [][(~catalog.exists /\ catalog'.exists) => catalog'.index = disk]_catalog

-----------------------------------------------------------------------------
(* The inductive invariant of the safety theorems.                         *)

\* A rebuild holds the gate, and what it has read is still on disk.
RebuildCurrent ==
  /\ rebuild.pc = "read" <=> gate = Rebuilder
  /\ rebuild.pc = "read" => rebuild.files = disk

IInv == TypeOK /\ SyncInv /\ RebuildCurrent
=============================================================================
