----------------------------- MODULE FolderSync -----------------------------
(***************************************************************************)
(* Continuous folder synchronization: FolderSyncService over its leased    *)
(* plan row, the folder it scans, and the documents it creates through     *)
(* FolderImportService and deletes through DocumentLifecycleService.       *)
(* Files come and go, a batch may fail, time out or die at any await, and  *)
(* its lease may run out under it.  A worker keeps its own copy of the     *)
(* plan; save writes it back if the worker still owns the lease.           *)
(***************************************************************************)
EXTENDS Naturals, Sequences, FiniteSets, SequencesExt

CONSTANTS Paths,        \* relative paths, in scan order
          Sums,         \* checksums a file may have
          Workers,      \* API requests that run batches and confirmations
          BatchSize,    \* FolderSyncPlan.batch_size
          MaxManaged,   \* max_managed_sources, tombstones included
          MaxEdits,     \* bound: changes of the folder
          MaxFaults,    \* bound: crashes, failures and expired leases
          MaxRounds     \* bound: batches and confirmations started

ASSUME SyncAssumption ==
  /\ Paths \subseteq Nat \ {0} /\ Sums \subseteq Nat \ {0}
  /\ BatchSize \in Nat \ {0}

VARIABLES folder,    \* path -> checksum, 0 when there is no file
          documents, \* path -> incarnation -> its versions and whether it is deleted
          plan,      \* the plan row
          lease,     \* lease_token and whether lease_until is in the future
          doing,       \* worker -> what it is doing, and its copy of the plan
          reviewed,  \* the candidates the administrator read are of the current revision
          steady,    \* files unchanged since the cycle began
          torn,      \* documents whose deletion committed and whose checkpoint was lost
          edits, faults, rounds

syncVars == <<folder, documents, plan, lease, doing, reviewed, steady, torn, edits, faults, rounds>>

MaxIncarnation == MaxEdits
NoSource == [incarnation |-> 0, checksum |-> 0, deleted |-> FALSE]
Plans == [status : {"idle", "scanning", "reconciling", "completed", "failed"},
          phase : {"scan", "reconcile"}, cursor : Paths \cup {0}, delete_missing : BOOLEAN,
          sources : [Paths -> [incarnation : 0..MaxIncarnation, checksum : Sums \cup {0},
                               deleted : BOOLEAN]],
          candidates : SUBSET Paths]
NewPlan == [status |-> "idle", phase |-> "scan", cursor |-> 0, delete_missing |-> TRUE,
            sources |-> [p \in Paths |-> NoSource], candidates |-> {}]
Idle == [at |-> "idle", plan |-> NewPlan, left |-> 0, todo |-> {}]
Managed(pl) == {p \in Paths : pl.sources[p] # NoSource}

\* The plan, and every copy of it a worker carries, is a plan, with no more
\* sources than a folder may manage.
SyncTypeOK ==
  /\ folder \in [Paths -> Sums \cup {0}]
  /\ documents \in [Paths -> [0..MaxIncarnation -> [versions : SUBSET Sums, deleted : BOOLEAN]]]
  /\ plan \in Plans /\ Cardinality(Managed(plan)) <= MaxManaged
  /\ lease \in [token : Workers \cup {"none"}, live : BOOLEAN]
  /\ \A w \in Workers :
       /\ doing[w].at \in {"idle", "begin", "scan", "scanned", "reconcile", "confirm", "stale", "delete", "deleted"}
       /\ doing[w].plan \in Plans /\ doing[w].left \in 0..BatchSize /\ doing[w].todo \subseteq Paths
  /\ steady \subseteq Paths /\ torn \subseteq Paths

SyncInit ==
  /\ folder = [p \in Paths |-> CHOOSE c \in Sums : TRUE]
  /\ documents = [p \in Paths |-> [i \in 0..MaxIncarnation |-> [versions |-> {}, deleted |-> FALSE]]]
  /\ plan = NewPlan /\ lease = [token |-> "none", live |-> FALSE]
  /\ doing = [w \in Workers |-> Idle]
  /\ reviewed = FALSE /\ steady = Paths /\ torn = {}
  /\ edits = 0 /\ faults = 0 /\ rounds = 0

-----------------------------------------------------------------------------
(* SqlAlchemyFolderSyncStore.                                               *)
Claim(w) ==
  /\ lease.token = "none" \/ ~lease.live
  /\ lease' = [token |-> w, live |-> TRUE]
Owns(w) == lease.token = w /\ lease.live
(* A save that finds the lease gone raises FOLDER_SYNC_LEASE_LOST; every    *)
(* save that succeeds is a new revision.                                    *)
Save(pl, release) ==
  /\ plan' = pl /\ reviewed' = FALSE
  /\ lease' = IF release THEN [token |-> "none", live |-> FALSE] ELSE lease
LeaseLost == UNCHANGED <<plan, lease, reviewed>>

Stop(w) == doing' = [doing EXCEPT ![w] = Idle]
(* Save the copy and go on, or lose it with the request.                    *)
Checkpoint(w, pl, next) ==
  IF Owns(w) THEN /\ Save(pl, FALSE)
                  /\ doing' = [doing EXCEPT ![w] = [next EXCEPT !.plan = pl]]
             ELSE LeaseLost /\ Stop(w)
Release(w, pl) == Stop(w) /\ IF Owns(w) THEN Save(pl, TRUE) ELSE LeaseLost

Start(w, state) ==
  /\ doing[w].at = "idle" /\ rounds < MaxRounds
  /\ Claim(w)
  /\ doing' = [doing EXCEPT ![w] = state]
  /\ rounds' = rounds + 1
  /\ UNCHANGED <<folder, documents, plan, reviewed, steady, torn, edits, faults>>
Keeps == UNCHANGED <<folder, edits, faults, rounds>>

-----------------------------------------------------------------------------
(* run_batch.                                                               *)
StartBatch(w) == Start(w, [Idle EXCEPT !.at = "begin", !.plan = plan])

FreshCycle(pl) == pl.status \in {"idle", "completed"}
Begun(pl) ==
  LET p1 == IF FreshCycle(pl) THEN [pl EXCEPT !.phase = "scan", !.cursor = 0] ELSE pl
  IN [p1 EXCEPT !.status = IF p1.phase = "scan" THEN "scanning" ELSE "reconciling"]
Begin(w) ==
  /\ doing[w].at = "begin"
  /\ LET pl == Begun(doing[w].plan)
     IN /\ Checkpoint(w, pl, [doing[w] EXCEPT !.at = pl.phase, !.left = BatchSize])
        /\ steady' = IF Owns(w) /\ FreshCycle(doing[w].plan) THEN Paths ELSE steady
  /\ UNCHANGED <<documents, torn>> /\ Keeps

(* _scan: the next file after the cursor; the end of the folder begins the  *)
(* reconciliation.                                                          *)
After(pl, set) == {p \in set : p > pl.cursor}
NextFile(pl) == LET ahead == After(pl, {p \in Paths : folder[p] # 0})
                IN IF ahead = {} THEN 0 ELSE Min(ahead)
ScanEnds(w) ==
  /\ doing[w].at = "scan" /\ doing[w].left > 0 /\ NextFile(doing[w].plan) = 0
  /\ Checkpoint(w, [doing[w].plan EXCEPT !.phase = "reconcile", !.status = "reconciling", !.cursor = 0],
                [doing[w] EXCEPT !.at = "reconcile"])
  /\ UNCHANGED <<documents, steady, torn>> /\ Keeps

(* import_document: the identity of a version is its path, incarnation and  *)
(* checksum; a version that exists is skipped, a new one of a deleted       *)
(* document is refused.                                                     *)
Incarnation(source) == source.incarnation + IF source.deleted THEN 1 ELSE 0
Accepts(doc, sum) == sum \in doc.versions \/ ~doc.deleted
Imported(p, i, sum) == documents' = [documents EXCEPT ![p][i].versions = @ \cup {sum}]
ScanOne(w) ==
  /\ doing[w].at = "scan" /\ doing[w].left > 0 /\ NextFile(doing[w].plan) # 0
  /\ LET pl == doing[w].plan
         p == NextFile(pl)
         i == Incarnation(pl.sources[p])
     IN /\ p \in Managed(pl) \/ Cardinality(Managed(pl)) < MaxManaged
        /\ Accepts(documents[p][i], folder[p])
        /\ Imported(p, i, folder[p])
        /\ doing' = [doing EXCEPT ![w].at = "scanned", ![w].left = @ - 1,
                     ![w].plan = [pl EXCEPT !.cursor = p, !.candidates = @ \ {p},
                        !.sources[p] = [incarnation |-> i, checksum |-> folder[p], deleted |-> FALSE]]]
  /\ UNCHANGED <<plan, lease, reviewed, steady, torn>> /\ Keeps
Scanned(w) ==
  /\ doing[w].at = "scanned"
  /\ Checkpoint(w, doing[w].plan, [doing[w] EXCEPT !.at = "scan"])
  /\ UNCHANGED <<documents, steady, torn>> /\ Keeps

(* _reconcile: one managed path, in order, at most a batch of them; only a  *)
(* definite absence makes a candidate.                                      *)
SourceIsMissing(p) == folder[p] = 0
Weighed(pl, p) ==
  LET missing == pl.delete_missing /\ ~pl.sources[p].deleted /\ SourceIsMissing(p)
  IN [pl EXCEPT !.cursor = p, !.candidates = IF missing THEN @ \cup {p} ELSE @ \ {p}]
ReconcileOne(w) ==
  /\ doing[w].at = "reconcile" /\ doing[w].left > 0
  /\ After(doing[w].plan, Managed(doing[w].plan)) # {}
  /\ Checkpoint(w, Weighed(doing[w].plan, Min(After(doing[w].plan, Managed(doing[w].plan)))),
                [doing[w] EXCEPT !.left = @ - 1])
  /\ UNCHANGED <<documents, steady, torn>> /\ Keeps
Completed(pl) == [pl EXCEPT !.status = "completed", !.phase = "scan", !.cursor = 0]
CycleEnds(w) == doing[w].at = "reconcile" /\ After(doing[w].plan, Managed(doing[w].plan)) = {}
BatchEnds(w) ==
  /\ CycleEnds(w) \/ (doing[w].at \in {"scan", "reconcile"} /\ doing[w].left = 0)
  /\ Release(w, IF CycleEnds(w) THEN Completed(doing[w].plan) ELSE doing[w].plan)
  /\ UNCHANGED <<documents, steady, torn>> /\ Keeps

-----------------------------------------------------------------------------
(* configure: the deletion policy, under a lease of its own; without it     *)
(* there are no candidates.                                                 *)
Configure(flag) ==
  /\ lease.token = "none" \/ ~lease.live
  /\ flag # plan.delete_missing
  /\ Save([plan EXCEPT !.delete_missing = flag, !.candidates = IF flag THEN @ ELSE {}], TRUE)
  /\ UNCHANGED <<documents, doing, steady, torn>> /\ Keeps
(* list_candidates: the administrator reads the candidates of a revision.   *)
ListCandidates ==
  /\ reviewed' = TRUE
  /\ UNCHANGED <<documents, plan, lease, doing, steady, torn>> /\ Keeps

(* reconcile: the confirmation names documents and the revision they were   *)
(* read from; it is checked under the lease, all sources first.             *)
StartConfirm(w, ids) == Start(w, [Idle EXCEPT !.at = IF reviewed THEN "confirm" ELSE "stale",
                                                       !.plan = plan, !.todo = ids])
AnyScan(pl, ids) == ids \subseteq Managed(pl)                             \* seeded fault
Confirmed(pl, ids) ==
  /\ pl.delete_missing /\ pl.status = "completed"
  /\ ids \subseteq pl.candidates
  /\ \A p \in ids : SourceIsMissing(p)
Confirm(w) ==
  /\ doing[w].at \in {"confirm", "stale"}
  /\ IF doing[w].at = "confirm" /\ Confirmed(doing[w].plan, doing[w].todo)
     THEN doing' = [doing EXCEPT ![w].at = "delete"] /\ UNCHANGED <<plan, lease, reviewed>>
     ELSE Release(w, doing[w].plan)
  /\ UNCHANGED <<documents, steady, torn>> /\ Keeps
(* DocumentLifecycleService.delete commits on its own; the checkpoint of    *)
(* the plan follows it.                                                     *)
DeleteOne(w) ==
  /\ doing[w].at = "delete" /\ doing[w].todo # {}
  /\ LET p == Min(doing[w].todo)
         pl == doing[w].plan
     IN /\ documents' = [documents EXCEPT ![p][pl.sources[p].incarnation].deleted = TRUE]
        /\ doing' = [doing EXCEPT ![w].at = "deleted"]
        /\ torn' = torn \cup {p}
  /\ UNCHANGED <<plan, lease, reviewed, steady>> /\ Keeps
Tombstoned(pl, p) == [pl EXCEPT !.candidates = @ \ {p}, !.sources[p].deleted = TRUE]
Deleted(w) ==
  /\ doing[w].at = "deleted"
  /\ LET p == Min(doing[w].todo)
     IN /\ Checkpoint(w, Tombstoned(doing[w].plan, p), [doing[w] EXCEPT !.at = "delete", !.todo = @ \ {p}])
        /\ torn' = IF Owns(w) THEN torn \ {p} ELSE torn
  /\ UNCHANGED <<documents, steady>> /\ Keeps
ConfirmEnds(w) ==
  /\ doing[w].at = "delete" /\ doing[w].todo = {}
  /\ Release(w, doing[w].plan)
  /\ UNCHANGED <<documents, steady, torn>> /\ Keeps

-----------------------------------------------------------------------------
(* An exception, the batch timeout or a cancellation: the copy is saved as  *)
(* it is and the lease released.  An import or a deletion may have          *)
(* committed although its await was cancelled.                              *)
Fails(w) ==
  /\ doing[w].at # "idle" /\ faults < MaxFaults /\ faults' = faults + 1
  /\ Release(w, IF doing[w].at \in {"begin", "scan", "scanned", "reconcile"}
                THEN [doing[w].plan EXCEPT !.status = "failed"]
                ELSE IF doing[w].at = "deleted" THEN Tombstoned(doing[w].plan, Min(doing[w].todo))
                ELSE doing[w].plan)
  /\ torn' = IF doing[w].at = "deleted" /\ Owns(w) THEN torn \ {Min(doing[w].todo)} ELSE torn
  /\ UNCHANGED <<folder, documents, steady, edits, rounds>>
ImportLost(w) ==
  /\ doing[w].at = "scan" /\ doing[w].left > 0 /\ NextFile(doing[w].plan) # 0
  /\ faults < MaxFaults /\ faults' = faults + 1
  /\ LET p == NextFile(doing[w].plan)
         i == Incarnation(doing[w].plan.sources[p])
     IN IF Accepts(documents[p][i], folder[p]) THEN Imported(p, i, folder[p])
                                               ELSE UNCHANGED documents
  /\ Release(w, [doing[w].plan EXCEPT !.status = "failed"])
  /\ UNCHANGED <<folder, steady, torn, edits, rounds>>
DeletionLost(w) ==
  /\ doing[w].at = "deleted" /\ faults < MaxFaults /\ faults' = faults + 1
  /\ Release(w, doing[w].plan)
  /\ UNCHANGED <<folder, documents, steady, torn, edits, rounds>>
(* The process dies; the row stays leased until the lease runs out.         *)
Crash(w) ==
  /\ doing[w].at # "idle" /\ faults < MaxFaults /\ faults' = faults + 1
  /\ Stop(w)
  /\ UNCHANGED <<folder, documents, plan, lease, reviewed, steady, torn, edits, rounds>>
(* A lease runs out under a stalled owner, or after its owner is gone.      *)
LeaseExpires ==
  /\ lease.live
  /\ lease' = [lease EXCEPT !.live = FALSE]
  /\ IF doing[lease.token].at = "idle" THEN UNCHANGED faults
                                     ELSE faults < MaxFaults /\ faults' = faults + 1
  /\ UNCHANGED <<folder, documents, plan, doing, reviewed, steady, torn, edits, rounds>>

(* Somebody edits, removes or restores a file.                              *)
Edit(p, sum) ==
  /\ edits < MaxEdits /\ edits' = edits + 1
  /\ sum # folder[p]
  /\ folder' = [folder EXCEPT ![p] = sum]
  /\ steady' = steady \ {p}
  /\ UNCHANGED <<documents, plan, lease, doing, reviewed, torn, faults, rounds>>

SyncNext ==
  \/ \E w \in Workers :
       \/ StartBatch(w) \/ Begin(w) \/ ScanEnds(w) \/ ScanOne(w) \/ Scanned(w)
       \/ ReconcileOne(w) \/ BatchEnds(w)
       \/ \E ids \in SUBSET Paths : ids # {} /\ StartConfirm(w, ids)
       \/ Confirm(w) \/ DeleteOne(w) \/ Deleted(w) \/ ConfirmEnds(w)
       \/ Fails(w) \/ ImportLost(w) \/ DeletionLost(w) \/ Crash(w)
  \/ \E flag \in BOOLEAN : Configure(flag)
  \/ ListCandidates \/ LeaseExpires
  \/ \E p \in Paths, sum \in Sums \cup {0} : Edit(p, sum)

-----------------------------------------------------------------------------
(* A completed cycle missed nothing: every file that did not change since   *)
(* the cycle began is managed with its present content, however many        *)
(* batches, retries and takeovers of the lease the cycle took (run_batch,   *)
(* cursor and phase of the plan).                                           *)
NothingMissed ==
  plan.status = "completed" =>
    \A p \in steady : folder[p] # 0 =>
      /\ plan.sources[p].checksum = folder[p]
      /\ ~plan.sources[p].deleted

(* The manifest is never rolled back by a worker that lost its lease: no    *)
(* source is forgotten, no incarnation goes down, and a tombstone is only   *)
(* lifted by a new incarnation (save, _scan).                               *)
ManifestOnlyGrows ==
  [][\A p \in Paths :
       LET old == plan.sources[p]
           new == plan'.sources[p]
       IN /\ p \in Managed(plan) => p \in Managed(plan')
          /\ new.incarnation >= old.incarnation
          /\ (old.deleted /\ ~new.deleted) => new.incarnation > old.incarnation]_syncVars

(* The manifest and the documents agree: a source that counts as present    *)
(* has its version, and its document is not deleted unless the checkpoint   *)
(* after that deletion was lost (reconcile, import_document).               *)
ManifestTrue ==
  \A p \in Managed(plan) :
    LET source == plan.sources[p]
        doc == documents[p][source.incarnation]
    IN /\ source.checksum \in doc.versions
       /\ doc.deleted <=> (source.deleted \/ p \in torn)

(* A confirmation deletes what was reviewed: while its lease is live the    *)
(* plan it works on is still the completed scan it was checked against, and *)
(* each document it deletes is still a candidate (reconcile).               *)
DeletesReviewed ==
  [][\A w \in Workers :
       (doing[w].at = "delete" /\ doing'[w].at = "deleted" /\ Owns(w)) =>
         /\ plan.status = "completed" /\ plan.delete_missing
         /\ Min(doing[w].todo) \in plan.candidates]_syncVars

(* Every candidate can be shown: it is a managed source that is not yet a   *)
(* tombstone (candidate_items looks it up in the manifest).                 *)
CandidatesManaged ==
  \A p \in plan.candidates : p \in Managed(plan) /\ ~plan.sources[p].deleted
=============================================================================
