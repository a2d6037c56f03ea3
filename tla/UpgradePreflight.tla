-------------------------- MODULE UpgradePreflight --------------------------
(***************************************************************************)
(* The read-only upgrade preflight, src/packages/operations/               *)
(* upgrade_check.py, durable_upgrade.py and                                *)
(* src/scripts/check_upgrade_readiness.py, beside the system it inspects.  *)
(* Jobs are recorded in the database, travel through the places RQ keeps   *)
(* them in, and are settled; durable runs come and go.  The preflight      *)
(* looks at the database in one or two REPEATABLE READ snapshots and at    *)
(* each queue with a pipeline that is not a transaction: other clients run *)
(* between its commands.                                                   *)
(*                                                                         *)
(* The catalog checks are one schema each: right or drifted.               *)
(***************************************************************************)
EXTENDS Integers, Sequences, FiniteSets, SequencesExt

CONSTANTS
    Tasks,      \* jobs of the inspected system
    QueueCount, \* queues: one when both jobs are configured with the same name
    QueueOf,    \* task |-> its queue
    Setups,     \* the deployments that may be inspected
    MaxRetry,   \* bound: retries of the tasks
    MaxStirs    \* bound: steps of the system while it is inspected

\* rev: 0 for a revision the preflight does not know, 2 for one before the
\* durable tables, 3 for one with them; bad: the catalog contract that has
\* drifted; vectors: what is wrong with the stored vectors; audit: the audit
\* connection; auditFiltered: row security applies to it.
ASSUME PreflightAssumption ==
    /\ QueueCount \in 1..2 /\ QueueOf \in [Tasks -> 1..QueueCount] /\ MaxRetry \in Nat /\ MaxStirs \in Nat
    /\ Setups \subseteq [valid : BOOLEAN, rev : {0, 2, 3}, bad : {"none", "role", "rls", "vector", "durable"},
                         vectors : {"fine", "invalid", "wide"}, audit : {"none", "same", "other"},
                         auditFiltered : BOOLEAN]

VARIABLES
    jobRow,     \* task |-> "none", "unresolved", "resolved" or "terminal", the database row
    rqPlace,    \* task |-> where RQ has it
    retried,    \* retries so far
    durable,    \* durable runs: "none", "unresolved" or "retained"
    look,       \* the preflight
    stirred     \* what moved while it looked: [moves, back], back the queues a task came back to

preflightVars == <<jobRow, rqPlace, retried, durable, look, stirred>>

NotLooking == [stage |-> "idle"]
Calm == [moves |-> 0, back |-> {}]

PreflightInit ==
    /\ jobRow = [t \in Tasks |-> "none"]
    /\ rqPlace = [t \in Tasks |-> "nowhere"]
    /\ retried = 0
    /\ durable = "none"
    /\ look = NotLooking
    /\ stirred = Calm

-----------------------------------------------------------------------------
(* The system. *)

\* The order of the reads of inspect_queues, after the registration.
RqPlaces == <<"queued", "intermediate", "started", "scheduled", "deferred", "failed">>
Pending == {"queued", "intermediate", "started", "scheduled", "deferred"}

\* The system is followed until the report is made.
Running == look.stage # "over"
Stir(queues) ==
    /\ Running /\ stirred.moves < MaxStirs
    /\ stirred' = IF look.stage = "idle" THEN stirred
                  ELSE [moves |-> stirred.moves + 1, back |-> stirred.back \cup queues]
Into(t, p) == rqPlace' = [rqPlace EXCEPT ![t] = p]

\* The row is committed first, then the job is enqueued.
RecordTask(t) ==
    /\ jobRow[t] = "none"
    /\ jobRow' = [jobRow EXCEPT ![t] = "unresolved"]
    /\ Stir({}) /\ UNCHANGED <<rqPlace, retried, durable, look>>

EnqueueTask(t) ==
    /\ jobRow[t] = "unresolved" /\ rqPlace[t] = "nowhere"
    /\ Into(t, "queued") /\ Stir({QueueOf[t]})
    /\ UNCHANGED <<jobRow, retried, durable, look>>

\* A worker takes the task and starts it.
AdvanceTask(t) ==
    /\ \/ rqPlace[t] = "queued" /\ Into(t, "intermediate")
       \/ rqPlace[t] = "intermediate" /\ Into(t, "started")
    /\ Stir({}) /\ UNCHANGED <<jobRow, retried, durable, look>>

EndTask(t) ==
    /\ rqPlace[t] = "started"
    /\ \/ jobRow' = [jobRow EXCEPT ![t] = "resolved"] /\ Into(t, "finished") /\ UNCHANGED retried
       \/ jobRow' = [jobRow EXCEPT ![t] = "terminal"] /\ Into(t, "failed") /\ UNCHANGED retried
       \/ /\ retried < MaxRetry /\ retried' = retried + 1
          /\ Into(t, "scheduled") /\ UNCHANGED jobRow
    /\ Stir({}) /\ UNCHANGED <<durable, look>>

\* The scheduler puts a retry back in the queue.
RequeueTask(t) ==
    /\ rqPlace[t] = "scheduled" /\ Into(t, "queued") /\ Stir({QueueOf[t]})
    /\ UNCHANGED <<jobRow, retried, durable, look>>

DurableMoves ==
    /\ \/ durable = "none" /\ durable' = "unresolved"
       \/ durable = "unresolved" /\ durable' = "retained"
    /\ Stir({}) /\ UNCHANGED <<jobRow, rqPlace, retried, look>>

-----------------------------------------------------------------------------
(* The report. *)

CheckStatuses == {"PASS", "WARN", "BLOCKED", "UNVERIFIED"}

combined_status(checks) ==
    LET found == {c[2] : c \in checks}
    IN  CASE "BLOCKED" \in found -> "BLOCKED" [] "UNVERIFIED" \in found -> "UNVERIFIED"
          [] "WARN" \in found -> "WARN" [] "PASS" \in found -> "PASS" [] OTHER -> "UNVERIFIED"

exit_code(checks) ==
    CASE combined_status(checks) = "PASS" -> 0 [] combined_status(checks) = "WARN" -> 1
      [] combined_status(checks) = "BLOCKED" -> 2 [] combined_status(checks) = "UNVERIFIED" -> 3

manual_checks ==
    {<<id, "UNVERIFIED">> : id \in {"backup_restore", "write_quiescence", "deployment_acceptance"}}
Rehearsals == {<<id, "UNVERIFIED">> : id \in {"durable_recovery", "feature_state_retention"}}
Automated(checks) == checks \ (manual_checks \cup Rehearsals)

Check(id, ok) == <<id, IF ok THEN "PASS" ELSE "BLOCKED">>

-----------------------------------------------------------------------------
(* The database. *)

\* What a transaction of a connection sees; a connection under row security
\* sees no row at all.
SnapshotOf(filtered) ==
    [filtered |-> filtered, rows |-> IF filtered THEN {} ELSE {jobRow[t] : t \in Tasks},
     durable |-> IF filtered THEN "none" ELSE durable]

data_unverified ==
    {<<id, "UNVERIFIED">> : id \in {"vector_integrity", "embedding_identity", "rollback_1536", "database_jobs"}}

CountsWhatItSees(snap) == TRUE   \* seeded fault

\* VISIBILITY_SQL: no row security active, every table readable.
SeesAllTenants(snap) == ~snap.filtered

JobsCheck(snap) ==
    <<"database_jobs", IF "unresolved" \in snap.rows THEN "BLOCKED"
                       ELSE IF "terminal" \in snap.rows THEN "WARN" ELSE "PASS">>

check_vector_data(vectors) ==
    {<<"vector_integrity", IF vectors = "invalid" THEN "BLOCKED" ELSE "PASS">>,
     <<"embedding_identity", IF vectors = "invalid" THEN "BLOCKED" ELSE "PASS">>,
     <<"rollback_1536", IF vectors = "fine" THEN "PASS" ELSE "WARN">>}

\* The count of jobs may fail after the vectors were checked.
inspect_all_tenant_data(snap, vectors, jobsFail) ==
    IF ~SeesAllTenants(snap) THEN data_unverified
    ELSE check_vector_data(vectors)
         \cup {IF jobsFail THEN <<"database_jobs", "UNVERIFIED">> ELSE JobsCheck(snap)}

inspect_durable_data(snap, schemaValid) ==
    <<"durable_runs", CASE ~schemaValid \/ ~SeesAllTenants(snap) -> "UNVERIFIED"
                        [] snap.durable = "unresolved"           -> "BLOCKED"
                        [] snap.durable = "retained"             -> "WARN"
                        [] OTHER                                 -> "PASS">>

HasDurable(setup) == setup.rev = 3

\* FORCE row security applies to a login without privileges.
RuntimeFiltered(setup) == setup.bad \notin {"role", "rls"}

check_revision(setup) == Check("schema_revision", setup.rev # 0)
check_runtime_role(setup) == Check("runtime_role", setup.bad # "role")
check_rls(setup) == Check("tenant_rls", setup.rev # 0 /\ setup.bad # "rls")
schema_is_valid(setup) == setup.bad # "durable"
check_vector_schema(setup) == Check("vector_schema", setup.rev # 0 /\ setup.bad # "vector")

\* What the runtime connection adds, in the order it does.
RuntimeChecks(setup, snap, jobsFail) ==
    <<{check_revision(setup)}, {check_runtime_role(setup)}, {check_rls(setup)}>>
    \o (IF HasDurable(setup) THEN <<{Check("durable_schema", schema_is_valid(setup))}>> ELSE <<>>)
    \o <<{check_vector_schema(setup)}>>
    \o (IF setup.audit # "none" THEN <<>>
        ELSE <<IF check_vector_schema(setup)[2] = "PASS"
               THEN inspect_all_tenant_data(snap, setup.vectors, jobsFail) ELSE data_unverified>>
             \o (IF HasDurable(setup) THEN <<{inspect_durable_data(snap, schema_is_valid(setup))}>> ELSE <<>>))

AuditChecks(setup, snap, revision, schemaValid, jobsFail) ==
    <<inspect_all_tenant_data(snap, setup.vectors, jobsFail)>>
    \o (IF revision = 3 THEN <<{inspect_durable_data(snap, schemaValid)}>> ELSE <<>>)

\* The first k steps of an inspection were made; it failed unless they are all.
\* A failed count aborts the transaction: the query after it fails too.
Made(steps, k, failed, jobsFail) ==
    /\ k < Len(steps) => failed
    /\ (jobsFail /\ <<"database_jobs", "UNVERIFIED">> \in UNION Range(steps)
        /\ \E c \in Last(steps) : c[1] = "durable_runs" /\ c[2] # "UNVERIFIED") => k < Len(steps)
FirstOf(steps, k) == UNION {steps[i] : i \in 1..k}

\* inspect_database's last step.
DurableNamed(checks, revision) ==
    IF revision = 3 /\ ~ \E c \in checks : c[1] = "durable_runs"
    THEN checks \cup {<<"durable_runs", "UNVERIFIED">>} ELSE checks

-----------------------------------------------------------------------------
(* The preflight. *)

Inspected(s) == look' = s /\ UNCHANGED <<jobRow, rqPlace, retried, durable>>
ToQueues(s, checks) == [s EXCEPT !.stage = "queue", !.checks = checks, !.queue = 1]

\* main and run_checks up to the database.
StartPreflight(setup) ==
    /\ look.stage = "idle" /\ stirred' = Calm
    /\ LET s == [stage |-> "runtime", setup |-> setup, revision |-> 0, schemaValid |-> FALSE,
                 checks |-> manual_checks \cup Rehearsals, queue |-> 0, read |-> 0, found |-> {}]
       IN  Inspected(IF setup.valid THEN s
                ELSE [s EXCEPT !.stage = "over", !.checks = manual_checks \cup {<<"configuration", "BLOCKED">>}])

\* inspect_database's handler for anything that was raised.
ConnectionFailed(failed) == IF failed THEN {<<"database_connection", "UNVERIFIED">>} ELSE {}

\* The durable contract is looked at only where the revision has it.
DurableSchemaValid(setup, k) == k >= 4 /\ HasDurable(setup) /\ schema_is_valid(setup)

InspectRuntime(failed, jobsFail) ==
    /\ look.stage = "runtime" /\ UNCHANGED stirred
    /\ LET setup == look.setup
           steps == RuntimeChecks(setup, SnapshotOf(RuntimeFiltered(setup)), jobsFail)
       IN  \E k \in 0..Len(steps) :
               /\ Made(steps, k, failed, jobsFail)
               /\ LET checks == look.checks \cup FirstOf(steps, k) \cup ConnectionFailed(failed)
                      rev == IF k >= 1 THEN setup.rev ELSE 0
                      s == [look EXCEPT !.revision = rev,
                                        !.schemaValid = DurableSchemaValid(setup, k)]
                  IN  Inspected(IF setup.audit = "none" THEN ToQueues(s, DurableNamed(checks, rev))
                           ELSE [s EXCEPT !.stage = "audit", !.checks = checks])

InspectAudit(failed, jobsFail) ==
    /\ look.stage = "audit" /\ UNCHANGED stirred
    /\ LET setup == look.setup
           steps == AuditChecks(setup, SnapshotOf(setup.auditFiltered), look.revision, look.schemaValid, jobsFail)
       IN  IF setup.audit = "other"
           THEN Inspected(ToQueues(look, look.checks \cup {<<"audit_endpoint", "BLOCKED">>}))
           ELSE \E k \in 0..Len(steps) :
                    /\ Made(steps, k, failed, jobsFail)
                    /\ LET checks == look.checks \cup FirstOf(steps, k)
                                     \cup (IF failed THEN data_unverified ELSE {})
                       IN  Inspected(ToQueues(look, DurableNamed(checks, look.revision)))

-----------------------------------------------------------------------------
(* The queues. *)

\* One command of the pipeline: the registration, then the places in order.
ReadPlace ==
    /\ look.stage = "queue" /\ look.read <= Len(RqPlaces)
    /\ stirred' = IF look.read = 0 THEN [stirred EXCEPT !.back = {}] ELSE stirred
    /\ LET mine == {t \in Tasks : QueueOf[t] = look.queue}
           here == IF look.read = 0
                   THEN IF \E t \in mine : rqPlace[t] # "nowhere" THEN {"registered"} ELSE {}
                   ELSE {RqPlaces[look.read]} \cap {rqPlace[t] : t \in mine}
       IN  Inspected([look EXCEPT !.read = @ + 1, !.found = @ \cup here])

QueueStatus(found) ==
    CASE found \cap Pending # {}      -> "BLOCKED"
      [] "registered" \notin found    -> "UNVERIFIED"
      [] "failed" \in found           -> "WARN"
      [] OTHER                        -> "PASS"

QueueId(q) == IF q = 1 THEN "redis_queue_1" ELSE "redis_queue_2"

JudgeQueue ==
    /\ look.stage = "queue" /\ look.read > Len(RqPlaces) /\ UNCHANGED stirred
    /\ Inspected([look EXCEPT !.checks = @ \cup {<<QueueId(look.queue), QueueStatus(look.found)>>},
                         !.stage = IF look.queue = QueueCount THEN "closing" ELSE "queue",
                         !.queue = QueueCount, !.read = 0, !.found = {}])

\* What was found so far stays in the report.
FindingsSoFar(checks) == checks

QueueFails ==
    /\ look.stage = "queue" /\ UNCHANGED stirred
    /\ Inspected([look EXCEPT !.stage = "closing", !.found = {},
                         !.checks = FindingsSoFar(@) \cup {<<"redis_queues", "UNVERIFIED">>}])

CloseRedis(failed) ==
    /\ look.stage = "closing" /\ UNCHANGED stirred
    /\ Inspected([look EXCEPT !.stage = "over",
                         !.checks = @ \cup (IF failed THEN {<<"redis_disconnect", "UNVERIFIED">>} ELSE {})])

Interrupt ==
    /\ look.stage \notin {"idle", "over"} /\ UNCHANGED stirred
    /\ Inspected([look EXCEPT !.stage = "over", !.checks = manual_checks \cup {<<"inspection", "UNVERIFIED">>}])

PreflightNext ==
    \/ \E t \in Tasks : \/ RecordTask(t) \/ EnqueueTask(t) \/ AdvanceTask(t) \/ EndTask(t) \/ RequeueTask(t)
    \/ DurableMoves
    \/ \E setup \in Setups : StartPreflight(setup)
    \/ \E failed, jobsFail \in BOOLEAN : InspectRuntime(failed, jobsFail) \/ InspectAudit(failed, jobsFail)
    \/ ReadPlace \/ JudgeQueue \/ QueueFails \/ Interrupt
    \/ \E failed \in BOOLEAN : CloseRedis(failed)

-----------------------------------------------------------------------------
(* What the preflight promises. *)

Reported == look.stage = "over"
Clear(checks) == combined_status(Automated(checks)) \in {"PASS", "WARN"}
Named(checks) == {c[1] : c \in checks}

\* Every finding has one of the four statuses, a queue is judged at most once,
\* and the durable contract is called valid only at a revision that has it.
PreflightTypeOK ==
    /\ jobRow \in [Tasks -> {"none", "unresolved", "resolved", "terminal"}]
    /\ rqPlace \in [Tasks -> {"nowhere", "finished"} \cup Range(RqPlaces)]
    /\ retried \in 0..MaxRetry /\ durable \in {"none", "unresolved", "retained"}
    /\ look.stage # "idle" =>
           /\ \A c \in look.checks : c[2] \in CheckStatuses
           /\ look.read \in 0..(Len(RqPlaces) + 1)
           /\ look.schemaValid => look.revision = 3
           /\ \A q \in 1..QueueCount : Cardinality({c \in look.checks : c[1] = QueueId(q)}) <= 1

\* The exit code never says PASS or WARN: the restore and quiescence evidence
\* is manual; and it says BLOCKED exactly when some check is, whatever could
\* not be verified beside it.
NeverAuthorizes ==
    Reported => /\ exit_code(look.checks) \in {2, 3}
                /\ (exit_code(look.checks) = 2) = (\E c \in look.checks : c[2] = "BLOCKED")

\* If nothing moved while the preflight looked, clear automated checks mean
\* that no job, queue entry or durable run was unresolved.
DrainedWhenQuiet ==
    (Reported /\ Clear(look.checks) /\ stirred.moves = 0) =>
        /\ \A t \in Tasks : rqPlace[t] \notin Pending /\ jobRow[t] # "unresolved"
        /\ HasDurable(look.setup) => durable # "unresolved"

\* A login that passes the role and row-security checks cannot see all
\* tenants, so only an unfiltered audit connection ever clears the checks.
ClearNeedsAudit ==
    (Reported /\ Clear(look.checks)) => look.setup.audit = "same" /\ ~look.setup.auditFiltered

\* Clear automated checks leave no check out, whichever step failed on the way.
NothingSkipped ==
    (Reported /\ Clear(look.checks)) =>
        {"schema_revision", "runtime_role", "tenant_rls", "vector_schema", "database_jobs"}
        \cup {QueueId(q) : q \in 1..QueueCount}
        \cup (IF HasDurable(look.setup) THEN {"durable_schema", "durable_runs"} ELSE {})
            \subseteq Named(look.checks)

\* The commands of inspect_queues read the places in the order a task goes
\* through them: while tasks only move forward, a queue that is not BLOCKED
\* held no pending task when the last place was read.
ForwardSeen ==
    [][(look.stage = "queue" /\ look'.stage = "queue" /\ look'.queue = look.queue
        /\ look'.read = Len(RqPlaces) + 1 /\ look.read = Len(RqPlaces)
        /\ look.queue \notin stirred.back /\ look'.found \cap Pending = {}) =>
           \A t \in Tasks : QueueOf[t] = look.queue => rqPlace[t] \notin Pending]_preflightVars

\* A step that fails adds to the report and takes nothing away: only an
\* interrupted inspection reports nothing of what it found.
FindingsKept ==
    [][(look.stage # "idle" /\ <<"inspection", "UNVERIFIED">> \notin look'.checks) =>
           look.checks \subseteq look'.checks]_preflightVars
=============================================================================
