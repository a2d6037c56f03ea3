---------------------------- MODULE DurableAgent ----------------------------
(***************************************************************************)
(* One durable agent run: the rows that packages/agent/storage/durable.py  *)
(* keeps for it, and the driver invocations of                             *)
(* packages/agent/durable/service.py that compete to execute it.           *)
(*                                                                         *)
(* Every store method is one database transaction, so it is one atomic     *)
(* step.  A driver is one call of _drive (from start, resume or            *)
(* run_background).  It keeps its own copy of the snapshot, which may be   *)
(* stale, and its own random lease token.  The token is the driver itself: *)
(* a driver may be reused for a later invocation only when the row no      *)
(* longer holds its token, so no two invocations ever share one.           *)
(*                                                                         *)
(* Runs never touch each other's rows (every statement is scoped by run    *)
(* id), so one run is modelled.                                            *)
(***************************************************************************)
EXTENDS Integers, FiniteSets

CONSTANTS
    Drivers,        \* concurrent invocations of _drive
    Tools,          \* tool name with its arguments: what an action digest identifies
    Approval,       \* the tools that need a human approval before dispatch
    Versions,       \* tool definition digests; one per deployed process image
    Policy,         \* durable_replay_policy of a tool's definition
    Resumable,      \* bound: the states in which clients send resume commands
    Modes,          \* how the run may be started: dispatch, key and budget mode
    MaxSteps,       \* AgentRunConfig.max_steps
    MaxToolCalls,   \* AgentRunConfig.max_tool_calls
    LeaseTicks,     \* lease_seconds, in units of the model's clock
    MaxRevision,    \* bound: no new resume once the revision has reached it
    MayExpire,      \* bound: whether the retention period may elapse
    MaxFaults,      \* bound: crashes, disconnects, storage faults, late renewals
    None

Policies == {"read_only", "never", "unsupported"}
ModeSet == [background : BOOLEAN, keyed : BOOLEAN, active : BOOLEAN]

Calls == 1..MaxToolCalls

(* A registry call in flight, and what the history keeps of a handler entry. *)
CallSet == [call : Calls, step : 0..MaxSteps, tool : Tools, ver : Versions,
            policy : Policies, by : Drivers]

Active == {"running", "awaiting_approval"}
Terminal == {"completed", "failed", "stopped", "cancelled", "intervention_required"}

(* "absent": neither row exists.  "purged": only the legacy row remains. *)
RowSet == [status : Active \cup Terminal \cup {"absent", "purged"},
           revision : Nat,
           phase : {"decision", "tool", "validation", "done"},
           steps : 0..MaxSteps,
           calls : 0..MaxToolCalls,
           inflight : BOOLEAN,           \* decision_inflight
           decision : Tools \cup {None},
           pending : 0..MaxToolCalls,    \* pending_call_id; 0 is None
           ask : Versions \cup {None},   \* approval.definition_digest
           okAct : Tools \cup {None},    \* approved_action_digest
           okDef : Versions \cup {None}, \* approved_definition_digest
           failed : BOOLEAN,             \* the last observation is a FAILURE
           mode : ModeSet]

EntrySet == [status : {"none", "started", "unknown", "completed"},
             step : 0..MaxSteps,
             tool : Tools \cup {None},
             policy : Policies]

NoEntry == [status |-> "none", step |-> 0, tool |-> None, policy |-> "unsupported"]

(* Program points of a driver.  Business points lie inside run_body. *)
Business == {"approving", "advance", "decision", "thinking", "validation",
             "tool", "dispatch", "granted", "handling", "settled", "failing"}
Cleaning == {"cancelling", "cancel", "timing_out", "time_out"}
Points == {"idle", "creating", "abandoned", "claiming", "releasing"}
              \cup Business \cup Cleaning

(* start (keyed or not), resume with or without an approval, run_background *)
Commands == {"start", "start_keyed", "resume", "approve", "reject", "background"}

DriverSet == [pc : Points,
              snap : RowSet,              \* execution.snapshot, perhaps stale
              ver : Versions \cup {None}, \* the tool definitions of its process
              command : Commands,         \* the entry point that invoked it
              mine : BOOLEAN,             \* created_here
              revoked : BOOLEAN,          \* revocation_error, dispatch_state.revoked
              call : CallSet \cup {None}] \* its registry call before handler entry

(* A save in flight: the row and the ledger it will store. *)
LateSet == [row : RowSet, led : [Calls -> EntrySet]]

ASSUME ToolsAssumption == Approval \subseteq Tools /\ None \notin Tools
ASSUME VersionsAssumption == None \notin Versions
ASSUME DriversAssumption == None \notin Drivers
ASSUME RecordsAssumption == None \notin CallSet /\ None \notin LateSet
ASSUME PolicyAssumption == Policy \in [Tools \X Versions -> Policies]
ASSUME ModesAssumption == Modes \subseteq ModeSet /\ Resumable \subseteq Active
ASSUME BoundsAssumption == /\ MaxSteps \in Nat /\ MaxToolCalls \in Nat
                           /\ LeaseTicks \in Nat \ {0}
                           /\ MaxRevision \in Nat /\ MaxFaults \in Nat
                           /\ MayExpire \in BOOLEAN

VARIABLES
    row,         \* durable_agent_runs: the persisted snapshot and its revision
    ledger,      \* durable_tool_ledger, by the tool-call number of the call id
    token,       \* lease_token
    leaseLeft,   \* time until lease_until; 0 when it has passed or is NULL
    expired,     \* expires_at has passed
    late,        \* save transactions whose issuer no longer waits for them
    drv,         \* the drivers: program point and _DurableExecution of each
    faults,      \* number of faults so far
    dispatches,  \* history: every handler entry
    approvals,   \* history: every approval a human gave
    attempts     \* history: provider decisions requested

storeVars == <<row, ledger, token, leaseLeft, expired>>
historyVars == <<dispatches, approvals, attempts>>
vars == <<storeVars, late, drv, faults, historyVars>>

\* The stored run, the tool ledger, the lease and the drivers hold values of
\* their kinds; the lease never exceeds its length.
TypeOK ==
    /\ row \in RowSet
    /\ ledger \in [Calls -> EntrySet]
    /\ token \in Drivers \cup {None}
    /\ leaseLeft \in 0..LeaseTicks
    /\ expired \in BOOLEAN
    /\ late \in [Drivers -> LateSet \cup {None}]
    /\ drv \in [Drivers -> DriverSet]
    /\ faults \in 0..MaxFaults
    /\ dispatches \subseteq CallSet
    /\ approvals \subseteq [tool : Tools, ver : Versions, step : 0..MaxSteps]
    /\ attempts \in Nat

-----------------------------------------------------------------------------
NewRow(m) == [status |-> "absent", revision |-> 0, phase |-> "decision", steps |-> 0,
              calls |-> 0, inflight |-> FALSE, decision |-> None, pending |-> 0,
              ask |-> None, okAct |-> None, okDef |-> None, failed |-> FALSE, mode |-> m]

(* No invocation: the execution object is gone with all it held. *)
Idle == [pc |-> "idle", snap |-> NewRow(row.mode), ver |-> None, command |-> "start",
         mine |-> FALSE, revoked |-> FALSE, call |-> None]

Init ==
    /\ \E m \in Modes : row = NewRow(m)
    /\ ledger = [c \in Calls |-> NoEntry]
    /\ token = None /\ leaseLeft = 0 /\ expired = FALSE
    /\ late = [d \in Drivers |-> None]
    /\ drv = [d \in Drivers |-> Idle]
    /\ faults = 0
    /\ dispatches = {} /\ approvals = {} /\ attempts = 0

-----------------------------------------------------------------------------
(* Pieces shared by the actions. *)

Snap(d) == drv[d].snap
At(d, p) == [drv[d] EXCEPT !.pc = p]
Become(d, r) == drv' = [drv EXCEPT ![d] = r]
Goto(d, p) == Become(d, IF p = "idle" THEN Idle ELSE At(d, p))

(* A fault the environment injects; the number of them is bounded. *)
Fault == faults < MaxFaults /\ faults' = faults + 1
NoFault == UNCHANGED faults

(* Seeded fault: the token alone fences a save. *)
FencedByToken(d, r) == row.status \in Active /\ token = d /\ leaseLeft > 0

(* The WHERE clause of store.save: revision, token, live lease, not terminal. *)
Fenced(d, r) == /\ row.status \in Active
                /\ row.revision = r
                /\ token = d
                /\ leaseLeft > 0

(* queue_only: a resume of background work queues the continuation. *)
QueueOnly(d) == row.mode.background /\ drv[d].command \in {"resume", "approve", "reject"}

(* _DurableExecution.stop and finish, as updates of the snapshot *)
Stop(s, st) == [s EXCEPT !.status = st, !.phase = "done", !.ask = None]

Finish(s, st) == [s EXCEPT !.status = st, !.phase = "done", !.ask = None, !.pending = 0]

(* execution.save and store.save, one transaction on the row and the        *)
(* ledger.  A completed ledger entry is immutable: writing it rolls the     *)
(* transaction back.                                                        *)
Immutable(led) == \E c \in Calls : led[c] # ledger[c] /\ ledger[c].status = "completed"

(* Seeded fault: a save does not move the revision. *)
SavedInPlace(d, new) == [new EXCEPT !.revision = Snap(d).revision]
Saved(d, new) == [new EXCEPT !.revision = Snap(d).revision + 1]

CommitSave(d, new, led) ==
    /\ Fenced(d, Snap(d).revision) /\ ~Immutable(led)
    /\ row' = Saved(d, new)
    /\ ledger' = led
    /\ UNCHANGED <<token, leaseLeft, expired>>

(* The save commits and is acknowledged; it commits and the acknowledgement *)
(* is lost, or storage fails; the fence refuses it, which always ends the   *)
(* driver; or the driver is stopped (lost lease, deadline, disconnect)      *)
(* while the transaction is still running.  The driver becomes "ok" after a *)
(* success and "bad" after a storage error.                                 *)
SaveWith(d, new, led, ok, bad) ==
    \/ /\ CommitSave(d, new, led)
       /\ Become(d, [ok EXCEPT !.snap = Saved(d, new)])
       /\ NoFault /\ UNCHANGED late
    \/ /\ CommitSave(d, new, led)
       /\ Become(d, bad)
       /\ Fault /\ UNCHANGED late
    \/ /\ Become(d, bad)
       /\ IF Immutable(led) THEN NoFault ELSE Fault
       /\ UNCHANGED <<storeVars, late>>
    \/ /\ ~Fenced(d, Snap(d).revision)
       /\ Become(d, [bad EXCEPT !.pc = "releasing"])
       /\ NoFault /\ UNCHANGED <<storeVars, late>>
    \/ /\ Fault
       /\ late[d] = None
       /\ late' = [late EXCEPT ![d] = [row |-> Saved(d, new), led |-> led]]
       /\ \E p \in {"releasing", "timing_out", "cancelling"} :
             Become(d, [bad EXCEPT !.pc = p, !.revoked = TRUE])
       /\ UNCHANGED storeVars

Save(d, new, next, bad) == SaveWith(d, new, ledger, At(d, next), At(d, bad))

(* The transaction left behind commits under the same fence, or rolls back. *)
LateSave(d) ==
    /\ late[d] # None
    /\ late' = [late EXCEPT ![d] = None]
    /\ \/ /\ Fenced(d, late[d].row.revision - 1)
          /\ ~Immutable(late[d].led)
          /\ row' = late[d].row /\ ledger' = late[d].led
          /\ UNCHANGED <<token, leaseLeft, expired>>
       \/ UNCHANGED storeVars
    /\ NoFault /\ UNCHANGED <<drv, historyVars>>

(* A fresh _DurableExecution *)
Armed(cmd, s, v, p) == [pc |-> p, snap |-> s, ver |-> v, command |-> cmd,
                        mine |-> cmd = "start", revoked |-> FALSE, call |-> None]

(* An invocation draws a token the row does not hold. *)
Free(d) == drv[d].pc = "idle" /\ token # d /\ late[d] = None

-----------------------------------------------------------------------------
(* Starting a run: start, _start_keyed, create, create_keyed, lookup_keyed *)

(* A keyed start reads first and only goes on when the key is unused; an    *)
(* unkeyed start draws a fresh run id, which no other start can hold.       *)
BeginStart(d) ==
    /\ Free(d) /\ row.status = "absent"
    /\ row.mode.keyed \/ \A e \in Drivers : drv[e].pc \notin {"creating", "abandoned"}
    /\ \E v \in Versions :
          Become(d, Armed(IF row.mode.keyed THEN "start_keyed" ELSE "start",
                          [row EXCEPT !.status = "running"], v, "creating"))
    /\ NoFault /\ UNCHANGED <<storeVars, late, historyVars>>

(* Seeded fault: an insert that replaces what the key already holds. *)
InsertBlind(d) ==
    /\ row' = Snap(d)
    /\ IF row.mode.keyed THEN token' = d /\ leaseLeft' = LeaseTicks
                         ELSE UNCHANGED <<token, leaseLeft>>
    /\ UNCHANGED <<ledger, expired>>

(* The insert: both rows and, for a keyed start, the initial lease.  The    *)
(* retained legacy row makes the insert of a used key fail.                 *)
Insert(d) ==
    /\ row.status = "absent"
    /\ row' = Snap(d)
    /\ IF row.mode.keyed THEN token' = d /\ leaseLeft' = LeaseTicks
                         ELSE UNCHANGED <<token, leaseLeft>>
    /\ UNCHANGED <<ledger, expired>>

(* A committed and acknowledged insert: background work is left to the      *)
(* worker (a keyed start first gives its lease back), inline work is driven *)
Create(d) ==
    /\ drv[d].pc = "creating"
    /\ Insert(d)
    /\ Goto(d, IF ~row.mode.background THEN "claiming"
               ELSE IF row.mode.keyed THEN "releasing" ELSE "idle")
    /\ NoFault /\ UNCHANGED <<late, historyVars>>

(* A duplicate key: the loser only reads the winner's run. *)
CreateDuplicate(d) ==
    /\ drv[d].pc = "creating" /\ row.status # "absent"
    /\ Goto(d, "idle")
    /\ NoFault /\ UNCHANGED <<storeVars, late, historyVars>>

(* The insert commits but its response is lost: cleanup with this token. *)
CreateUnacked(d) ==
    /\ drv[d].pc = "creating"
    /\ Insert(d)
    /\ Fault
    /\ Goto(d, "cancelling")
    /\ UNCHANGED <<late, historyVars>>

(* The caller gives up first.  Its cleanup finds nothing of its own, while  *)
(* the storage task may still be running.                                   *)
CreateAbandoned(d) ==
    /\ drv[d].pc = "creating"
    /\ Fault
    /\ Goto(d, "abandoned")
    /\ UNCHANGED <<storeVars, late, historyVars>>

(* The abandoned storage task ends: a late commit has no continuation but,  *)
(* for a keyed start, a second cleanup; or it never commits.                *)
LateCreate(d) ==
    /\ drv[d].pc = "abandoned"
    /\ \/ Insert(d) /\ Goto(d, IF row.mode.keyed THEN "cancelling" ELSE "idle")
       \/ Goto(d, "idle") /\ UNCHANGED storeVars
    /\ NoFault /\ UNCHANGED <<late, historyVars>>

-----------------------------------------------------------------------------
(* Resuming a run: resume, run_background, and the claim in _drive *)

(* resume: the command names the revision the caller has seen, and an       *)
(* awaited approval is answered by a process with the same definition.      *)
BeginResume(d) ==
    /\ Free(d) /\ row.status \in Resumable /\ ~expired /\ row.revision < MaxRevision
    /\ \E v \in Versions :
          IF row.status = "awaiting_approval"
          THEN /\ v = row.ask
               /\ \/ /\ Become(d, Armed("approve", row, v, "claiming"))
                     /\ approvals' = approvals \cup
                          {[tool |-> row.decision, ver |-> v, step |-> row.steps]}
                  \/ Become(d, Armed("reject", row, v, "claiming")) /\ UNCHANGED approvals
          ELSE Become(d, Armed("resume", row, v, "claiming")) /\ UNCHANGED approvals
    /\ NoFault /\ UNCHANGED <<storeVars, late, dispatches, attempts>>

(* Seeded fault: only work that no worker ever held is ready. *)
BeginUnowned(d) ==
    /\ Free(d) /\ row.status = "running" /\ row.mode.background
    /\ ~expired /\ token = None /\ row.revision < MaxRevision
    /\ \E v \in Versions : Become(d, Armed("background", row, v, "claiming"))
    /\ NoFault /\ UNCHANGED <<storeVars, late, historyVars>>

(* The scheduler's tick: ready_background, then run_background *)
BeginBackground(d) ==
    /\ Free(d) /\ row.status = "running" /\ row.mode.background
    /\ ~expired /\ leaseLeft = 0 /\ row.revision < MaxRevision
    /\ \E v \in Versions : Become(d, Armed("background", row, v, "claiming"))
    /\ NoFault /\ UNCHANGED <<storeVars, late, historyVars>>

(* store.acquire: one winner per revision and lease.  An active-time run    *)
(* settles its budget in the same transaction, which moves the revision.    *)
Acquirable(d) == /\ row.status \in Active /\ row.revision = Snap(d).revision
                 /\ ~expired /\ leaseLeft = 0

CommitAcquire(d) ==
    /\ Acquirable(d)
    /\ token' = d /\ leaseLeft' = LeaseTicks
    /\ row' = IF row.mode.active THEN [row EXCEPT !.revision = @ + 1] ELSE row
    /\ UNCHANGED <<ledger, expired>>

(* store.renew, as the claim of a keyed start and as the heartbeat *)
Renewable(d) == token = d /\ leaseLeft > 0 /\ row.status \in Active

CommitRenew(d) ==
    /\ Renewable(d)
    /\ leaseLeft' = LeaseTicks
    /\ UNCHANGED <<row, ledger, token, expired>>

CommitClaim(d) == IF drv[d].command = "start_keyed" THEN CommitRenew(d) ELSE CommitAcquire(d)

Claim(d) ==
    /\ drv[d].pc = "claiming"
    /\ CommitClaim(d)
    /\ Become(d, [drv[d] EXCEPT
           !.pc = IF Snap(d).status = "awaiting_approval" THEN "approving"
                  ELSE IF QueueOnly(d) THEN "releasing" ELSE "advance",
           !.snap.revision = IF drv[d].command = "start_keyed" THEN @ ELSE row'.revision,
           !.mine = FALSE])
    /\ NoFault /\ UNCHANGED <<late, historyVars>>

(* Another driver won, or the row moved on: RESUME_CONFLICT, LEASE_LOST *)
ClaimRefused(d) ==
    /\ drv[d].pc = "claiming"
    /\ IF drv[d].command = "start_keyed" THEN ~Renewable(d) ELSE ~Acquirable(d)
    /\ Goto(d, "idle")
    /\ NoFault /\ UNCHANGED <<storeVars, late, historyVars>>

(* The claim times out, committed or not: the cleanup reconciles. *)
ClaimUnacked(d) ==
    /\ drv[d].pc = "claiming"
    /\ CommitClaim(d) \/ UNCHANGED storeVars
    /\ Fault
    /\ Goto(d, "cancelling")
    /\ UNCHANGED <<late, historyVars>>

-----------------------------------------------------------------------------
(* run_body: the answer to an approval request, then advance in a loop *)

AnswerApproval(d) ==
    /\ drv[d].pc = "approving"
    /\ IF drv[d].command = "approve"
       THEN Save(d, [Snap(d) EXCEPT !.status = "running", !.okAct = Snap(d).decision,
                                    !.okDef = Snap(d).ask, !.ask = None],
                 IF QueueOnly(d) THEN "releasing" ELSE "advance", "releasing")
       ELSE Save(d, Stop(Snap(d), "cancelled"), "releasing", "releasing")
    /\ UNCHANGED historyVars

(* advance: reload the authoritative snapshot and branch on its phase.  A   *)
(* tool phase with a pending call must be reconciled before any dispatch.   *)
Advance(d) ==
    /\ drv[d].pc = "advance"
    /\ IF row.status = "running"
       THEN Become(d, [drv[d] EXCEPT
              !.snap = row,
              !.pc = IF row.phase = "tool" /\ row.pending = 0 THEN "dispatch" ELSE row.phase])
       ELSE Goto(d, "releasing")
    /\ NoFault /\ UNCHANGED <<storeVars, late, historyVars>>

(* advance: the budget is spent, the clock went back, or the context, the   *)
(* evidence or the tool definition no longer validates.                     *)
StopEarly(d) ==
    /\ drv[d].pc \in {"decision", "validation", "tool", "dispatch"}
    /\ \E st \in {"stopped", "failed"}, bad \in {"releasing", "failing"} :
          Save(d, Stop(Snap(d), st), "releasing", bad)
    /\ UNCHANGED historyVars

Reserved(s) == [s EXCEPT !.steps = @ + 1, !.inflight = TRUE]

StepLeft(s) == s.steps < MaxSteps

(* The decision attempt is reserved before the provider is called. *)
Reserve(d) ==
    /\ drv[d].pc = "decision" /\ ~Snap(d).failed
    /\ IF StepLeft(Snap(d))
       THEN /\ Save(d, Reserved(Snap(d)), "thinking", "failing")
            /\ attempts' = IF drv'[d].pc = "thinking" THEN attempts + 1 ELSE attempts
       ELSE /\ Save(d, Finish(Snap(d), "stopped"), "releasing", "failing")
            /\ UNCHANGED attempts
    /\ UNCHANGED <<dispatches, approvals>>

(* The provider answers: a tool call, a final answer, or a failed run. *)
Decide(d) ==
    /\ drv[d].pc = "thinking"
    /\ \/ \E t \in Tools :
             Save(d, [Snap(d) EXCEPT !.decision = t, !.inflight = FALSE, !.phase = "tool"],
                  "advance", "failing")
       \/ Save(d, [Snap(d) EXCEPT !.decision = None, !.inflight = FALSE,
                                  !.phase = "validation"], "advance", "failing")
       \/ \E st \in {"failed", "stopped"} :
             Save(d, Finish(Snap(d), st), "releasing", "failing")
    /\ UNCHANGED historyVars

Validate(d) ==
    /\ drv[d].pc = "validation"
    /\ \E st \in {"completed", "failed", "stopped"} :
          Save(d, Finish(Snap(d), st), "releasing", "failing")
    /\ UNCHANGED historyVars

-----------------------------------------------------------------------------
(* execute_tool, _ToolJournal and ToolRegistry.execute *)

(* The replay policy of the decided tool, as this process defines it *)
PolicyOf(d) == Policy[<<Snap(d).decision, drv[d].ver>>]

(* Seeded fault: only the current definition decides about a replay. *)
ReplayableNow(d, e) == PolicyOf(d) = "read_only"

(* Both the policy in the ledger and the current definition's must allow it. *)
Replayable(d, e) == /\ e.policy = "read_only"
                    /\ PolicyOf(d) = "read_only"

(* An uncertain dispatch of an earlier driver: only a call that was and     *)
(* still is read-only may be replayed.                                      *)
Reconcile(d) ==
    /\ drv[d].pc = "tool"
    /\ LET c == Snap(d).pending
           e == ledger[c] IN
       IF e.tool # Snap(d).decision \/ e.status = "completed"
            \/ PolicyOf(d) = "unsupported"
       THEN Save(d, Stop(Snap(d), "failed"), "releasing", "releasing")
       ELSE IF ~Replayable(d, e)
       THEN Save(d, Stop(Snap(d), "intervention_required"), "releasing", "failing")
       ELSE SaveWith(d, [Snap(d) EXCEPT !.pending = 0],
                     [ledger EXCEPT ![c].status = "unknown"],
                     At(d, "dispatch"), At(d, "failing"))
    /\ UNCHANGED historyVars

(* What execute_tool does instead of dispatching: the tool-call budget is   *)
(* spent (or the action repeats, or time is up), an approval is missing, or *)
(* the approved definition is not the one this process would run.           *)
NeedsApproval(d) == Snap(d).decision \in Approval /\ Snap(d).okAct # Snap(d).decision

Dispatchable(d) ==
    /\ Snap(d).calls < MaxToolCalls
    /\ PolicyOf(d) # "unsupported"

Exhausted(d) ==
    /\ drv[d].pc = "dispatch"
    /\ Save(d, Finish(Snap(d), "stopped"), "releasing", "failing")
    /\ UNCHANGED historyVars

RequestApproval(d) ==
    /\ drv[d].pc = "dispatch" /\ Dispatchable(d) /\ NeedsApproval(d)
    /\ Save(d, [Snap(d) EXCEPT !.status = "awaiting_approval", !.ask = drv[d].ver],
            "releasing", "failing")
    /\ UNCHANGED historyVars

(* Seeded fault: an approval is not bound to a definition. *)
ApprovalStaleNever(d) == FALSE
ApprovalStale(d) == Snap(d).decision \in Approval /\ Snap(d).okDef # drv[d].ver

RefuseStale(d) ==
    /\ drv[d].pc = "dispatch" /\ Dispatchable(d) /\ ~NeedsApproval(d) /\ ApprovalStale(d)
    /\ Save(d, Stop(Snap(d), "failed"), "releasing", "releasing")
    /\ UNCHANGED historyVars

Counted(s) == [s EXCEPT !.calls = @ + 1, !.pending = s.calls + 1]

(* before_dispatch: the call is counted and journalled as started in one    *)
(* transaction, before the registry is entered.                             *)
Journal(d) ==
    /\ drv[d].pc = "dispatch" /\ Dispatchable(d) /\ ~NeedsApproval(d) /\ ~ApprovalStale(d)
    /\ LET s == Snap(d)
           c == s.calls + 1
           p == PolicyOf(d) IN
       SaveWith(d, Counted(s),
                [ledger EXCEPT ![c] = [status |-> "started", step |-> s.steps,
                                       tool |-> s.decision, policy |-> p]],
                [At(d, "granted") EXCEPT !.call =
                    [call |-> c, step |-> s.steps, tool |-> s.decision,
                     ver |-> drv[d].ver, policy |-> p, by |-> d]],
                At(d, "failing"))
    /\ UNCHANGED historyVars

(* The registry call ended without entering its handler. *)
Dropped(d, p) == [drv[d] EXCEPT !.pc = p, !.call = None]

(* Time runs out, or the clock goes back, between the journal entry and the  *)
(* registry.                                                                 *)
GrantExpired(d) ==
    /\ drv[d].pc = "granted"
    /\ \E st \in {"stopped", "failed"} :
          SaveWith(d, Stop(Snap(d), st), ledger, Dropped(d, "releasing"), Dropped(d, "releasing"))
    /\ UNCHANGED historyVars

(* The registry refuses before the handler is entered, which its receipt    *)
(* proves: the known failure and the completed ledger commit together.      *)
Reject(d) ==
    /\ drv[d].pc = "granted"
    /\ SaveWith(d, Finish(Snap(d), "failed"),
                [ledger EXCEPT ![Snap(d).pending].status = "completed"],
                Dropped(d, "releasing"), Dropped(d, "failing"))
    /\ UNCHANGED historyVars

(* The registry call reaches its handler.  It runs as a task of its own     *)
(* that may outlive the driver's wait for it; only a revocation stops it.   *)
EnterHandler(d) ==
    /\ drv[d].call # None /\ ~drv[d].revoked
    /\ dispatches' = dispatches \cup {drv[d].call}
    /\ Become(d, Dropped(d, IF drv[d].pc = "granted" THEN "handling" ELSE drv[d].pc))
    /\ NoFault
    /\ UNCHANGED <<storeVars, late, approvals, attempts>>

Observed(s, f) == [s EXCEPT !.phase = "decision", !.decision = None, !.pending = 0,
                            !.okAct = None, !.okDef = None, !.failed = f]

(* after_dispatch: result, ledger completion and the end of the approval    *)
(* are one transaction; "f" is the observation's failure status.            *)
HandlerReturns(d) ==
    /\ drv[d].pc = "handling"
    /\ \E f \in BOOLEAN :
          SaveWith(d, Observed(Snap(d), f),
                   [ledger EXCEPT ![Snap(d).pending].status = "completed"],
                   At(d, "settled"), At(d, "failing"))
    /\ UNCHANGED historyVars

(* The handler raises or times out: its effect is unknown. *)
HandlerFails(d) ==
    /\ drv[d].pc = "handling"
    /\ IF ledger[Snap(d).pending].policy = "never"
       THEN Save(d, Stop(Snap(d), "intervention_required"), "releasing", "failing")
       ELSE \E st \in {"failed", "stopped"} :
               Save(d, Finish(Snap(d), st), "releasing", "failing")
    /\ UNCHANGED historyVars

(* The result no longer validates (evidence changed): a failed run. *)
ResultInvalid(d) ==
    /\ drv[d].pc = "handling"
    /\ Save(d, Stop(Snap(d), "failed"), "releasing", "releasing")
    /\ UNCHANGED historyVars

(* The checkpoint after the result: a failed observation ends the run. *)
Settle(d) ==
    /\ drv[d].pc = "settled"
    /\ IF Snap(d).failed THEN Save(d, Finish(Snap(d), "failed"), "releasing", "failing")
                         ELSE Save(d, Snap(d), "advance", "failing")
    /\ UNCHANGED historyVars

(* except DomainError in advance: try to record the failure. *)
Fail(d) ==
    /\ drv[d].pc = "failing"
    /\ Save(d, Stop(Snap(d), "failed"), "releasing", "releasing")
    /\ UNCHANGED historyVars

-----------------------------------------------------------------------------
(* Supervision: heartbeat, deadline, disconnect, and the cleanups *)

Heartbeat(d) ==
    /\ drv[d].pc \in Business
    /\ CommitRenew(d)
    /\ NoFault /\ UNCHANGED <<drv, late, historyVars>>

(* Seeded fault: the task is left behind with its dispatch right. *)
AbortOnly(d, p) == Goto(d, p) /\ UNCHANGED <<storeVars, late, historyVars>>

(* revoke, then leave the business task behind *)
Abort(d, p) ==
    /\ Become(d, [drv[d] EXCEPT !.pc = p, !.revoked = TRUE])
    /\ UNCHANGED <<storeVars, late, historyVars>>

(* A failed renewal: the lease is lost, or storage cannot confirm it. *)
HeartbeatFails(d) ==
    /\ drv[d].pc \in Business
    /\ IF Renewable(d) THEN Fault ELSE NoFault
    /\ Abort(d, "releasing")

(* The remaining budget elapses while the business task runs. *)
Timeout(d) ==
    /\ drv[d].pc \in Business
    /\ NoFault
    /\ Abort(d, "timing_out")

(* The request is cancelled: while claiming, running or releasing. *)
Disconnect(d) ==
    /\ drv[d].pc \in Business \cup {"claiming", "releasing"}
    /\ ~(drv[d].command = "start_keyed" /\ row.mode.background)
    /\ Fault
    /\ Abort(d, "cancelling")

Owned(d) == token = d \/ (drv[d].mine /\ token = None /\ row.revision = 0)

(* _terminal_cleanup: load and owns *)
CleanupLoad(d) ==
    /\ drv[d].pc \in {"cancelling", "timing_out"}
    /\ IF row.status \in Active /\ Owned(d)
       THEN Become(d, [drv[d] EXCEPT
              !.snap = row, !.pc = IF @ = "cancelling" THEN "cancel" ELSE "time_out"])
       ELSE Goto(d, "releasing")
    /\ NoFault /\ UNCHANGED <<storeVars, late, historyVars>>

(* store.cancel: it needs the revision, and ownership when a cleanup calls  *)
(* it; it clears the lease so that every later write of the owner fails.    *)
CommitCancel(s) ==
    /\ row.status \in Active /\ row.revision = s.revision
    /\ row' = [Stop(s, "cancelled") EXCEPT !.revision = s.revision + 1]
    /\ token' = None /\ leaseLeft' = 0
    /\ UNCHANGED <<ledger, expired>>

CleanupCancel(d) ==
    /\ drv[d].pc = "cancel"
    /\ IF row.status \in Active /\ row.revision = Snap(d).revision /\ Owned(d)
       THEN CommitCancel(Snap(d)) /\ Goto(d, "releasing")
       ELSE Goto(d, "cancelling") /\ UNCHANGED storeVars
    /\ NoFault /\ UNCHANGED <<late, historyVars>>

(* The timeout cleanup: an uncertain "never" call needs intervention. *)
CleanupStop(d) ==
    /\ drv[d].pc = "time_out"
    /\ LET c == Snap(d).pending IN
       Save(d, Stop(Snap(d), IF c # 0 /\ ledger[c].status = "started"
                                      /\ ledger[c].policy = "never"
                             THEN "intervention_required" ELSE "stopped"),
            "releasing", "releasing")
    /\ UNCHANGED historyVars

(* A cleanup is bounded: storage trouble ends it without a fence.  The lease *)
(* is then released only if a claimed invocation is ending.                  *)
CleanupGivesUp(d) ==
    /\ drv[d].pc \in Cleaning
    /\ Fault
    /\ Goto(d, "releasing") \/ Goto(d, "idle")
    /\ UNCHANGED <<storeVars, late, historyVars>>

(* store.release, fenced by the token; it may fail without effect. *)
Release(d) ==
    /\ drv[d].pc = "releasing"
    /\ \/ /\ NoFault
          /\ IF token = d THEN token' = None /\ leaseLeft' = 0
                          ELSE UNCHANGED <<token, leaseLeft>>
          /\ UNCHANGED <<row, ledger, expired>>
       \/ Fault /\ UNCHANGED storeVars
    /\ Goto(d, "idle")
    /\ UNCHANGED <<late, historyVars>>

-----------------------------------------------------------------------------
(* The environment *)

(* The process dies with everything it holds in memory. *)
Crash(d) ==
    /\ drv[d].pc # "idle"
    /\ Fault
    /\ Goto(d, "idle")
    /\ UNCHANGED <<storeVars, late, historyVars>>

(* The owner cancels through the API: load and compare-and-set. *)
Cancel ==
    /\ ~expired /\ CommitCancel(row)
    /\ NoFault /\ UNCHANGED <<drv, late, historyVars>>

(* Time passes.  A live owner renews in time, save for a fault. *)
Tick ==
    /\ leaseLeft > 0
    /\ leaseLeft' = leaseLeft - 1
    /\ IF leaseLeft > 1 \/ token = None \/ drv[token].pc = "idle" THEN NoFault ELSE Fault
    /\ UNCHANGED <<row, ledger, token, expired, drv, late, historyVars>>

Expire ==
    /\ MayExpire /\ ~expired /\ row.status # "absent"
    /\ expired' = TRUE
    /\ NoFault /\ UNCHANGED <<row, ledger, token, leaseLeft, drv, late, historyVars>>

(* purge_expired, swept by any request of the tenant: the private row and   *)
(* the ledger go, the legacy row stays.                                     *)
Purge ==
    /\ expired /\ row.status \in Active \cup Terminal
    /\ row' = [row EXCEPT !.status = "purged"]
    /\ ledger' = [c \in Calls |-> NoEntry]
    /\ token' = None /\ leaseLeft' = 0
    /\ NoFault /\ UNCHANGED <<expired, drv, late, historyVars>>

-----------------------------------------------------------------------------
Starting(d) == BeginStart(d) \/ Create(d) \/ CreateDuplicate(d) \/ CreateUnacked(d)
                   \/ CreateAbandoned(d) \/ LateCreate(d)
Claiming(d) == BeginResume(d) \/ BeginBackground(d) \/ Claim(d) \/ ClaimRefused(d)
                   \/ ClaimUnacked(d)
Working(d) == AnswerApproval(d) \/ Advance(d) \/ StopEarly(d) \/ Reserve(d) \/ Decide(d)
                  \/ Validate(d) \/ Fail(d)
UsingTool(d) == Reconcile(d) \/ Exhausted(d) \/ RequestApproval(d) \/ RefuseStale(d)
                    \/ Journal(d) \/ GrantExpired(d) \/ Reject(d) \/ EnterHandler(d)
                    \/ HandlerReturns(d) \/ HandlerFails(d) \/ ResultInvalid(d) \/ Settle(d)
Supervising(d) == Heartbeat(d) \/ HeartbeatFails(d) \/ Timeout(d) \/ Disconnect(d)
                      \/ CleanupLoad(d) \/ CleanupCancel(d) \/ CleanupStop(d)
                      \/ CleanupGivesUp(d) \/ Release(d) \/ Crash(d) \/ LateSave(d)

Next ==
    \/ \E d \in Drivers : Starting(d) \/ Claiming(d) \/ Working(d) \/ UsingTool(d)
                              \/ Supervising(d)
    \/ Cancel \/ Tick \/ Expire \/ Purge

Spec == Init /\ [][Next]_vars

(* What the process does by itself: it takes the next step of every          *)
(* invocation it has begun, run_scheduler polls for ready background work,    *)
(* transactions end, and an unrenewed lease runs out.  No fault is fair, and  *)
(* neither is a client.                                                       *)
Proceed(d) ==
    /\ NoFault
    /\ \/ Create(d) \/ CreateDuplicate(d) \/ LateCreate(d) \/ Claim(d) \/ ClaimRefused(d)
       \/ Working(d) \/ UsingTool(d)
       \/ CleanupLoad(d) \/ CleanupCancel(d) \/ CleanupStop(d) \/ Release(d)

Poll == \E d \in Drivers : BeginBackground(d)

FairSpec ==
    /\ Spec
    /\ \A d \in Drivers : WF_vars(Proceed(d)) /\ WF_vars(LateSave(d))
    /\ WF_vars(Poll)
    /\ WF_vars(Tick /\ NoFault)

-----------------------------------------------------------------------------
(* Correctness *)

(* At-most-once for side effects.  When a second handler is entered for the *)
(* same decision (same step), the earlier call was read-only: "Only         *)
(* read-only tools may replay an uncertain dispatch" (service.py).  And no  *)
(* call id is ever entered twice, whoever drives the run.                   *)
ReplayOnlyReadOnly ==
    \A x, y \in dispatches :
        /\ x.call = y.call => x = y
        /\ x.step = y.step /\ x.call < y.call => x.policy = "read_only"

(* Consent.  A tool that needs approval is entered only after a human has   *)
(* approved that very action, in that step, for the definition the entering *)
(* process runs: no approval survives its decision or a redeploy.           *)
ApprovedDispatch ==
    \A x \in dispatches :
        x.tool \in Approval => [tool |-> x.tool, ver |-> x.ver, step |-> x.step] \in approvals

(* A pending call id and its ledger entry move in one transaction, so the   *)
(* combinations execute_tool treats as a malformed snapshot never occur.    *)
PendingIsStarted ==
    row.status \in Active \cup Terminal /\ row.pending # 0 =>
        /\ ledger[row.pending].status = "started"
        /\ ledger[row.pending].step = row.steps
        /\ ledger[row.pending].tool = row.decision

(* No lost update: whoever could still pass the revision check holds        *)
(* exactly the stored snapshot, so a save overwrites nothing it has not     *)
(* read (the compare-and-set of save, cancel and acquire).                  *)
NoLostUpdate ==
    \A d \in Drivers :
        drv[d].pc \notin {"idle", "creating", "abandoned"} /\ row.status \in Active
            /\ Snap(d).revision = row.revision => Snap(d) = row

(* Every provider request was reserved first: crashes refund nothing. *)
AttemptsReserved == attempts <= row.steps

(* Every handler entry was counted first. *)
DispatchesCounted == \A x \in dispatches : x.call <= row.calls /\ x.step <= row.steps

(* A terminal state is final, and a used run id is never created again:     *)
(* not by a late save, a late cancel or a start after the purge.            *)
TerminalIsFinal ==
    [][/\ row.status \in Terminal => row'.status \in {row.status, "purged"}
       /\ row.status = "purged" => row'.status = "purged"]_vars

(* Spent steps and tool calls never go back, whichever driver saves. *)
BudgetNeverRefunded ==
    [][row'.steps >= row.steps /\ row'.calls >= row.calls]_vars

(* A registry call left behind by a timeout, a lost lease or a disconnect   *)
(* cannot enter its handler later.                                          *)
NoLateDispatch ==
    [][\A x \in dispatches' \ dispatches : drv[x.by].pc = "granted"]_vars

(* A background run that was accepted does not stay running for ever: after *)
(* the last crash, lost lease or storage fault some worker ends it, or it   *)
(* waits for a human.                                                       *)
BackgroundEnds ==
    row.mode.background /\ row.status = "running" ~> row.status # "running"

(* DURABLE_AGENT.md of an uncertain dispatch: "A `never` tool moves to       *)
(* `intervention_required`; the service will not guess whether a side effect *)
(* occurred."                                                                *)
UncertainNeedsIntervention ==
    row.status \in {"failed", "stopped"} =>
        \A x \in dispatches : x.policy = "never" => ledger[x.call].status = "completed"

-----------------------------------------------------------------------------
(* The inductive invariant behind these properties *)

(* Handler entries, past and still possible *)
Journalled == dispatches \cup ({drv[d].call : d \in Drivers} \ {None})

(* What a stored row r with ledger l owes to the history: the journalled      *)
(* calls J, the provider attempts n and the approvals g.  The heart: while a  *)
(* tool decision is open, a "never" call made for it is exactly the pending   *)
(* one, so a driver that finds no pending call may dispatch.                  *)
RowOK(r, l, J, n, g) ==
    /\ n <= r.steps
    /\ \A x \in J : x.call <= r.calls /\ x.step <= r.steps
    /\ r.status \in Active \cup Terminal /\ r.pending # 0 =>
          /\ r.pending <= r.calls
          /\ l[r.pending].status = "started"
          /\ l[r.pending].step = r.steps
          /\ l[r.pending].tool = r.decision
    /\ r.status \in Active =>
          /\ r.phase # "done"
          /\ r.status = "awaiting_approval" =>
                r.phase = "tool" /\ r.pending = 0 /\ r.ask \in Versions
          /\ r.phase = "tool" =>
                /\ r.decision \in Tools /\ ~r.inflight
                /\ \A x \in J : x.step = r.steps /\ x.policy = "never" =>
                      r.pending = x.call /\ l[x.call].policy = "never"
          /\ r.phase # "tool" => r.pending = 0 /\ r.okAct = None
          /\ r.inflight => \A x \in J : x.step < r.steps
          /\ r.okAct # None => [tool |-> r.okAct, ver |-> r.okDef, step |-> r.steps] \in g

(* No call number is used twice, and a second call of one step follows only  *)
(* read-only ones.                                                           *)
CallsOK(J, g) ==
    /\ \A x \in J :
          /\ x.policy \in {"read_only", "never"}
          /\ x.tool \in Approval => [tool |-> x.tool, ver |-> x.ver, step |-> x.step] \in g
    /\ \A x, y \in J :
          /\ x.call = y.call => x = y
          /\ x.step = y.step /\ x.call < y.call => x.policy = "read_only"

(* A snapshot s that may still pass the revision check is the row r. *)
Fresh(s, r) == /\ r.status # "absent" /\ s.revision <= r.revision
               /\ r.status \in Active /\ s.revision = r.revision => s = r

(* What a driver at point p knows of its snapshot s *)
Knows(p, s) ==
    /\ p \in {"decision", "thinking", "validation", "tool", "dispatch", "granted",
              "handling", "settled", "failing"} => s.status = "running"
    /\ p \in {"decision", "thinking", "settled"} => s.phase = "decision"
    /\ p = "thinking" => s.inflight
    /\ p = "validation" => s.phase = "validation"
    /\ p \in {"tool", "granted", "handling"} => s.phase = "tool" /\ s.pending # 0
    /\ p = "dispatch" => s.phase = "tool" /\ s.pending = 0
    /\ p \in {"tool", "dispatch", "granted", "handling"} => s.decision \in Tools
    /\ p = "approving" => s.status = "awaiting_approval"

DriverOK(d, x, r, g) ==
    /\ x.pc # "idle" => x.ver \in Versions
    /\ x.pc \in {"creating", "abandoned"} =>
          /\ x.snap = [NewRow(r.mode) EXCEPT !.status = "running"]
          /\ x.command # "approve"
    /\ x.pc \notin {"idle", "creating", "abandoned"} => Fresh(x.snap, r)
    /\ Knows(x.pc, x.snap)
    /\ x.command = "approve" /\ x.pc \in {"claiming", "approving"} =>
          [tool |-> x.snap.decision, ver |-> x.snap.ask, step |-> x.snap.steps] \in g
    /\ x.call # None => x.call.by = d /\ (x.pc = "granted" \/ x.revoked)

(* A transaction t left behind has lost its revision or stores a good row. *)
LateOK(t, r, J, n, g) ==
    t # None =>
        /\ r.status # "absent" /\ t.row.revision <= r.revision + 1
        /\ r.status \in Active /\ t.row.revision = r.revision + 1 =>
              /\ RowOK(t.row, t.led, J, n, g)
              /\ t.row.steps >= r.steps /\ t.row.calls >= r.calls
              /\ t.row.status \in Active \cup Terminal
              /\ t.row.mode = r.mode

(* The strengthening that every action preserves *)
IndInv ==
    /\ TypeOK
    /\ row.status = "absent" => row = NewRow(row.mode)
    /\ RowOK(row, ledger, Journalled, attempts, approvals)
    /\ CallsOK(Journalled, approvals)
    /\ \A d \in Drivers : /\ DriverOK(d, drv[d], row, approvals)
                          /\ LateOK(late[d], row, Journalled, attempts, approvals)
====
