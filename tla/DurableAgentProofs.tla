------------------------- MODULE DurableAgentProofs -------------------------
(***************************************************************************)
(* Proofs about DurableAgent, for every number of drivers, every set of    *)
(* tools, versions and policies, and every bound: the remaining steps (the *)
(* tool call, supervision and environment), the invariance of IndInv, and  *)
(* the theorems that follow from it.                                       *)
(***************************************************************************)
EXTENDS DurableAgentSteps

-----------------------------------------------------------------------------
(* The registry call is over before its handler was entered. *)
LEMMA DroppedOK ==
    ASSUME NEW x \in DriverSet, NEW p \in Points
    PROVE  LET y == [x EXCEPT !.pc = p, !.call = None] IN
           /\ y \in DriverSet /\ y.pc = p /\ y.ver = x.ver /\ y.call = None /\ y.snap = x.snap
           /\ y.command = x.command
BY Zenon DEF DriverSet

LEMMA DroppedSave ==
    ASSUME IndInv, NEW d \in Drivers, NEW new \in RowSet, NEW led \in [Calls -> EntrySet],
           NEW b \in {"releasing", "failing"}, drv[d].pc = "granted",
           SaveWith(d, new, led, Dropped(d, "releasing"), Dropped(d, b)), UNCHANGED historyVars,
           Snap(d) = row /\ row.status \in Active =>
              /\ RowOK(new, led, Journalled, attempts, approvals)
              /\ new.steps = row.steps /\ new.calls = row.calls
              /\ new.mode = row.mode /\ new.status \in Terminal
    PROVE  IndInv'
<1> DEFINE ok == Dropped(d, "releasing")
           no == Dropped(d, b)
<1>1. /\ ok \in DriverSet /\ ok.pc = "releasing" /\ ok.ver = drv[d].ver /\ ok.call = None
      /\ no \in DriverSet /\ no.pc = b /\ no.ver = drv[d].ver /\ no.call = None
      /\ no.snap = Snap(d)
  <2>1. drv[d] \in DriverSet /\ "releasing" \in Points /\ b \in Points
    BY Facts, Zenon DEF Points, Business
  <2> QED
    BY <2>1, DroppedOK, ZenonT(30) DEF Dropped, Snap
<1>2. drv[d].ver \in Versions /\ Snap(d).status = "running"
  BY Facts, Zenon DEF DriverOK, Knows
<1>3. UNCHANGED <<dispatches, approvals, attempts>> /\ attempts \in Nat
  BY DEF historyVars, IndInv, TypeOK
<1>4. Knows("releasing", new) /\ Knows(b, Snap(d))
  BY <1>2 DEF Knows
<1>5. ok.pc \in After /\ no.pc \in After
  BY <1>1 DEF After, Points, Business
<1>6. Journalled \cup ({ok.call} \ {None}) = Journalled
  BY <1>1
<1>7. row.steps >= row.steps /\ row.calls >= row.calls /\ CallsOK(Journalled, approvals)
  BY Facts DEF RowSet
<1>8. SaveWith(d, new, led, ok, no)
  OBVIOUS
<1> HIDE DEF ok, no
<1> QED
  BY <1>1, <1>2, <1>3, <1>4, <1>5, <1>6, <1>7, <1>8, SaveLemma, Zenon
     DEF GoodSave, GoodDrivers, Reserves

(* A replay: both policies allow it, so no "never" call was made for the     *)
(* open decision and the pending call may be dropped.                        *)
LEMMA ReconcileOK == ASSUME IndInv, NEW d \in Drivers, Reconcile(d) PROVE IndInv'
<1> DEFINE s == Snap(d)
           c == s.pending
           e == ledger[c]
<1>1. drv[d].pc = "tool" /\ UNCHANGED historyVars /\ drv[d].pc \in (Business \cup Cleaning) \ {"granted"}
  BY DEF Reconcile, Business
<1>2. s.status = "running" /\ s.phase = "tool" /\ c # 0 /\ s.decision \in Tools /\ s \in RowSet
  BY <1>1, Facts DEF Knows
<1>3. CASE Save(d, Stop(s, "failed"), "releasing", "releasing")
  BY <1>1, <1>3, StopSave DEF Terminal
<1>4. CASE Save(d, Stop(s, "intervention_required"), "releasing", "failing")
  BY <1>1, <1>2, <1>4, StopSave DEF Terminal
<1>5. CASE /\ Replayable(d, e)
           /\ SaveWith(d, [s EXCEPT !.pending = 0], [ledger EXCEPT ![c].status = "unknown"],
                       At(d, "dispatch"), At(d, "failing"))
  <2> DEFINE new == [s EXCEPT !.pending = 0]
             led == [ledger EXCEPT ![c].status = "unknown"]
  <2>1. 0 \in 0..MaxToolCalls /\ c \in Calls
    BY <1>2, BoundsAssumption DEF Calls, RowSet
  <2>2. /\ new \in RowSet /\ new.status = s.status /\ new.steps = s.steps /\ new.calls = s.calls
        /\ new.mode = s.mode /\ new.okAct = s.okAct /\ new.okDef = s.okDef /\ new.phase = s.phase
        /\ new.pending = 0 /\ new.decision = s.decision /\ new.inflight = s.inflight
    BY <1>2, <2>1 DEF RowSet
  <2>3. [ledger[c] EXCEPT !.status = "unknown"] \in EntrySet
    BY <2>1, Facts DEF EntrySet
  <2>4. led \in [Calls -> EntrySet]
    <3>1. led = [ledger EXCEPT ![c] = [ledger[c] EXCEPT !.status = "unknown"]]
      BY <2>1, Facts
    <3> QED
      BY <2>1, <2>3, <3>1, Facts
  <2>5. Knows("dispatch", new) /\ Knows("failing", s)
    BY <1>2, <2>2 DEF Knows
  <2>6. "dispatch" \in After \ {"granted"} /\ "failing" \in After \ {"granted"}
    BY SMTT(30) DEF After, Points, Business
  <2>7. ASSUME s = row, row.status \in Active
        PROVE  RowOK(new, led, Journalled, attempts, approvals)
    <3>1. RowOK(s, ledger, Journalled, attempts, approvals)
      BY <2>7, Facts
    <3>2. \A y \in Journalled : ~(y.step = s.steps /\ y.policy = "never")
      BY <1>2, <1>5, <3>1 DEF RowOK, Active, Replayable
    <3> HIDE DEF new, led, s
    <3> QED
      BY <1>2, <2>2, <3>1, <3>2 DEF RowOK, Active, s
  <2>8. s.steps \in Int /\ s.calls \in Int /\ "running" \in Active
    BY <1>2 DEF RowSet, Active
  <2>9. SaveWith(d, new, led, At(d, "dispatch"), At(d, "failing"))
    BY <1>5
  <2> HIDE DEF new, led
  <2> QED
    BY <1>1, <1>2, <2>2, <2>4, <2>5, <2>6, <2>7, <2>8, <2>9, PlainSave, ZenonT(30)
<1> QED
  BY <1>3, <1>4, <1>5 DEF Reconcile

LEMMA RequestApprovalOK == ASSUME IndInv, NEW d \in Drivers, RequestApproval(d) PROVE IndInv'
<1> DEFINE s == Snap(d)
           new == [s EXCEPT !.status = "awaiting_approval", !.ask = drv[d].ver]
<1>1. drv[d].pc = "dispatch" /\ UNCHANGED historyVars /\ drv[d].pc \in (Business \cup Cleaning) \ {"granted"}
  BY DEF RequestApproval, Business
<1>2. /\ s.status = "running" /\ s.phase = "tool" /\ s.pending = 0 /\ s \in RowSet
      /\ drv[d].ver \in Versions
  BY <1>1, Facts, Zenon DEF Knows, DriverOK
<1>3. /\ new \in RowSet /\ new.status = "awaiting_approval" /\ new.steps = s.steps
      /\ new.calls = s.calls /\ new.mode = s.mode /\ new.okAct = s.okAct /\ new.okDef = s.okDef
      /\ new.phase = s.phase /\ new.pending = s.pending /\ new.decision = s.decision
      /\ new.inflight = s.inflight /\ new.ask = drv[d].ver
  <2>1. new \in RowSet
    BY <1>2, ZenonT(30) DEF RowSet, Active
  <2> QED
    BY <1>2, <2>1, Zenon DEF RowSet
<1>4. Knows("releasing", new) /\ Knows("failing", s)
  BY <1>2 DEF Knows
<1>5. "releasing" \in After \ {"granted"} /\ "failing" \in After \ {"granted"}
  BY DEF After, Points, Business
<1>6. ASSUME s = row, row.status \in Active
      PROVE  RowOK(new, ledger, Journalled, attempts, approvals)
  <2>1. RowOK(s, ledger, Journalled, attempts, approvals)
    BY <1>6, Facts
  <2> HIDE DEF new, s
  <2> QED
    BY <1>2, <1>3, <2>1 DEF RowOK, Active, s
<1>7. s.steps \in Int /\ s.calls \in Int /\ "awaiting_approval" \in Active
  BY <1>2 DEF RowSet, Active
<1>8. SaveWith(d, new, ledger, At(d, "releasing"), At(d, "failing"))
  BY DEF RequestApproval, Save
<1> HIDE DEF new
<1> QED
  BY <1>1, <1>3, <1>4, <1>5, <1>6, <1>7, <1>8, Facts, PlainSave, Zenon

(* before_dispatch: the new call has a fresh number, and as nothing is       *)
(* pending every earlier call of the step was read-only.                     *)
LEMMA JournalOK == ASSUME IndInv, NEW d \in Drivers, Journal(d) PROVE IndInv'
<1> DEFINE s == Snap(d)
           c == s.calls + 1
           p == PolicyOf(d)
           new == Counted(s)
           ent == [status |-> "started", step |-> s.steps, tool |-> s.decision, policy |-> p]
           led == [ledger EXCEPT ![c] = ent]
           y == [call |-> c, step |-> s.steps, tool |-> s.decision, ver |-> drv[d].ver,
                 policy |-> p, by |-> d]
           ok == [At(d, "granted") EXCEPT !.call = y]
           no == At(d, "failing")
<1>1. /\ drv[d].pc = "dispatch" /\ UNCHANGED historyVars /\ SaveWith(d, new, led, ok, no)
      /\ Dispatchable(d) /\ ~NeedsApproval(d) /\ ~ApprovalStale(d)
  BY DEF Journal
<1>2. /\ s.status = "running" /\ s.phase = "tool" /\ s.pending = 0 /\ s.decision \in Tools
      /\ s \in RowSet /\ drv[d].ver \in Versions
      /\ drv[d].call # None => drv[d].call.by = d /\ drv[d].revoked
  BY <1>1, Facts, Zenon DEF Knows, DriverOK
<1>3. /\ s.calls \in Nat /\ c \in Calls /\ c \in 0..MaxToolCalls /\ c # 0
      /\ s.steps \in 0..MaxSteps /\ s.steps \in Int
  BY <1>1, <1>2, BoundsAssumption DEF Dispatchable, RowSet, Calls
<1>4. p \in {"read_only", "never"}
  <2>1. <<s.decision, drv[d].ver>> \in Tools \X Versions
    BY <1>2
  <2> QED
    BY <1>1, <2>1, PolicyAssumption DEF PolicyOf, Policies, Dispatchable
<1> HIDE DEF p, c
<1>5. ent \in EntrySet /\ led \in [Calls -> EntrySet]
  <2>1. ent \in EntrySet
    BY <1>2, <1>3, <1>4 DEF EntrySet, Policies
  <2> HIDE DEF ent
  <2> QED
    BY <2>1, Facts, Zenon
<1>6. y \in CallSet
  BY <1>2, <1>3, <1>4 DEF CallSet, Policies
<1>7. /\ y.call = c /\ y.step = s.steps /\ y.tool = s.decision /\ y.ver = drv[d].ver
      /\ y.policy = p /\ y.by = d
  OBVIOUS
<1>8. /\ new \in RowSet /\ new.status = s.status /\ new.steps = s.steps /\ new.calls = c
      /\ new.mode = s.mode /\ new.okAct = s.okAct /\ new.okDef = s.okDef /\ new.phase = s.phase
      /\ new.pending = c /\ new.decision = s.decision /\ new.inflight = s.inflight
  <2>1. new \in RowSet
    BY <1>2, <1>3, ZenonT(30) DEF RowSet, Counted, c
  <2> QED
    BY <1>2, <2>1, ZenonT(30) DEF RowSet, Counted, c
<1> HIDE DEF y
<1>9. /\ ok \in DriverSet /\ ok.pc = "granted" /\ ok.ver = drv[d].ver /\ ok.call = y
      /\ no \in DriverSet /\ no.pc = "failing" /\ no.ver = drv[d].ver /\ no.call = drv[d].call
      /\ no.revoked = drv[d].revoked /\ no.snap = s
  BY <1>6, Facts, ZenonT(30) DEF At, Snap, DriverSet, Points, Business
<1>10. Journalled \cup ({ok.call} \ {None}) = Journalled \cup {y}
  BY <1>6, <1>9, RecordsAssumption
<1>11. /\ led[c].status = "started" /\ led[c].step = s.steps /\ led[c].tool = s.decision
       /\ led[c].policy = p
       /\ \A k \in Calls : k # c => led[k] = ledger[k]
  BY <1>3, Facts
<1> HIDE DEF led, new, ok, no
<1>12. ASSUME s = row, row.status \in Active
       PROVE  /\ RowOK(new, led, Journalled, attempts, approvals)
              /\ RowOK(new, led, Journalled \cup {y}, attempts, approvals)
              /\ CallsOK(Journalled \cup {y}, approvals)
  <2>1. /\ RowOK(s, ledger, Journalled, attempts, approvals) /\ CallsOK(Journalled, approvals)
        /\ Journalled \in SUBSET CallSet
    BY <1>12, Facts, Zenon
  <2>2. s.okAct # None => [tool |-> s.okAct, ver |-> s.okDef, step |-> s.steps] \in approvals
    BY <1>2, <2>1, ZenonT(30) DEF RowOK, Active
  <2>3. y.tool \in Approval => [tool |-> y.tool, ver |-> y.ver, step |-> y.step] \in approvals
    BY <1>1, <1>2, <1>7, <2>2, ToolsAssumption DEF NeedsApproval, ApprovalStale
  <2>4. CountsCall(s, c, new)
    BY <1>2, <1>8, Zenon DEF CountsCall, c
  <2>5. StartsCall(s, c, p, led, y, approvals)
    BY <1>7, <1>11, <2>3, ZenonT(30) DEF StartsCall
  <2> HIDE DEF s
  <2> QED
    BY <1>2, <1>3, <1>4, <1>8, <2>1, <2>4, <2>5, JournalRow, ZenonT(30)
<1>13. Knows("granted", new) /\ Knows("failing", s)
  BY <1>2, <1>3, <1>8 DEF Knows
<1>14. "granted" \in After /\ "failing" \in After /\ "running" \in Active
  BY DEF After, Points, Business, Active
<1>15. /\ UNCHANGED <<dispatches, approvals, attempts>> /\ attempts \in Nat
       /\ drv[d].call \in Journalled \cup {None}
  BY SMTT(30), <1>1, Facts DEF historyVars, TypeOK
<1>16. s = row /\ row.status \in Active =>
         /\ RowOK(new, led, Journalled, attempts, approvals)
         /\ RowOK(new, led, Journalled \cup {y}, attempts', approvals)
         /\ CallsOK(Journalled \cup {y}, approvals)
         /\ new.steps >= row.steps /\ new.calls >= row.calls
         /\ new.mode = row.mode /\ new.status \in Active \cup Terminal
  BY SMTT(30), <1>2, <1>3, <1>8, <1>12, <1>14, <1>15 DEF c
<1>17. s = row /\ row.status \in Active =>
         /\ RowOK(new, led, Journalled, attempts, approvals)
         /\ RowOK(new, led, Journalled \cup ({ok.call} \ {None}), attempts', approvals)
         /\ CallsOK(Journalled \cup ({ok.call} \ {None}), approvals)
         /\ new.steps >= row.steps /\ new.calls >= row.calls
         /\ new.mode = row.mode /\ new.status \in Active \cup Terminal
  BY Zenon, <1>10, <1>16
<1>18. /\ drv[d].pc \notin {"idle", "creating", "abandoned"}
       /\ ok.call.by = d /\ ok.pc = "granted" /\ ok.pc \in After /\ ok.ver \in Versions
       /\ Knows(ok.pc, new) /\ Knows(no.pc, s)
       /\ no.pc \in After /\ no.ver \in Versions /\ no.snap = Snap(d)
       /\ no.call \in Journalled \cup {None}
       /\ no.call # None => no.call.by = d /\ no.revoked
  BY <1>1, <1>2, <1>7, <1>9, <1>13, <1>14, <1>15
<1> QED
  BY <1>1, <1>5, <1>8, <1>9, <1>15, <1>17, <1>18, SaveLemma, Zenon
     DEF GoodSave, GoodDrivers, Reserves

LEMMA GrantedOK == ASSUME IndInv, NEW d \in Drivers, GrantExpired(d) \/ Reject(d) PROVE IndInv'
<1>1. drv[d].pc = "granted" /\ UNCHANGED historyVars
  BY DEF GrantExpired, Reject
<1>2. /\ Snap(d) \in RowSet /\ ledger \in [Calls -> EntrySet]
      /\ RowOK(row, ledger, Journalled, attempts, approvals)
      /\ Snap(d).pending # 0
  BY <1>1, Facts DEF Knows
<1>3. CASE GrantExpired(d)
  <2>0. PICK st \in {"stopped", "failed"} :
            SaveWith(d, Stop(Snap(d), st), ledger, Dropped(d, "releasing"), Dropped(d, "releasing"))
    BY <1>3 DEF GrantExpired
  <2> DEFINE new == Stop(Snap(d), st)
  <2>1. SaveWith(d, new, ledger, Dropped(d, "releasing"), Dropped(d, "releasing"))
    BY <2>0
  <2>4. st \in Terminal
    BY DEF Terminal
  <2>2. /\ new \in RowSet /\ new.status = st /\ new.steps = Snap(d).steps
        /\ new.calls = Snap(d).calls /\ new.mode = Snap(d).mode
    BY <1>2, <2>4, StopRow, Zenon
  <2>3. Snap(d) = row /\ row.status \in Active => RowOK(new, ledger, Journalled, attempts, approvals)
    BY <1>2, <2>4, StopOK
  <2> HIDE DEF new
  <2> QED
    BY <1>1, <1>2, <2>1, <2>2, <2>3, <2>4, DroppedSave, ZenonT(30)
<1>4. CASE Reject(d)
  <2> DEFINE new == Finish(Snap(d), "failed")
             c == Snap(d).pending
             led == [ledger EXCEPT ![c].status = "completed"]
  <2>1. SaveWith(d, new, led, Dropped(d, "releasing"), Dropped(d, "failing"))
    BY <1>4 DEF Reject
  <2>2. 0 \in 0..MaxToolCalls /\ c \in Calls
    BY <1>2, BoundsAssumption DEF Calls, RowSet
  <2>3. /\ new \in RowSet /\ new.status = "failed" /\ new.steps = Snap(d).steps
        /\ new.calls = Snap(d).calls /\ new.mode = Snap(d).mode
    BY <1>2, <2>2, Zenon DEF Finish, RowSet, Terminal
  <2>4. Snap(d) = row /\ row.status \in Active => RowOK(new, led, Journalled, attempts, approvals)
    BY <1>2, FinishOK DEF Terminal
  <2>5. led \in [Calls -> EntrySet]
    <3>1. [ledger[c] EXCEPT !.status = "completed"] \in EntrySet
      BY <1>2, <2>2 DEF EntrySet
    <3>2. led = [ledger EXCEPT ![c] = [ledger[c] EXCEPT !.status = "completed"]]
      BY <1>2, <2>2
    <3> QED
      BY <1>2, <2>2, <3>1, <3>2
  <2>6. "failed" \in Terminal
    BY DEF Terminal
  <2> HIDE DEF new, led
  <2> QED
    BY <1>1, <2>1, <2>3, <2>4, <2>5, <2>6, DroppedSave, Zenon
<1> QED
  BY <1>3, <1>4

(* Entering the handler only moves a call from possible to past. *)
LEMMA EnterHandlerOK == ASSUME IndInv, NEW d \in Drivers, EnterHandler(d) PROVE IndInv'
<1> DEFINE x == Dropped(d, "handling")
<1>1. drv[d].call # None /\ ~drv[d].revoked /\ drv[d].pc = "granted"
  BY Facts, Zenon DEF EnterHandler, DriverOK
<1>2. drv' = [drv EXCEPT ![d] = x] /\ dispatches' = dispatches \cup {drv[d].call}
  BY <1>1 DEF EnterHandler, Become
<1>3. UNCHANGED <<row, ledger, token, leaseLeft, expired, late, attempts, approvals>>
  BY DEF EnterHandler, storeVars
<1>4. /\ x \in DriverSet /\ x.pc = "handling" /\ x.call = None /\ x.ver = drv[d].ver
      /\ x.snap = Snap(d) /\ x.command = drv[d].command
  <2>1. drv[d] \in DriverSet /\ "handling" \in Points
    BY Facts, Zenon DEF Points, Business
  <2> QED
    BY <2>1, DroppedOK, Zenon DEF Dropped, Snap
<1>5. /\ drv[d].ver \in Versions /\ Fresh(Snap(d), row) /\ Knows("granted", Snap(d))
  BY <1>1, Facts, Zenon DEF DriverOK, Snap
<1>6. Knows("handling", Snap(d))
  BY <1>5 DEF Knows
<1> HIDE DEF x
<1>7. DriverOK(d, x, row, approvals)
  BY Zenon, <1>4, <1>5, <1>6 DEF DriverOK
<1>8. /\ token \in Drivers \cup {None} /\ leaseLeft \in 0..LeaseTicks /\ faults' \in 0..MaxFaults
      /\ approvals \subseteq [tool : Tools, ver : Versions, step : 0..MaxSteps]
      /\ dispatches' \subseteq Journalled
  BY Zenon, <1>1, <1>2, Facts, FaultType DEF IndInv, TypeOK, EnterHandler
<1> QED
  BY <1>2, <1>3, <1>4, <1>7, <1>8, DriverStep, Zenon

LEMMA HandlerReturnsOK == ASSUME IndInv, NEW d \in Drivers, HandlerReturns(d) PROVE IndInv'
<1>1. drv[d].pc = "handling" /\ UNCHANGED historyVars /\ drv[d].pc \in (Business \cup Cleaning) \ {"granted"}
  BY DEF HandlerReturns, Business
<1> DEFINE s == Snap(d)
           c == s.pending
           led == [ledger EXCEPT ![c].status = "completed"]
<1>2. PICK f \in BOOLEAN : SaveWith(d, Observed(s, f), led, At(d, "settled"), At(d, "failing"))
  BY DEF HandlerReturns
<1> DEFINE new == Observed(s, f)
<1>3. s.status = "running" /\ s.phase = "tool" /\ c # 0 /\ s \in RowSet
  BY <1>1, Facts DEF Knows
<1>4. 0 \in 0..MaxToolCalls /\ c \in Calls
  BY <1>3, BoundsAssumption DEF Calls, RowSet
<1>5. /\ new \in RowSet /\ new.status = s.status /\ new.steps = s.steps /\ new.calls = s.calls
      /\ new.mode = s.mode /\ new.okAct = None /\ new.phase = "decision"
      /\ new.pending = 0 /\ new.inflight = s.inflight
  BY <1>3, <1>4, Zenon DEF RowSet, Observed
<1>6. led \in [Calls -> EntrySet]
  <2>1. [ledger[c] EXCEPT !.status = "completed"] \in EntrySet
    BY <1>4, Facts DEF EntrySet
  <2>2. led = [ledger EXCEPT ![c] = [ledger[c] EXCEPT !.status = "completed"]]
    BY <1>4, Facts
  <2> QED
    BY <1>4, <2>1, <2>2, Facts
<1>7. Knows("settled", new) /\ Knows("failing", s)
  BY <1>3, <1>5 DEF Knows
<1>8. "settled" \in After \ {"granted"} /\ "failing" \in After \ {"granted"}
  BY Zenon DEF After, Points, Business
<1>9. ASSUME s = row, row.status \in Active
      PROVE  RowOK(new, led, Journalled, attempts, approvals)
  <2>1. RowOK(s, ledger, Journalled, attempts, approvals)
    BY <1>9, Facts
  <2> HIDE DEF new, s, led
  <2> QED
    BY <1>3, <1>5, <2>1 DEF RowOK, Active, s
<1>10. s.steps \in Int /\ s.calls \in Int /\ "running" \in Active
  BY <1>3 DEF RowSet, Active
<1>11. SaveWith(d, new, led, At(d, "settled"), At(d, "failing"))
  BY <1>2
<1> HIDE DEF new, led
<1> QED
  BY <1>1, <1>3, <1>5, <1>6, <1>7, <1>8, <1>9, <1>10, <1>11, PlainSave, Zenon

LEMMA UsingToolOK == ASSUME IndInv, NEW d \in Drivers, UsingTool(d) PROVE IndInv'
<1>1. CASE Exhausted(d)
  <2>1. Snap(d).status = "running"
    BY Zenon, <1>1, Facts DEF Exhausted, Knows
  <2> QED
    BY <1>1, <2>1, FinishSave DEF Exhausted, Terminal, Business
<1>2. CASE RefuseStale(d)
  BY <1>2, StopSave DEF RefuseStale, Terminal, Business
<1>3. CASE HandlerFails(d)
  <2>1. Snap(d).status = "running"
    BY Zenon, <1>3, Facts DEF HandlerFails, Knows
  <2>2. CASE Save(d, Stop(Snap(d), "intervention_required"), "releasing", "failing")
    BY Zenon, <1>3, <2>1, <2>2, StopSave DEF HandlerFails, Terminal, Business
  <2>3. ASSUME NEW st \in {"failed", "stopped"}, Save(d, Finish(Snap(d), st), "releasing", "failing")
        PROVE  IndInv'
    BY Zenon, <1>3, <2>1, <2>3, FinishSave DEF HandlerFails, Terminal, Business
  <2> QED
    BY <1>3, <2>2, <2>3 DEF HandlerFails
<1>4. CASE ResultInvalid(d)
  BY <1>4, StopSave DEF ResultInvalid, Terminal, Business
<1>5. CASE Settle(d)
  <2>1. /\ drv[d].pc = "settled" /\ UNCHANGED historyVars /\ Snap(d).status = "running"
        /\ drv[d].pc \in (Business \cup Cleaning) \ {"granted"}
    BY Zenon, <1>5, Facts DEF Settle, Knows, Business
  <2>2. CASE Save(d, Finish(Snap(d), "failed"), "releasing", "failing")
    BY <2>1, <2>2, FinishSave DEF Terminal
  <2>3. CASE Save(d, Snap(d), "advance", "failing")
    <3>1. "advance" \in After \ {"granted"} /\ "failing" \in After \ {"granted"}
      BY DEF After, Points, Business
    <3>2. Knows("advance", Snap(d)) /\ Knows("failing", Snap(d))
      BY Zenon, <2>1 DEF Knows
    <3>3. /\ Snap(d) \in RowSet /\ Snap(d).steps \in Int /\ Snap(d).calls \in Int
          /\ ledger \in [Calls -> EntrySet]
          /\ RowOK(row, ledger, Journalled, attempts, approvals)
      BY Facts DEF RowSet
    <3>4. SaveWith(d, Snap(d), ledger, At(d, "advance"), At(d, "failing"))
      BY <2>3 DEF Save
    <3> QED
      BY <2>1, <3>1, <3>2, <3>3, <3>4, PlainSave, Zenon
  <2> QED
    BY <1>5, <2>2, <2>3 DEF Settle
<1> QED
  BY Zenon, <1>1, <1>2, <1>3, <1>4, <1>5, ReconcileOK, RequestApprovalOK, JournalOK, GrantedOK,
     EnterHandlerOK, HandlerReturnsOK DEF UsingTool

-----------------------------------------------------------------------------
(* A step of the store alone *)
LEMMA StoreStep ==
    ASSUME IndInv, TypeOK', UNCHANGED <<drv, historyVars>>, RowStep(row, row'),
           row'.status = "absent" => row' = NewRow(row'.mode),
           row' = row \/ row'.revision > row.revision \/ row'.status \notin Active,
           RowOK(row', ledger', Journalled, attempts, approvals),
           \A e \in Drivers : late'[e] = late[e] \/ late'[e] = None
    PROVE  IndInv'
<1>1. row \in RowSet /\ row' \in RowSet /\ drv \in [Drivers -> DriverSet]
      /\ CallsOK(Journalled, approvals) /\ late \in [Drivers -> LateSet \cup {None}]
  BY Zenon DEF IndInv, TypeOK
<1>2. Journalled' = Journalled /\ UNCHANGED <<attempts, approvals>>
  BY DEF Journalled, historyVars
<1>3. ASSUME NEW e \in Drivers PROVE DriverOK(e, drv'[e], row', approvals')
  <2>1. drv[e] \in DriverSet /\ DriverOK(e, drv[e], row, approvals) /\ drv' = drv
    BY Zenon, <1>1 DEF IndInv
  <2> QED
    BY Zenon, <1>1, <1>2, <2>1, DriverKept
<1>4. ASSUME NEW e \in Drivers PROVE LateOK(late'[e], row', Journalled', attempts', approvals')
  <2>1. CASE late'[e] = None
    BY <2>1 DEF LateOK
  <2>2. CASE late'[e] = late[e]
    <3>1. late[e] \in LateSet \cup {None} /\ LateOK(late[e], row, Journalled, attempts, approvals)
      BY <1>1 DEF IndInv
    <3> QED
      BY Zenon, <1>1, <1>2, <2>2, <3>1, LateKept
  <2> QED
    BY Zenon, <2>1, <2>2
<1> QED
  BY Zenon, <1>1, <1>2, <1>3, <1>4 DEF IndInv

(* The row after a cancellation *)
LEMMA CancelledRow ==
    ASSUME IndInv, row.status \in Active,
           row' = [Stop(row, "cancelled") EXCEPT !.revision = row.revision + 1]
    PROVE  /\ row' \in RowSet /\ RowStep(row, row') /\ row'.revision > row.revision
           /\ row'.status = "cancelled"
           /\ RowOK(row', ledger, Journalled, attempts, approvals)
<1> DEFINE s == Stop(row, "cancelled")
<1>1. /\ row \in RowSet /\ row.revision \in Nat
      /\ RowOK(row, ledger, Journalled, attempts, approvals)
  BY DEF IndInv, TypeOK, RowSet
<1>2. s \in RowSet /\ RowOK(s, ledger, Journalled, attempts, approvals)
  BY <1>1, StopOK DEF Terminal
<1>3. s.status = "cancelled" /\ s.mode = row.mode
  BY <1>1 DEF Stop, RowSet
<1> HIDE DEF s
<1>4. row' = [s EXCEPT !.revision = row.revision + 1]
  BY DEF s
<1>5. /\ row' \in RowSet /\ row'.revision = row.revision + 1 /\ row'.status = "cancelled"
      /\ row'.mode = row.mode
  BY <1>1, <1>2, <1>3, <1>4 DEF RowSet
<1>6. RowOK(row', ledger, Journalled, attempts, approvals)
  <2>1. RowOK([s EXCEPT !.revision = row.revision + 1], ledger, Journalled, attempts, approvals)
    BY Zenon, <1>2, RowOKRevision
  <2> QED
    BY Zenon, <1>4, <2>1
<1> QED
  BY <1>1, <1>5, <1>6 DEF RowStep, Active

LEMMA SupervisingOK == ASSUME IndInv, NEW d \in Drivers, Supervising(d) PROVE IndInv'
<1>1. /\ token \in Drivers \cup {None} /\ leaseLeft \in 0..LeaseTicks /\ faults \in 0..MaxFaults
      /\ approvals \subseteq [tool : Tools, ver : Versions, step : 0..MaxSteps]
      /\ late \in [Drivers -> LateSet \cup {None}] /\ LeaseTicks \in 0..LeaseTicks
      /\ row.status = "absent" => row = NewRow(row.mode)
  BY BoundsAssumption DEF IndInv, TypeOK
<1>2. CASE Heartbeat(d)
  <2>1. /\ UNCHANGED <<row, ledger, token, expired, faults, drv, late, historyVars>>
        /\ leaseLeft' = LeaseTicks
    BY <1>2 DEF Heartbeat, CommitRenew, NoFault
  <2>2. TypeOK'
    BY Zenon, <1>1, <2>1, Facts DEF TypeOK, historyVars
  <2>3. RowStep(row, row')
    BY <2>1, Facts DEF RowStep, RowSet
  <2> QED
    BY <1>1, <2>1, <2>2, <2>3, Facts, StoreStep
<1>3. ASSUME NEW p \in {"releasing", "cancelling", "timing_out"}, Abort(d, p), Fault \/ NoFault,
             drv[d].pc \notin {"idle", "creating", "abandoned"}
      PROVE  IndInv'
  <2> DEFINE x == [drv[d] EXCEPT !.pc = p, !.revoked = TRUE]
  <2>1. drv' = [drv EXCEPT ![d] = x]
    BY <1>3 DEF Abort, Become
  <2>2. x \in DriverSet /\ x.call \in Journalled \cup {None} /\ DriverOK(d, x, row, approvals)
    BY <1>3, MoveOK, Zenon
  <2>3. UNCHANGED <<row, ledger, token, leaseLeft, expired, late, dispatches, approvals, attempts>>
    BY <1>3 DEF Abort, storeVars, historyVars
  <2>4. faults' \in 0..MaxFaults
    BY Zenon, <1>3, Facts, FaultType
  <2> HIDE DEF x
  <2> QED
    BY <1>1, <2>1, <2>2, <2>3, <2>4, Facts, DriverStep, Zenon
<1>4. CASE HeartbeatFails(d)
  BY Zenon, <1>3, <1>4 DEF HeartbeatFails, Business
<1>5. CASE Timeout(d)
  BY <1>3, <1>5 DEF Timeout, Business
<1>6. CASE Disconnect(d)
  BY <1>3, <1>6 DEF Disconnect, Business
(* Goto "releasing" or "cancelling" from a cleaning point *)
<1>7. ASSUME NEW p \in {"releasing", "cancelling"}, Goto(d, p), drv[d].pc \in Cleaning,
             UNCHANGED <<storeVars, late, historyVars>>, Fault \/ NoFault
      PROVE  IndInv'
  <2> DEFINE x == At(d, p)
  <2>1. drv' = [drv EXCEPT ![d] = x]
    BY <1>7, Zenon DEF Goto, Become
  <2>2. x \in DriverSet /\ x.call \in Journalled \cup {None} /\ DriverOK(d, x, row, approvals)
    BY <1>7, GotoOK DEF Cleaning
  <2>3. UNCHANGED <<row, ledger, token, leaseLeft, expired, late, dispatches, approvals, attempts>>
    BY Zenon, <1>7 DEF storeVars, historyVars
  <2>4. faults' \in 0..MaxFaults
    BY <1>7, Facts, FaultType
  <2> HIDE DEF x
  <2> QED
    BY <1>1, <2>1, <2>2, <2>3, <2>4, Facts, DriverStep, Zenon
<1>8. CASE CleanupLoad(d)
  <2>1. drv[d].pc \in {"cancelling", "timing_out"} /\ UNCHANGED <<storeVars, late, historyVars>> /\ NoFault
    BY <1>8 DEF CleanupLoad
  <2>2. CASE row.status \in Active /\ Owned(d)
    <3> DEFINE q == IF drv[d].pc = "cancelling" THEN "cancel" ELSE "time_out"
               x == [drv[d] EXCEPT !.snap = row, !.pc = q]
    <3>1. drv' = [drv EXCEPT ![d] = x]
      BY <1>8, <2>2 DEF CleanupLoad, Become
    <3>2. q \in {"cancel", "time_out"} /\ q \in Points
      BY DEF Points, Cleaning
    <3>3. /\ x \in DriverSet /\ x.pc = q /\ x.snap = row /\ x.ver = drv[d].ver
          /\ x.command = drv[d].command /\ x.call = drv[d].call /\ x.revoked = drv[d].revoked
      BY <3>2, Facts, Zenon DEF DriverSet
    <3>4. Fresh(row, row) /\ Knows(q, row)
      BY <2>2, Facts DEF Fresh, RowSet, Active, Knows
    <3> HIDE DEF x, q
    <3>5. DriverOK(d, x, row, approvals)
      BY <2>1, <3>2, <3>3, <3>4, Facts, Zenon DEF DriverOK
    <3>6. UNCHANGED <<row, ledger, token, leaseLeft, expired, late, dispatches, approvals, attempts>>
      BY Zenon, <2>1 DEF storeVars, historyVars
    <3>7. faults' \in 0..MaxFaults
      BY <2>1, Facts, FaultType
    <3> QED
      BY <1>1, <3>1, <3>3, <3>5, <3>6, <3>7, Facts, DriverStep, Zenon
  <2>3. CASE ~(row.status \in Active /\ Owned(d))
    BY Zenon, <1>7, <1>8, <2>1, <2>3 DEF CleanupLoad, Cleaning
  <2> QED
    BY <2>2, <2>3
<1>9. CASE CleanupCancel(d)
  <2>1. drv[d].pc = "cancel" /\ UNCHANGED <<late, historyVars>> /\ NoFault
    BY <1>9 DEF CleanupCancel
  <2>2. CASE CommitCancel(Snap(d)) /\ Goto(d, "releasing")
    <3> DEFINE x == At(d, "releasing")
    <3>1. drv' = [drv EXCEPT ![d] = x]
      BY Zenon, <2>2 DEF Goto, Become
    <3>2. x \in DriverSet /\ x.call \in Journalled \cup {None} /\ DriverOK(d, x, row, approvals)
      BY <2>1, GotoOK
    <3>3. Fresh(Snap(d), row)
      BY <2>1, Facts, Zenon DEF DriverOK, Snap
    <3>4. Snap(d) = row /\ row.status \in Active
      BY <2>2, <3>3 DEF CommitCancel, Fresh
    <3>5. /\ row' = [Stop(row, "cancelled") EXCEPT !.revision = row.revision + 1]
          /\ token' = None /\ leaseLeft' = 0 /\ UNCHANGED <<ledger, expired>>
      BY <2>2, <3>4 DEF CommitCancel
    <3>6. /\ row' \in RowSet /\ RowStep(row, row') /\ row'.revision > row.revision
          /\ row'.status = "cancelled"
          /\ RowOK(row', ledger, Journalled, attempts, approvals)
      BY <3>4, <3>5, CancelledRow
    <3>7. UNCHANGED <<dispatches, approvals, attempts, late, faults>>
      BY <2>1 DEF historyVars, NoFault
    <3> HIDE DEF x
    <3>8. Journalled' \subseteq Journalled
      BY <3>1, <3>2, <3>7, Facts, JournalledStep, Zenon
    <3>9. RowOK(row', ledger', Journalled', attempts', approvals') /\ CallsOK(Journalled', approvals')
      BY Zenon, <3>5, <3>6, <3>7, <3>8, Facts, RowOKWeaken, CallsOKWeaken
    <3>10. DriverOK(d, x, row', approvals')
      BY Zenon, <3>2, <3>6, <3>7, Facts, DriverKept
    <3>11. TypeOK'
      <4>1. 0 \in 0..LeaseTicks
        BY BoundsAssumption
      <4> QED
        BY Zenon, <1>1, <3>1, <3>2, <3>5, <3>6, <3>7, <4>1, Facts DEF TypeOK
    <3> QED
      BY <3>1, <3>6, <3>7, <3>9, <3>10, <3>11, StepLemma, Zenon
  <2>3. CASE Goto(d, "cancelling") /\ UNCHANGED storeVars
    BY Zenon, <1>7, <2>1, <2>3 DEF Cleaning
  <2> QED
    BY Zenon, <1>9, <2>2, <2>3 DEF CleanupCancel
<1>10. CASE CleanupStop(d)
  <2>1. PICK st \in Terminal : Save(d, Stop(Snap(d), st), "releasing", "releasing")
    BY <1>10 DEF CleanupStop, Terminal
  <2> QED
    BY Zenon, <1>10, <2>1, StopSave DEF CleanupStop, Cleaning
<1>11. CASE CleanupGivesUp(d)
  BY <1>7, <1>11, LeaveStep DEF CleanupGivesUp
<1>12. CASE Release(d)
  <2>1. Idle \in DriverSet /\ Idle.call = None /\ DriverOK(d, Idle, row, approvals)
    BY Facts, IdleOK
  <2>2. drv' = [drv EXCEPT ![d] = Idle]
    BY Zenon, <1>12 DEF Release, Goto, Become
  <2>3. UNCHANGED <<row, ledger, expired, late, dispatches, approvals, attempts>>
    BY Zenon, <1>12 DEF Release, storeVars, historyVars
  <2>4. 0 \in 0..LeaseTicks
    BY BoundsAssumption
  <2>5. token' \in Drivers \cup {None} /\ leaseLeft' \in 0..LeaseTicks
    BY Zenon, <1>1, <1>12, <2>4 DEF Release, storeVars
  <2>6. faults' \in 0..MaxFaults
    BY <1>12, Facts, FaultType DEF Release
  <2> QED
    BY <1>1, <2>1, <2>2, <2>3, <2>5, <2>6, Facts, DriverStep, Zenon
<1>13. CASE Crash(d)
  BY Zenon, <1>13, LeaveStep DEF Crash
<1>14. CASE LateSave(d)
  <2>1. /\ late[d] # None /\ late' = [late EXCEPT ![d] = None] /\ UNCHANGED <<drv, historyVars, faults>>
    BY <1>14 DEF LateSave, NoFault
  <2>2. /\ late' \in [Drivers -> LateSet \cup {None}]
        /\ \A e \in Drivers : late'[e] = late[e] \/ late'[e] = None
    BY Zenon, <1>1, <2>1
  <2>3. CASE UNCHANGED storeVars
    <3>1. TypeOK'
      BY Zenon, <2>1, <2>2, <2>3, Facts DEF TypeOK, storeVars, historyVars
    <3>2. RowStep(row, row') /\ row' = row /\ ledger' = ledger
      BY <2>3, Facts DEF RowStep, RowSet, storeVars
    <3> QED
      BY Zenon, <1>1, <2>1, <2>2, <3>1, <3>2, Facts, StoreStep
  <2>4. CASE /\ Fenced(d, late[d].row.revision - 1)
             /\ row' = late[d].row /\ ledger' = late[d].led
             /\ UNCHANGED <<token, leaseLeft, expired>>
    <3>1. late[d] \in LateSet /\ late[d].row \in RowSet /\ late[d].led \in [Calls -> EntrySet]
      BY Zenon, <1>1, <2>1 DEF LateSet
    <3>2. /\ row.status \in Active /\ row.revision \in Nat /\ late[d].row.revision \in Nat
          /\ late[d].row.revision = row.revision + 1
      <4>1. row.revision \in Nat /\ late[d].row.revision \in Nat
        BY Zenon, <3>1, Facts DEF RowSet
      <4>2. row.status \in Active /\ row.revision = late[d].row.revision - 1
        BY Zenon, <2>4 DEF Fenced
      <4> QED
        BY <4>1, <4>2
    <3>3. LateOK(late[d], row, Journalled, attempts, approvals)
      BY DEF IndInv
    <3>4. /\ RowOK(row', ledger', Journalled, attempts, approvals)
          /\ row'.status \in Active \cup Terminal /\ row'.mode = row.mode
      BY ZenonT(30), <2>1, <2>4, <3>2, <3>3 DEF LateOK
    <3>5. RowStep(row, row') /\ row'.revision > row.revision /\ row'.status # "absent"
      BY SMTT(30), <2>4, <3>2, <3>4 DEF RowStep, Active, Terminal
    <3>6. TypeOK'
      BY Zenon, <2>1, <2>2, <2>4, <3>1, Facts DEF TypeOK, historyVars
    <3> QED
      BY Zenon, <2>1, <2>2, <3>4, <3>5, <3>6, StoreStep
  <2> QED
    BY Zenon, <1>14, <2>3, <2>4 DEF LateSave
<1> QED
  BY <1>2, <1>4, <1>5, <1>6, <1>8, <1>9, <1>10, <1>11, <1>12, <1>13, <1>14 DEF Supervising

LEMMA EnvironmentOK == ASSUME IndInv, Cancel \/ Tick \/ Expire \/ Purge PROVE IndInv'
<1>1. /\ TypeOK /\ row \in RowSet /\ leaseLeft \in 0..LeaseTicks /\ 0 \in 0..LeaseTicks
      /\ RowOK(row, ledger, Journalled, attempts, approvals)
      /\ row.status = "absent" => row = NewRow(row.mode)
  BY BoundsAssumption DEF IndInv, TypeOK
<1>2. UNCHANGED <<drv, late, historyVars>>
  BY DEF Cancel, Tick, Expire, Purge
<1>3. RowStep(row, row)
  BY <1>1 DEF RowStep, RowSet
<1>4. CASE Cancel
  <2>1. /\ row.status \in Active /\ row' = [Stop(row, "cancelled") EXCEPT !.revision = row.revision + 1]
        /\ token' = None /\ leaseLeft' = 0 /\ UNCHANGED <<ledger, expired, faults>>
    BY <1>4 DEF Cancel, CommitCancel, NoFault
  <2>2. /\ row' \in RowSet /\ RowStep(row, row') /\ row'.revision > row.revision
        /\ row'.status = "cancelled"
        /\ RowOK(row', ledger, Journalled, attempts, approvals)
    BY <2>1, CancelledRow
  <2>3. TypeOK'
    BY Zenon, <1>1, <1>2, <2>1, <2>2 DEF TypeOK, historyVars
  <2> QED
    BY <1>2, <2>1, <2>2, <2>3, StoreStep
<1>5. CASE Tick
  <2>1. UNCHANGED <<row, ledger, token, expired>> /\ leaseLeft' \in 0..LeaseTicks
    BY <1>1, <1>5, BoundsAssumption DEF Tick
  <2>2. faults' \in 0..MaxFaults
    BY <1>1, <1>5, FaultType DEF Tick
  <2>3. TypeOK'
    BY Zenon, <1>1, <1>2, <2>1, <2>2 DEF TypeOK, historyVars
  <2> QED
    BY Zenon, <1>1, <1>2, <1>3, <2>1, <2>3, StoreStep
<1>6. CASE Expire
  <2>1. UNCHANGED <<row, ledger, token, leaseLeft, faults>> /\ expired' = TRUE
    BY Zenon, <1>6 DEF Expire, NoFault
  <2>2. TypeOK'
    BY Zenon, <1>1, <1>2, <2>1 DEF TypeOK, historyVars
  <2> QED
    BY Zenon, <1>1, <1>2, <1>3, <2>1, <2>2, StoreStep
<1>7. CASE Purge
  <2>1. /\ row.status \in Active \cup Terminal /\ row' = [row EXCEPT !.status = "purged"]
        /\ ledger' = [c \in Calls |-> NoEntry] /\ token' = None /\ leaseLeft' = 0
        /\ UNCHANGED <<expired, faults>>
    BY <1>7 DEF Purge, NoFault
  <2>2. /\ row' \in RowSet /\ row'.status = "purged" /\ row'.revision = row.revision
        /\ row'.mode = row.mode /\ row'.steps = row.steps /\ row'.calls = row.calls
    BY <1>1, <2>1 DEF RowSet
  <2>3. "purged" \notin Active \cup Terminal
    BY Zenon DEF Active, Terminal
  <2>4. RowOK(row', ledger', Journalled, attempts, approvals)
    BY Zenon, <1>1, <2>2, <2>3 DEF RowOK
  <2>5. RowStep(row, row')
    BY <1>1, <2>2, <2>3 DEF RowStep, RowSet
  <2>6. ledger' \in [Calls -> EntrySet]
    <3>1. 0 \in 0..MaxSteps
      BY BoundsAssumption
    <3>2. NoEntry \in EntrySet
      BY <3>1 DEF NoEntry, EntrySet, Policies
    <3> QED
      BY <2>1, <3>2
  <2>7. TypeOK'
    BY Zenon, <1>1, <1>2, <2>1, <2>2, <2>6 DEF TypeOK, historyVars
  <2> QED
    BY <1>2, <2>2, <2>3, <2>4, <2>5, <2>7, StoreStep
<1> QED
  BY Zenon, <1>4, <1>5, <1>6, <1>7

-----------------------------------------------------------------------------
(* The initial state *)
LEMMA InitOK == Init => IndInv
<1> SUFFICES ASSUME Init PROVE IndInv
  OBVIOUS
<1>1. PICK m \in Modes : row = NewRow(m)
  BY DEF Init
<1>2. 0 \in 0..MaxToolCalls /\ 0 \in 0..MaxSteps /\ 0 \in 0..LeaseTicks /\ 0 \in 0..MaxFaults
      /\ m \in ModeSet
  BY BoundsAssumption, ModesAssumption
<1>3. row \in RowSet /\ row.status = "absent" /\ row.mode = m /\ row.steps = 0
  BY <1>1, <1>2 DEF NewRow, RowSet
<1>4. NoEntry \in EntrySet
  BY <1>2 DEF NoEntry, EntrySet, Policies
<1>5. NewRow(row.mode) \in RowSet /\ row = NewRow(row.mode)
  BY <1>1, <1>3
<1>6. /\ Idle \in DriverSet /\ Idle.call = None
      /\ \A d \in Drivers : DriverOK(d, Idle, row, approvals)
  <2>1. Idle \in DriverSet
    BY <1>5 DEF Idle, DriverSet, Points, Commands
  <2> QED
    BY <2>1 DEF Idle, DriverOK, Knows
<1>7. drv \in [Drivers -> DriverSet] /\ \A d \in Drivers : drv[d] = Idle /\ late[d] = None
  BY <1>6 DEF Init
<1>8. TypeOK
  BY <1>2, <1>3, <1>4, <1>7, Zenon DEF TypeOK, Init
<1>9. Journalled = {}
  BY Zenon, <1>6, <1>7 DEF Journalled, Init
<1>10. RowOK(row, ledger, Journalled, attempts, approvals)
  BY <1>3, <1>9 DEF RowOK, Init, Active, Terminal
<1>11. CallsOK(Journalled, approvals)
  BY <1>9 DEF CallsOK
<1> QED
  BY Zenon, <1>5, <1>6, <1>7, <1>8, <1>10, <1>11 DEF IndInv, LateOK

LEMMA NextOK == IndInv /\ [Next]_vars => IndInv'
<1> SUFFICES ASSUME IndInv, [Next]_vars PROVE IndInv'
  OBVIOUS
<1>1. CASE Next
  BY ZenonT(30), <1>1, StartingOK, ClaimingOK, WorkingOK, UsingToolOK, SupervisingOK, EnvironmentOK DEF Next
<1>2. CASE UNCHANGED vars
  <2>1. UNCHANGED <<row, ledger, token, leaseLeft, expired, late, drv, faults, dispatches,
                    approvals, attempts>>
    BY Zenon, <1>2 DEF vars, storeVars, historyVars
  <2>2. Journalled' = Journalled
    BY Zenon, <2>1 DEF Journalled
  <2>3. TypeOK'
    BY <2>1 DEF IndInv, TypeOK
  <2> QED
    BY <2>1, <2>2, <2>3 DEF IndInv
<1> QED
  BY <1>1, <1>2

(* IndInv holds in every reachable state, for every value of the constants. *)
THEOREM Invariance == Spec => []IndInv
BY InitOK, NextOK, PTL DEF Spec

(* Type correctness: the steps and the tool calls of a run never exceed the  *)
(* limits of its configuration, whoever drives it.                           *)
THEOREM TypeCorrect == Spec => []TypeOK
<1>1. IndInv => TypeOK
  BY DEF IndInv
<1> QED
  BY <1>1, Invariance, PTL

(* Only read-only calls are ever followed by another call of the same step, *)
(* through crashes, lost acknowledgements, lost leases and redeployments.   *)
THEOREM AtMostOnce == Spec => []ReplayOnlyReadOnly
<1>1. IndInv => ReplayOnlyReadOnly
  BY Zenon DEF IndInv, CallsOK, ReplayOnlyReadOnly, Journalled
<1> QED
  BY <1>1, Invariance, PTL

(* No handler of a tool that needs approval is entered without an approval   *)
(* of this action, in this step, for this definition.                        *)
THEOREM Consent == Spec => []ApprovedDispatch
<1>1. IndInv => ApprovedDispatch
  BY Zenon DEF IndInv, CallsOK, ApprovedDispatch, Journalled
<1> QED
  BY <1>1, Invariance, PTL

(* The pending call of a stored run is always a started entry of the ledger. *)
THEOREM LedgerAgrees == Spec => []PendingIsStarted
<1>1. IndInv => PendingIsStarted
  BY Zenon DEF IndInv, RowOK, PendingIsStarted
<1> QED
  BY <1>1, Invariance, PTL

(* A driver that can pass the revision check has read the current row. *)
THEOREM NoOverwrite == Spec => []NoLostUpdate
<1>1. IndInv => NoLostUpdate
  BY Zenon DEF IndInv, DriverOK, Fresh, NoLostUpdate, Snap
<1> QED
  BY <1>1, Invariance, PTL

(* Every provider request and every handler entry was counted before. *)
THEOREM CountedFirst == Spec => [](AttemptsReserved /\ DispatchesCounted)
<1>1. IndInv => AttemptsReserved /\ DispatchesCounted
  BY Zenon DEF IndInv, RowOK, AttemptsReserved, DispatchesCounted, Journalled
<1> QED
  BY <1>1, Invariance, PTL

-----------------------------------------------------------------------------
(* Action properties *)

LEMMA SaveRow ==
    ASSUME NEW d, NEW new, NEW led, NEW ok, NEW bad, SaveWith(d, new, led, ok, bad)
    PROVE  row' = row \/ row.status \in Active
BY DEF SaveWith, CommitSave, Fenced, storeVars

(* Only a live run is written; after that a row can only be purged. *)
LEMMA RowShape ==
    ASSUME [Next]_vars
    PROVE  \/ row' = row
           \/ row.status \in Active \cup {"absent"}
           \/ row.status \in Terminal /\ row' = [row EXCEPT !.status = "purged"]
<1>1. CASE UNCHANGED vars
  BY <1>1 DEF vars, storeVars
<1>2. ASSUME NEW d \in Drivers, Starting(d)
      PROVE  row' = row \/ row.status \in Active \cup {"absent"}
  BY Zenon, <1>2 DEF Starting, BeginStart, Create, CreateDuplicate, CreateUnacked, CreateAbandoned,
              LateCreate, Insert, storeVars
<1>3. ASSUME NEW d \in Drivers, Claiming(d)
      PROVE  row' = row \/ row.status \in Active \cup {"absent"}
  BY Zenon, <1>3 DEF Claiming, BeginResume, BeginBackground, Claim, ClaimRefused, ClaimUnacked,
              CommitClaim, CommitRenew, CommitAcquire, Acquirable, storeVars
<1>4. ASSUME NEW d \in Drivers, Working(d)
      PROVE  row' = row \/ row.status \in Active \cup {"absent"}
  <2>1. CASE Advance(d)
    BY <2>1 DEF Advance, storeVars
  <2>2. CASE AnswerApproval(d) \/ StopEarly(d) \/ Reserve(d) \/ Decide(d) \/ Validate(d) \/ Fail(d)
    BY <2>2, SaveRow, Zenon DEF AnswerApproval, StopEarly, Reserve, Decide, Validate, Fail, Save
  <2> QED
    BY <1>4, <2>1, <2>2 DEF Working
<1>5. ASSUME NEW d \in Drivers, UsingTool(d)
      PROVE  row' = row \/ row.status \in Active \cup {"absent"}
  <2>1. CASE EnterHandler(d)
    BY <2>1 DEF EnterHandler, storeVars
  <2>2. CASE Reconcile(d)
    BY <2>2, SaveRow DEF Reconcile, Save
  <2>3. CASE Exhausted(d) \/ RequestApproval(d) \/ RefuseStale(d) \/ Journal(d) \/ GrantExpired(d)
    BY <2>3, SaveRow DEF Exhausted, RequestApproval, RefuseStale, Journal, GrantExpired, Save
  <2>4. CASE Reject(d) \/ HandlerReturns(d) \/ HandlerFails(d) \/ ResultInvalid(d) \/ Settle(d)
    BY <2>4, SaveRow DEF Reject, HandlerReturns, HandlerFails, ResultInvalid, Settle, Save
  <2> QED
    BY Zenon, <1>5, <2>1, <2>2, <2>3, <2>4 DEF UsingTool
<1>6. ASSUME NEW d \in Drivers, Supervising(d)
      PROVE  row' = row \/ row.status \in Active \cup {"absent"}
  <2>1. CASE CleanupStop(d)
    BY <2>1, SaveRow DEF CleanupStop, Save
  <2>2. CASE Heartbeat(d) \/ HeartbeatFails(d) \/ Timeout(d) \/ Disconnect(d)
    BY <2>2 DEF Heartbeat, HeartbeatFails, Timeout, Disconnect, CommitRenew, Abort, storeVars
  <2>3. CASE CleanupLoad(d) \/ CleanupCancel(d) \/ CleanupGivesUp(d)
    BY Zenon, <2>3 DEF CleanupLoad, CleanupCancel, CleanupGivesUp, CommitCancel, storeVars
  <2>4. CASE Release(d) \/ Crash(d) \/ LateSave(d)
    BY <2>4 DEF Release, Crash, LateSave, Fenced, storeVars
  <2> QED
    BY Zenon, <1>6, <2>1, <2>2, <2>3, <2>4 DEF Supervising
<1>7. CASE Cancel \/ Tick \/ Expire
  BY <1>7 DEF Cancel, CommitCancel, Tick, Expire
<1>8. CASE Purge
  BY <1>8 DEF Purge
<1> QED
  BY <1>1, <1>2, <1>3, <1>4, <1>5, <1>6, <1>7, <1>8 DEF Next

(* A terminal state is final and a purged run id stays used, through late    *)
(* saves, late creations and cancellations.                                  *)
THEOREM Finality == Spec => TerminalIsFinal
<1> DEFINE Final == /\ row.status \in Terminal => row'.status \in {row.status, "purged"}
                    /\ row.status = "purged" => row'.status = "purged"
<1>1. IndInv /\ [Next]_vars => [Final]_vars
  <2> SUFFICES ASSUME IndInv, [Next]_vars PROVE Final
    BY Zenon
  <2>1. row \in RowSet
    BY DEF IndInv, TypeOK
  <2>2. CASE row' = row
    BY <2>2
  <2>3. CASE row.status \in Active \cup {"absent"}
    BY <2>3 DEF Active, Terminal
  <2>4. CASE row.status \in Terminal /\ row' = [row EXCEPT !.status = "purged"]
    BY Zenon, <2>1, <2>4 DEF RowSet, Terminal
  <2> QED
    BY Zenon, <2>2, <2>3, <2>4, RowShape
<1> QED
  BY <1>1, Invariance, PTL DEF Spec, TerminalIsFinal

(* A handler is entered only by EnterHandler. *)
LEMMA DispatchShape ==
    ASSUME [Next]_vars
    PROVE  dispatches' = dispatches \/ \E d \in Drivers : EnterHandler(d)
<1>1. CASE UNCHANGED vars
  BY Zenon, <1>1 DEF vars, historyVars
<1>2. ASSUME NEW d \in Drivers, Starting(d) \/ Claiming(d) PROVE dispatches' = dispatches
  BY <1>2 DEF Starting, BeginStart, Create, CreateDuplicate, CreateUnacked, CreateAbandoned,
              LateCreate, Claiming, BeginResume, BeginBackground, Claim, ClaimRefused,
              ClaimUnacked, historyVars
<1>3. ASSUME NEW d \in Drivers, Working(d) PROVE dispatches' = dispatches
  BY <1>3, Zenon DEF Working, AnswerApproval, Advance, StopEarly, Reserve, Decide, Validate, Fail,
              historyVars
<1>4. ASSUME NEW d \in Drivers, UsingTool(d) PROVE dispatches' = dispatches \/ EnterHandler(d)
  BY Zenon, <1>4 DEF UsingTool, Reconcile, Exhausted, RequestApproval, RefuseStale, Journal,
              GrantExpired, Reject, HandlerReturns, HandlerFails, ResultInvalid, Settle,
              historyVars
<1>5. ASSUME NEW d \in Drivers, Supervising(d) PROVE dispatches' = dispatches
  BY <1>5 DEF Supervising, Heartbeat, HeartbeatFails, Timeout, Disconnect, Abort, CleanupLoad,
              CleanupCancel, CleanupStop, CleanupGivesUp, Release, Crash, LateSave, historyVars
<1>6. CASE Cancel \/ Tick \/ Expire \/ Purge
  BY <1>6 DEF Cancel, Tick, Expire, Purge, historyVars
<1> QED
  BY Zenon, <1>1, <1>2, <1>3, <1>4, <1>5, <1>6 DEF Next

(* A registry call that its driver left behind never enters its handler. *)
THEOREM Revocation == Spec => NoLateDispatch
<1> DEFINE Timely == \A x \in dispatches' \ dispatches : drv[x.by].pc = "granted"
<1>1. IndInv /\ [Next]_vars => [Timely]_vars
  <2> SUFFICES ASSUME IndInv, [Next]_vars,
                      NEW x \in dispatches' \ dispatches
               PROVE  drv[x.by].pc = "granted"
    OBVIOUS
  <2>1. PICK d \in Drivers : EnterHandler(d)
    BY Zenon, DispatchShape
  <2>2. x = drv[d].call /\ x # None /\ ~drv[d].revoked
    BY <2>1 DEF EnterHandler
  <2> QED
    BY <2>2, Zenon DEF IndInv, DriverOK
<1> QED
  BY <1>1, Invariance, PTL DEF Spec, NoLateDispatch

-----------------------------------------------------------------------------

(* What a snapshot has spent, x at least as much as r *)
Spends(r, x) == x.steps >= r.steps /\ x.calls >= r.calls

(* A save of a snapshot that spends no less than the one read refunds        *)
(* nothing: the fence lets it through only when the row is what was read.    *)
LEMMA SaveSpends ==
    ASSUME IndInv, NEW d \in Drivers, NEW new, NEW led, NEW ok, NEW bad,
           drv[d].pc \notin {"idle", "creating", "abandoned"},
           SaveWith(d, new, led, ok, bad), Spends(Snap(d), Saved(d, new))
    PROVE  Spends(row, row')
<1>1. row \in RowSet /\ Fresh(Snap(d), row)
  BY ZenonT(30) DEF IndInv, TypeOK, DriverOK, Snap
<1>2. row.steps >= row.steps /\ row.calls >= row.calls
  BY SMTT(30), <1>1, BoundsAssumption DEF RowSet
<1>3. CASE row' = row
  BY Zenon, <1>2, <1>3 DEF Spends
<1>4. CASE CommitSave(d, new, led)
  <2>1. Snap(d) = row /\ row' = Saved(d, new)
    BY <1>1, <1>4 DEF CommitSave, Fenced, Fresh
  <2> QED
    BY Zenon, <2>1
<1> QED
  BY Zenon, <1>3, <1>4 DEF SaveWith, storeVars

(* What the driver's updates of a snapshot spend *)
LEMMA Updates ==
    ASSUME NEW s \in RowSet, NEW n
    PROVE  /\ \A st : Spends(s, [Stop(s, st) EXCEPT !.revision = n])
           /\ \A st : Spends(s, [Finish(s, st) EXCEPT !.revision = n])
           /\ \A f : Spends(s, [Observed(s, f) EXCEPT !.revision = n])
           /\ Spends(s, [Reserved(s) EXCEPT !.revision = n])
           /\ Spends(s, [Counted(s) EXCEPT !.revision = n])
           /\ Spends(s, [s EXCEPT !.revision = n])
<1>1. s.steps \in Nat /\ s.calls \in Nat
  BY BoundsAssumption DEF RowSet
<1>2. /\ \A st : Spends(s, [Stop(s, st) EXCEPT !.revision = n])
      /\ \A st : Spends(s, [Finish(s, st) EXCEPT !.revision = n])
  BY <1>1 DEF RowSet, Stop, Finish, Spends
<1>3. \A f : Spends(s, [Observed(s, f) EXCEPT !.revision = n])
  BY <1>1 DEF RowSet, Observed, Spends
<1>4. Spends(s, [Reserved(s) EXCEPT !.revision = n])
  BY <1>1 DEF RowSet, Reserved, Spends
<1>5. Spends(s, [Counted(s) EXCEPT !.revision = n])
  BY <1>1 DEF RowSet, Counted, Spends
<1>6. Spends(s, [s EXCEPT !.revision = n])
  BY <1>1 DEF RowSet, Spends
<1> QED
  BY Zenon, <1>2, <1>3, <1>4, <1>5, <1>6

(* No step of a driver or of its environment gives anything back. *)
LEMMA SpendsStep ==
    ASSUME IndInv, [Next]_vars
    PROVE  Spends(row, row')
<1>0. row \in RowSet /\ \A d \in Drivers : Snap(d) \in RowSet
  BY DEF IndInv, TypeOK, DriverSet, Snap
<1>a. row' = row => Spends(row, row')
  BY <1>0, BoundsAssumption DEF RowSet, Spends
<1>b. ASSUME NEW n PROVE Spends(row, [row EXCEPT !.revision = n])
  BY Zenon, <1>0, Updates
<1>1. CASE UNCHANGED vars
  BY <1>1, <1>a DEF vars, storeVars
<1>2. ASSUME NEW d \in Drivers, Starting(d)
      PROVE  Spends(row, row')
  <2>1. CASE row' = row
    BY <1>a, <2>1
  <2>2. CASE Insert(d) /\ drv[d].pc \in {"creating", "abandoned"}
    <3>1. row = NewRow(row.mode) /\ row' = [NewRow(row.mode) EXCEPT !.status = "running"]
      BY <2>2, Zenon DEF Insert, IndInv, DriverOK, Snap
    <3>2. row.steps = 0 /\ row.calls = 0 /\ row'.steps = 0 /\ row'.calls = 0
      BY <3>1 DEF NewRow
    <3> QED
      BY <3>2 DEF Spends
  <2> QED
    BY <1>2, <2>1, <2>2 DEF Starting, BeginStart, Create, CreateDuplicate, CreateUnacked,
              CreateAbandoned, LateCreate, storeVars
<1>3. ASSUME NEW d \in Drivers, Claiming(d)
      PROVE  Spends(row, row')
  <2>1. row' = row \/ row' = [row EXCEPT !.revision = row.revision + 1]
    BY <1>3 DEF Claiming, BeginResume, BeginBackground, Claim, ClaimRefused, ClaimUnacked,
              CommitClaim, CommitRenew, CommitAcquire, storeVars
  <2> QED
    BY <1>a, <1>b, <2>1
<1>4. ASSUME NEW d \in Drivers, Working(d)
      PROVE  Spends(row, row')
  <2>1. CASE AnswerApproval(d)
    <3>1. Spends(Snap(d), Saved(d, [Snap(d) EXCEPT !.status = "running", !.okAct = Snap(d).decision,
                                    !.okDef = Snap(d).ask, !.ask = None]))
      BY <1>0, BoundsAssumption DEF RowSet, Saved, Spends
    <3> QED
      BY Zenon, <1>0, <2>1, <3>1, SaveSpends, Updates DEF AnswerApproval, Save, Saved
  <2>2. CASE Advance(d)
    BY <1>a, <2>2 DEF Advance, storeVars
  <2>3. CASE StopEarly(d)
    BY Zenon, <1>0, <2>3, SaveSpends, Updates DEF StopEarly, Save, Saved
  <2>4. CASE Reserve(d)
    BY Zenon, <1>0, <2>4, SaveSpends, Updates DEF Reserve, Save, Saved
  <2>5. CASE Decide(d)
    <3>1. \A t : Spends(Snap(d), Saved(d, [Snap(d) EXCEPT !.decision = t, !.inflight = FALSE, !.phase = "tool"]))
      BY <1>0, BoundsAssumption DEF RowSet, Saved, Spends
    <3>2. Spends(Snap(d), Saved(d, [Snap(d) EXCEPT !.decision = None, !.inflight = FALSE,
                                  !.phase = "validation"]))
      BY <1>0, BoundsAssumption DEF RowSet, Saved, Spends
    <3> QED
      BY Zenon, <1>0, <2>5, <3>1, <3>2, SaveSpends, Updates DEF Decide, Save, Saved
  <2>6. CASE Validate(d)
    BY Zenon, <1>0, <2>6, SaveSpends, Updates DEF Validate, Save, Saved
  <2>7. CASE Fail(d)
    BY Zenon, <1>0, <2>7, SaveSpends, Updates DEF Fail, Save, Saved
  <2> QED
    BY <1>4, <2>1, <2>2, <2>3, <2>4, <2>5, <2>6, <2>7 DEF Working
<1>5. ASSUME NEW d \in Drivers, UsingTool(d)
      PROVE  Spends(row, row')
  <2>1. CASE Reconcile(d)
    <3>1. Spends(Snap(d), Saved(d, [Snap(d) EXCEPT !.pending = 0]))
      BY <1>0, BoundsAssumption DEF RowSet, Saved, Spends
    <3> QED
      BY Zenon, <1>0, <2>1, <3>1, SaveSpends, Updates DEF Reconcile, Save, Saved
  <2>2. CASE Exhausted(d)
    BY Zenon, <1>0, <2>2, SaveSpends, Updates DEF Exhausted, Save, Saved
  <2>3. CASE RequestApproval(d)
    <3>1. Spends(Snap(d), Saved(d, [Snap(d) EXCEPT !.status = "awaiting_approval", !.ask = drv[d].ver]))
      BY <1>0, BoundsAssumption DEF RowSet, Saved, Spends
    <3> QED
      BY <2>3, <3>1, SaveSpends DEF RequestApproval, Save
  <2>4. CASE RefuseStale(d)
    BY Zenon, <1>0, <2>4, SaveSpends, Updates DEF RefuseStale, Save, Saved
  <2>5. CASE Journal(d)
    BY Zenon, <1>0, <2>5, SaveSpends, Updates DEF Journal, Saved
  <2>6. CASE GrantExpired(d)
    BY Zenon, <1>0, <2>6, SaveSpends, Updates DEF GrantExpired, Saved
  <2>7. CASE Reject(d)
    BY Zenon, <1>0, <2>7, SaveSpends, Updates DEF Reject, Saved
  <2>8. CASE EnterHandler(d)
    BY <1>a, <2>8 DEF EnterHandler, storeVars
  <2>9. CASE HandlerReturns(d)
    BY Zenon, <1>0, <2>9, SaveSpends, Updates DEF HandlerReturns, Saved
  <2>10. CASE HandlerFails(d)
    BY Zenon, <1>0, <2>10, SaveSpends, Updates DEF HandlerFails, Save, Saved
  <2>11. CASE ResultInvalid(d)
    BY Zenon, <1>0, <2>11, SaveSpends, Updates DEF ResultInvalid, Save, Saved
  <2>12. CASE Settle(d)
    BY Zenon, <1>0, <2>12, SaveSpends, Updates DEF Settle, Save, Saved
  <2> QED
    BY Zenon, <1>5, <2>1, <2>2, <2>3, <2>4, <2>5, <2>6, <2>7, <2>8, <2>9, <2>10, <2>11, <2>12 DEF UsingTool
<1>c. ASSUME NEW s \in RowSet, Fresh(s, row), CommitCancel(s) PROVE Spends(row, row')
  <2>1. s = row /\ row' = [Stop(s, "cancelled") EXCEPT !.revision = s.revision + 1]
    BY <1>c DEF CommitCancel, Fresh
  <2> QED
    BY Zenon, <2>1, Updates
<1>6. ASSUME NEW d \in Drivers, Supervising(d)
      PROVE  Spends(row, row')
  <2>1. CASE CleanupStop(d)
    BY Zenon, <1>0, <2>1, SaveSpends, Updates DEF CleanupStop, Save, Saved
  <2>2. CASE row' = row
    BY <1>a, <2>2
  <2>3. CASE CleanupCancel(d)
    <3>1. Fresh(Snap(d), row)
      BY <2>3, Zenon DEF CleanupCancel, IndInv, DriverOK, Snap
    <3> QED
      BY Zenon, <1>0, <1>a, <1>c, <2>3, <3>1 DEF CleanupCancel, storeVars
  <2>4. CASE LateSave(d)
    <3>1. CASE row' = late[d].row /\ late[d] # None /\ Fenced(d, late[d].row.revision - 1)
      <4>1. late[d] \in LateSet /\ late[d].row.revision \in Nat /\ row.revision \in Nat
        BY ZenonT(30), <1>0, <3>1 DEF IndInv, TypeOK, LateSet, RowSet
      <4>2. LateOK(late[d], row, Journalled, attempts, approvals)
        BY ZenonT(30) DEF IndInv
      <4>3. row.status \in Active /\ late[d].row.revision = row.revision + 1
        BY <3>1, <4>1 DEF Fenced
      <4> QED
        BY Zenon, <3>1, <4>2, <4>3 DEF LateOK, Spends
    <3> QED
      BY Zenon, <1>a, <2>4, <3>1 DEF LateSave, storeVars
  <2> QED
    BY <1>6, <2>1, <2>2, <2>3, <2>4 DEF Supervising, Heartbeat, HeartbeatFails, Timeout, Disconnect,
              CommitRenew, Abort, CleanupLoad, CleanupGivesUp, Release, Crash, storeVars
<1>7. CASE Cancel
  <2>1. Fresh(row, row)
    BY SMTT(30), <1>0, <1>7 DEF Cancel, CommitCancel, Fresh, RowSet, Active
  <2> QED
    BY <1>0, <1>7, <1>c, <2>1 DEF Cancel
<1>8. CASE Tick \/ Expire
  BY <1>8, <1>a DEF Tick, Expire
<1>9. CASE Purge
  BY <1>0, <1>9, BoundsAssumption DEF Purge, RowSet, Spends
<1> QED
  BY Zenon, <1>1, <1>2, <1>3, <1>4, <1>5, <1>6, <1>7, <1>8, <1>9 DEF Next

(* Spent steps and tool calls never go back, whichever driver saves, crashes, *)
(* is cancelled or leaves a transaction behind (store.save and its fence).    *)
THEOREM BudgetKept == Spec => BudgetNeverRefunded
<1>1. IndInv /\ [Next]_vars => [row'.steps >= row.steps /\ row'.calls >= row.calls]_vars
  BY SpendsStep DEF Spends
<1> QED
  BY <1>1, Invariance, PTL DEF Spec, BudgetNeverRefunded
=============================================================================
