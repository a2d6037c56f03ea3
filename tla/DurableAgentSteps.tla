------------------------- MODULE DurableAgentSteps -------------------------
(***************************************************************************)
(* Lemmas about DurableAgent, first part: what keeps IndInv in a step that *)
(* leaves the row alone or moves it under the fence (StepLemma) and in     *)
(* every save (SaveLemma); then the steps that create or claim a run, and  *)
(* those of run_body outside the tool call.                                *)
(***************************************************************************)
EXTENDS DurableAgent, TLAPS

-----------------------------------------------------------------------------
(* RowOK does not depend on the revision, and fewer calls or more approvals *)
(* ask less of a row.                                                       *)
LEMMA RowOKWeaken ==
    ASSUME NEW r \in RowSet, NEW l, NEW J, NEW K, NEW n, NEW g, NEW h,
           RowOK(r, l, J, n, g), K \subseteq J, g \subseteq h
    PROVE  RowOK(r, l, K, n, h)
BY DEF RowOK

LEMMA RowOKRevision ==
    ASSUME NEW r \in RowSet, NEW l, NEW J, NEW n, NEW g, NEW k, RowOK(r, l, J, n, g)
    PROVE  RowOK([r EXCEPT !.revision = k], l, J, n, g)
BY DEF RowOK, RowSet

LEMMA CallsOKWeaken ==
    ASSUME NEW J, NEW K, NEW g, NEW h, CallsOK(J, g), K \subseteq J, g \subseteq h
    PROVE  CallsOK(K, h)
BY DEF CallsOK

(* stop and finish keep a row good: nothing is dispatched from a terminal row. *)
LEMMA StopOK ==
    ASSUME NEW r \in RowSet, NEW l, NEW J, NEW n, NEW g, NEW st \in Terminal,
           r.status \in Active, RowOK(r, l, J, n, g)
    PROVE  /\ Stop(r, st) \in RowSet
           /\ RowOK(Stop(r, st), l, J, n, g)
BY ZenonT(30) DEF RowOK, RowSet, Stop, Active, Terminal

LEMMA StopRow ==
    ASSUME NEW s \in RowSet, NEW st \in Terminal
    PROVE  /\ Stop(s, st) \in RowSet /\ Stop(s, st).status = st
           /\ Stop(s, st).steps = s.steps /\ Stop(s, st).calls = s.calls
           /\ Stop(s, st).mode = s.mode
BY Zenon DEF Stop, RowSet

LEMMA FinishOK ==
    ASSUME NEW r \in RowSet, NEW l, NEW m, NEW J, NEW n, NEW g, NEW st \in Terminal,
           r.status \in Active, RowOK(r, l, J, n, g)
    PROVE  /\ Finish(r, st) \in RowSet
           /\ RowOK(Finish(r, st), m, J, n, g)
<1> DEFINE f == Finish(r, st)
<1>0. 0 \in 0..MaxToolCalls
  BY BoundsAssumption
<1>1. f \in RowSet
  BY <1>0, Zenon DEF RowSet, Finish, Terminal
<1>2. f.status = st /\ f.pending = 0 /\ f.steps = r.steps /\ f.calls = r.calls
  BY DEF RowSet, Finish
<1>3. st \notin Active
  BY DEF Active, Terminal
<1> QED
  BY <1>1, <1>2, <1>3 DEF RowOK

(* The row that counts and journals the call y, when nothing is pending *)
CountsCall(s, c, new) ==
    /\ s.status = "running" /\ s.phase = "tool" /\ s.pending = 0 /\ c = s.calls + 1
    /\ new.status = s.status /\ new.steps = s.steps /\ new.calls = c
    /\ new.okAct = s.okAct /\ new.okDef = s.okDef /\ new.phase = s.phase /\ new.pending = c
    /\ new.decision = s.decision /\ new.inflight = s.inflight
StartsCall(s, c, p, led, y, g) ==
    /\ led[c].status = "started" /\ led[c].step = s.steps
    /\ led[c].tool = s.decision /\ led[c].policy = p
    /\ y.call = c /\ y.step = s.steps /\ y.policy = p
    /\ y.tool \in Approval => [tool |-> y.tool, ver |-> y.ver, step |-> y.step] \in g

LEMMA JournalRow ==
    ASSUME NEW s \in RowSet, NEW c \in Calls, NEW p \in {"read_only", "never"},
           NEW new \in RowSet, CountsCall(s, c, new),
           NEW l, NEW led, NEW J \in SUBSET CallSet, NEW n, NEW g,
           RowOK(s, l, J, n, g), CallsOK(J, g), NEW y, StartsCall(s, c, p, led, y, g)
    PROVE  /\ RowOK(new, led, J, n, g) /\ RowOK(new, led, J \cup {y}, n, g)
           /\ CallsOK(J \cup {y}, g)
<1> USE DEF CountsCall, StartsCall
<1>1. s.calls \in Int /\ s.steps \in Int /\ c \in Int /\ c # 0
  BY BoundsAssumption DEF RowSet, Calls
<1>2. ASSUME NEW z \in J
      PROVE  /\ z.call < c /\ z.call <= c /\ z.call # c /\ ~(c < z.call) /\ z.step <= s.steps
             /\ ~(z.step = s.steps /\ z.policy = "never")
  <2>1. z.call \in Int /\ z.call # 0
    BY <1>2, BoundsAssumption DEF CallSet, Calls
  <2>2. z.call <= s.calls /\ z.step <= s.steps
    BY <1>2 DEF RowOK
  <2>3. ~(z.step = s.steps /\ z.policy = "never")
    BY <1>2, <2>1 DEF RowOK, Active
  <2> QED
    BY <1>1, <2>1, <2>2, <2>3
<1>3. /\ s.okAct # None => [tool |-> s.okAct, ver |-> s.okDef, step |-> s.steps] \in g
      /\ n <= s.steps /\ ~s.inflight /\ s.decision \in Tools
  BY DEF RowOK, Active
<1>4. \A z \in J \cup {y} :
         /\ z.call <= c /\ z.step <= s.steps
         /\ z.step = s.steps /\ z.policy = "never" => z.call = c /\ p = "never"
  BY <1>1, <1>2
<1>5. RowOK(new, led, J, n, g) /\ RowOK(new, led, J \cup {y}, n, g)
  BY <1>1, <1>2, <1>3, <1>4 DEF RowOK, Active
<1>6. \A z \in J : /\ z.policy \in {"read_only", "never"}
                   /\ z.call # y.call /\ ~(y.call < z.call)
                   /\ z.step = y.step => z.policy = "read_only"
  BY <1>2, Zenon DEF CallsOK
<1>7. ~(y.call < y.call) /\ y.policy \in {"read_only", "never"}
  BY <1>1
<1>8. CallsOK(J \cup {y}, g)
  <2>1. ASSUME NEW x \in J \cup {y}
        PROVE  /\ x.policy \in {"read_only", "never"}
               /\ x.tool \in Approval =>
                     [tool |-> x.tool, ver |-> x.ver, step |-> x.step] \in g
    BY <1>6, <1>7, <2>1, Zenon DEF CallsOK
  <2>2. ASSUME NEW x \in J \cup {y}, NEW z \in J \cup {y}
        PROVE  /\ x.call = z.call => x = z
               /\ x.step = z.step /\ x.call < z.call => x.policy = "read_only"
    <3>1. CASE x \in J /\ z \in J
      BY <3>1, Zenon DEF CallsOK
    <3>2. CASE x \in J /\ z = y
      BY <1>6, <3>2, Zenon
    <3>3. CASE x = y /\ z \in J
      BY <1>6, <3>3, Zenon
    <3>4. CASE x = y /\ z = y
      BY <1>7, <3>4, Zenon
    <3> QED
      BY <2>2, <3>1, <3>2, <3>3, <3>4, Zenon
  <2> QED
    BY <2>1, <2>2, Zenon DEF CallsOK
<1> QED
  BY <1>5, <1>8

-----------------------------------------------------------------------------
(* What a transaction may do to the row: the mode never changes, the       *)
(* revision never falls, a run never disappears, and an active row that    *)
(* keeps its revision is unchanged.                                        *)
RowStep(r, s) ==
    /\ s.mode = r.mode
    /\ s.revision >= r.revision
    /\ r.status # "absent" => s.status # "absent"
    /\ r.status # "absent" /\ s.status \in Active /\ s.revision = r.revision => s = r

LEMMA FreshKept ==
    ASSUME NEW r \in RowSet, NEW s \in RowSet, NEW t \in RowSet, RowStep(r, s), Fresh(t, r)
    PROVE  Fresh(t, s)
BY DEF RowStep, Fresh, RowSet, Active

LEMMA DriverKept ==
    ASSUME NEW d, NEW x \in DriverSet, NEW r \in RowSet, NEW s \in RowSet, NEW g, NEW h,
           RowStep(r, s), g \subseteq h, DriverOK(d, x, r, g)
    PROVE  DriverOK(d, x, s, h)
<1>1. x.snap \in RowSet
  BY DEF DriverSet
<1>2. x.pc \notin {"idle", "creating", "abandoned"} => Fresh(x.snap, s)
  BY <1>1, FreshKept DEF DriverOK
<1>3. s.mode = r.mode
  BY DEF RowStep
<1> QED
  BY <1>2, <1>3 DEF DriverOK

(* The late transactions survive a step that changes nothing they depend   *)
(* on, and lose their chance in a step that moves the row.                 *)
LEMMA LateKept ==
    ASSUME NEW t \in LateSet \cup {None}, NEW r \in RowSet, NEW s \in RowSet,
           NEW J, NEW K, NEW n, NEW m, NEW g, NEW h,
           LateOK(t, r, J, n, g), RowStep(r, s), g \subseteq h,
           \/ s = r /\ K \subseteq J /\ m = n
           \/ s.revision > r.revision
           \/ s.status \notin Active
           \/ r.status = "absent"
    PROVE  LateOK(t, s, K, m, h)
<1>1. CASE t = None
  BY <1>1 DEF LateOK
<1>2. CASE t # None
  <2>1. t.row \in RowSet /\ t.row.revision \in Nat /\ r.revision \in Nat /\ s.revision \in Nat
    BY <1>2 DEF LateSet, RowSet
  <2>2. r.status # "absent" /\ s.status # "absent" /\ t.row.revision <= s.revision + 1
    BY <1>2, <2>1 DEF LateOK, RowStep
  <2>3. CASE s = r /\ K \subseteq J /\ m = n
    BY <1>2, <2>1, <2>2, <2>3, RowOKWeaken DEF LateOK
  <2>4. CASE s.revision > r.revision \/ s.status \notin Active
    <3>1. ~(s.status \in Active /\ t.row.revision = s.revision + 1)
      BY <1>2, <2>1, <2>4 DEF LateOK
    <3> QED
      BY <2>2, <3>1 DEF LateOK
  <2> QED
    BY <2>2, <2>3, <2>4
<1> QED
  BY <1>1, <1>2

-----------------------------------------------------------------------------
(* A step of driver d: what is left to show about it. *)
LEMMA StepLemma ==
    ASSUME IndInv, NEW d \in Drivers, NEW x,
           TypeOK', drv' = [drv EXCEPT ![d] = x],
           RowStep(row, row'), approvals \subseteq approvals',
           row'.status = "absent" => row' = NewRow(row'.mode),
           \/ row' = row /\ Journalled' \subseteq Journalled /\ attempts' = attempts
           \/ row'.revision > row.revision
           \/ row'.status \notin Active
           \/ row.status = "absent",
           RowOK(row', ledger', Journalled', attempts', approvals'),
           CallsOK(Journalled', approvals'),
           DriverOK(d, x, row', approvals'),
           \A e \in Drivers \ {d} : late'[e] = late[e],
           \/ late'[d] = late[d]
           \/ LateOK(late'[d], row', Journalled', attempts', approvals')
    PROVE  IndInv'
<1> row \in RowSet /\ row' \in RowSet
  BY DEF IndInv, TypeOK
<1>1. ASSUME NEW e \in Drivers
      PROVE  DriverOK(e, drv'[e], row', approvals')
  <2>1. drv \in [Drivers -> DriverSet]
    BY DEF IndInv, TypeOK
  <2>2. CASE e = d
    BY <2>1, <2>2
  <2>3. CASE e # d
    <3>1. drv'[e] = drv[e] /\ drv[e] \in DriverSet /\ DriverOK(e, drv[e], row, approvals)
      BY <2>1, <2>3 DEF IndInv
    <3> QED
      BY <3>1, DriverKept
  <2> QED
    BY <2>2, <2>3
<1>2. ASSUME NEW e \in Drivers
      PROVE  LateOK(late'[e], row', Journalled', attempts', approvals')
  <2>1. CASE late'[e] = late[e]
    <3>1. late[e] \in LateSet \cup {None}
      BY DEF IndInv, TypeOK
    <3>2. LateOK(late[e], row, Journalled, attempts, approvals)
      BY DEF IndInv
    <3> QED
      BY <2>1, <3>1, <3>2, LateKept
  <2>2. CASE late'[e] # late[e]
    BY <2>2
  <2> QED
    BY <2>1, <2>2
<1> QED
  BY <1>1, <1>2 DEF IndInv

(* The journalled calls when one driver changes *)
LEMMA JournalledStep ==
    ASSUME TypeOK, NEW d \in Drivers, NEW x \in DriverSet,
           drv' = [drv EXCEPT ![d] = x]
    PROVE  /\ Journalled' \subseteq dispatches' \cup Journalled \cup ({x.call} \ {None})
           /\ x.call # None => x.call \in Journalled'
           /\ Journalled \subseteq CallSet
           /\ drv[d].call # None => drv[d].call \in Journalled
<1>1. drv \in [Drivers -> DriverSet] /\ dispatches \subseteq CallSet
  BY DEF TypeOK
<1>2. drv'[d] = x /\ \A e \in Drivers \ {d} : drv'[e] = drv[e]
  BY <1>1
<1>3. Journalled' \subseteq dispatches' \cup Journalled \cup ({x.call} \ {None})
  BY <1>2 DEF Journalled
<1>4. x.call # None => x.call \in Journalled'
  BY <1>2 DEF Journalled
<1>5. \A e \in Drivers : drv[e].call \in CallSet \cup {None}
  BY <1>1 DEF DriverSet
<1>6. Journalled \subseteq CallSet
  BY <1>1, <1>5 DEF Journalled
<1>7. drv[d].call # None => drv[d].call \in Journalled
  BY DEF Journalled
<1> QED
  BY <1>3, <1>4, <1>6, <1>7

-----------------------------------------------------------------------------
(* A step that leaves the row and the ledger alone, but may leave a           *)
(* transaction of d behind                                                    *)
LEMMA LateStep ==
    ASSUME IndInv, NEW d \in Drivers, NEW x \in DriverSet,
           drv' = [drv EXCEPT ![d] = x], UNCHANGED <<row, ledger, expired, attempts>>,
           token' \in Drivers \cup {None}, leaseLeft' \in 0..LeaseTicks,
           faults' \in 0..MaxFaults, dispatches' \subseteq Journalled,
           approvals \subseteq approvals',
           approvals' \subseteq [tool : Tools, ver : Versions, step : 0..MaxSteps],
           x.call \in Journalled \cup {None}, DriverOK(d, x, row, approvals'),
           late' \in [Drivers -> LateSet \cup {None}],
           \A e \in Drivers \ {d} : late'[e] = late[e],
           late'[d] = late[d] \/ LateOK(late'[d], row, Journalled, attempts, approvals)
    PROVE  IndInv'
<1>1. /\ TypeOK /\ row \in RowSet /\ drv \in [Drivers -> DriverSet]
      /\ RowOK(row, ledger, Journalled, attempts, approvals) /\ CallsOK(Journalled, approvals)
      /\ row.status = "absent" => row = NewRow(row.mode)
  BY DEF IndInv, TypeOK
<1>2. Journalled' \subseteq Journalled /\ Journalled \subseteq CallSet
  BY <1>1, JournalledStep, Zenon
<1>3. RowStep(row, row)
  BY <1>1 DEF RowStep, RowSet
<1>4. RowOK(row', ledger', Journalled', attempts', approvals')
  BY Zenon, <1>1, <1>2, RowOKWeaken
<1>5. CallsOK(Journalled', approvals')
  BY <1>1, <1>2, CallsOKWeaken
<1>6. TypeOK'
  BY <1>1, <1>2 DEF TypeOK
<1>7. late'[d] = late[d] \/ LateOK(late'[d], row', Journalled', attempts', approvals')
  <2>1. late'[d] \in LateSet \cup {None}
    OBVIOUS
  <2> QED
    BY <1>1, <1>2, <1>3, <2>1, LateKept, Zenon
<1> QED
  BY <1>1, <1>2, <1>3, <1>4, <1>5, <1>6, <1>7, StepLemma, Zenon

(* ... and one that leaves none *)
LEMMA DriverStep ==
    ASSUME IndInv, NEW d \in Drivers, NEW x \in DriverSet,
           drv' = [drv EXCEPT ![d] = x], UNCHANGED <<row, ledger, expired, late, attempts>>,
           token' \in Drivers \cup {None}, leaseLeft' \in 0..LeaseTicks,
           faults' \in 0..MaxFaults, dispatches' \subseteq Journalled,
           approvals \subseteq approvals',
           approvals' \subseteq [tool : Tools, ver : Versions, step : 0..MaxSteps],
           x.call \in Journalled \cup {None}, DriverOK(d, x, row, approvals')
    PROVE  IndInv'
<1>1. late' \in [Drivers -> LateSet \cup {None}] /\ \A e \in Drivers : late'[e] = late[e]
  BY DEF IndInv, TypeOK
<1> QED
  BY <1>1, LateStep, Zenon

-----------------------------------------------------------------------------
(* Where a save may leave its driver *)
After == Points \ {"idle", "creating", "abandoned", "claiming", "approving"}

(* What a save must fulfil: the new row is good whenever the driver's         *)
(* snapshot is the stored row, and the driver is fit for where it goes.       *)
GoodSave(d, new, led, ok) ==
    Snap(d) = row /\ row.status \in Active =>
        /\ RowOK(new, led, Journalled, attempts, approvals)
        /\ RowOK(new, led, Journalled \cup ({ok.call} \ {None}), attempts', approvals)
        /\ CallsOK(Journalled \cup ({ok.call} \ {None}), approvals)
        /\ new.steps >= row.steps /\ new.calls >= row.calls
        /\ new.mode = row.mode /\ new.status \in Active \cup Terminal
GoodDrivers(d, new, ok, bad) ==
    /\ drv[d].pc \notin {"idle", "creating", "abandoned"}
    /\ ok.pc \in After /\ ok.ver \in Versions /\ Knows(ok.pc, new)
    /\ ok.call # None => ok.call.by = d /\ (ok.pc = "granted" \/ ok.revoked)
    /\ bad.pc \in After /\ bad.ver \in Versions /\ bad.snap = Snap(d)
    /\ Knows(bad.pc, Snap(d))
    /\ bad.call \in Journalled \cup {None}
    /\ bad.call # None => bad.call.by = d /\ bad.revoked
Reserves(d, ok, bad) ==
    /\ attempts' \in Nat
    /\ \/ attempts' = attempts
       \/ /\ drv'[d].pc = ok.pc /\ ok.pc # bad.pc
          /\ ok.pc \notin {"releasing", "timing_out", "cancelling"}

(* Every save, whatever happens to it *)
LEMMA SaveLemma ==
    ASSUME IndInv, NEW d \in Drivers, NEW new \in RowSet, NEW led \in [Calls -> EntrySet],
           NEW ok \in DriverSet, NEW bad \in DriverSet,
           SaveWith(d, new, led, ok, bad),
           UNCHANGED <<dispatches, approvals>>, Reserves(d, ok, bad),
           GoodSave(d, new, led, ok), GoodDrivers(d, new, ok, bad)
    PROVE  IndInv'
<1> DEFINE sv == Saved(d, new)
<1>1. /\ row \in RowSet /\ drv \in [Drivers -> DriverSet] /\ Snap(d) \in RowSet
      /\ late \in [Drivers -> LateSet \cup {None}] /\ Fresh(Snap(d), row) /\ TypeOK
  BY Zenon DEF IndInv, TypeOK, DriverSet, Snap, DriverOK, GoodDrivers
<1>2. /\ sv \in RowSet /\ sv.revision = Snap(d).revision + 1 /\ sv.status = new.status
      /\ sv.mode = new.mode /\ sv.steps = new.steps /\ sv.calls = new.calls
  <2>1. Snap(d).revision + 1 \in Nat
    BY <1>1 DEF RowSet
  <2> QED
    BY <2>1, Zenon DEF Saved, RowSet
<1>3. \A K, n, g : RowOK(new, led, K, n, g) => RowOK(sv, led, K, n, g)
  BY RowOKRevision, Zenon DEF Saved
<1>4. Knows(ok.pc, sv)
  <2>1. Knows(ok.pc, new)
    BY Zenon DEF GoodDrivers
  <2> QED
    BY <2>1, Zenon DEF Knows, Saved, RowSet
<1>5. sv.status # "absent" => Fresh(sv, sv)
  BY <1>2 DEF Fresh, RowSet
<1>6. sv = Saved(d, new)
  OBVIOUS
<1> HIDE DEF sv
<1>7. ASSUME CommitSave(d, new, led)
      PROVE  /\ Snap(d) = row /\ row.status \in Active
             /\ row' = sv /\ ledger' = led /\ UNCHANGED <<token, leaseLeft, expired>>
             /\ RowStep(row, row') /\ row'.revision > row.revision
             /\ row'.status # "absent"
  <2>1. /\ Snap(d) = row /\ row.status \in Active
        /\ row' = sv /\ ledger' = led /\ UNCHANGED <<token, leaseLeft, expired>>
    BY <1>1, <1>6, <1>7, Zenon DEF CommitSave, Fenced, Fresh
  <2>2. row.revision \in Nat
    BY <1>1 DEF RowSet
  <2>3. new.mode = row.mode /\ new.status \in Active \cup Terminal
    BY <2>1, Zenon DEF GoodSave
  <2> QED
    BY <1>2, <2>1, <2>2, <2>3 DEF RowStep, Active, Terminal
<1>8. \A x \in DriverSet : drv' = [drv EXCEPT ![d] = x] =>
        Journalled' \subseteq Journalled \cup ({x.call} \ {None})
  <2>1. dispatches' \subseteq Journalled
    BY DEF Journalled
  <2> QED
    BY <1>1, <2>1, JournalledStep, Zenon
<1>9. RowStep(row, row)
  BY <1>1 DEF RowStep, RowSet
<1>10. CallsOK(Journalled, approvals)
  BY Zenon DEF IndInv
(* the driver after a failed save *)
<1>11. ASSUME NEW x \in DriverSet, x.pc \in {bad.pc, "releasing", "timing_out", "cancelling"},
              x.ver = bad.ver, x.snap = bad.snap, x.call = bad.call, bad.revoked => x.revoked,
              NEW r \in RowSet, RowStep(row, r)
       PROVE  DriverOK(d, x, r, approvals)
  <2>1. Knows(x.pc, Snap(d)) /\ x.pc \in After
    BY <1>11 DEF Knows, After, Points, Cleaning, GoodDrivers
  <2>2. Fresh(x.snap, r)
    BY <1>1, <1>11, FreshKept, Zenon DEF GoodDrivers
  <2> QED
    BY <1>11, <2>1, <2>2, ZenonT(30) DEF DriverOK, After, GoodDrivers
<1>12. CASE /\ CommitSave(d, new, led)
            /\ Become(d, [ok EXCEPT !.snap = Saved(d, new)])
            /\ NoFault /\ UNCHANGED late
  <2> DEFINE x == [ok EXCEPT !.snap = sv]
  <2>1. /\ x \in DriverSet /\ x.pc = ok.pc /\ x.snap = sv /\ x.ver = ok.ver /\ x.call = ok.call
        /\ x.revoked = ok.revoked
    BY <1>2, Zenon DEF DriverSet
  <2>2. drv' = [drv EXCEPT ![d] = x]
    BY <1>6, <1>12, Zenon DEF Become
  <2> HIDE DEF x
  <2>3. Journalled' \subseteq Journalled \cup ({ok.call} \ {None})
    BY <1>8, <2>1, <2>2, Zenon
  <2>4. /\ RowOK(sv, led, Journalled \cup ({ok.call} \ {None}), attempts', approvals)
        /\ CallsOK(Journalled \cup ({ok.call} \ {None}), approvals)
    BY <1>3, <1>7, <1>12, Zenon DEF GoodSave
  <2>5. RowOK(row', ledger', Journalled', attempts', approvals')
    BY <1>2, <1>7, <1>12, <2>3, <2>4, RowOKWeaken, ZenonT(30)
  <2>6. CallsOK(Journalled', approvals')
    BY <2>3, <2>4, CallsOKWeaken
  <2>7. DriverOK(d, x, row', approvals')
    BY <1>4, <1>5, <1>7, <1>12, <2>1, Zenon DEF DriverOK, After, GoodDrivers
  <2>8. TypeOK'
    BY <1>1, <1>2, <1>7, <1>12, <2>1, <2>2, Zenon DEF TypeOK, NoFault, Reserves
  <2> QED
    BY <1>7, <1>12, <2>2, <2>5, <2>6, <2>7, <2>8, StepLemma, Zenon
<1>13. CASE /\ CommitSave(d, new, led)
            /\ Become(d, bad)
            /\ Fault /\ UNCHANGED late
  <2>1. drv' = [drv EXCEPT ![d] = bad] /\ drv'[d] = bad
    BY <1>1, <1>13, Zenon DEF Become
  <2>2. Journalled' \subseteq Journalled
    <3>1. bad.call \in Journalled \cup {None}
      BY Zenon DEF GoodDrivers
    <3> QED
      BY <1>8, <2>1, <3>1, Zenon
  <2>3. attempts' = attempts
    BY <2>1, Zenon DEF Reserves
  <2>4. RowOK(sv, led, Journalled, attempts, approvals)
    BY <1>3, <1>7, <1>13, Zenon DEF GoodSave
  <2>5. RowOK(row', ledger', Journalled', attempts', approvals')
    BY <1>2, <1>7, <1>13, <2>2, <2>3, <2>4, RowOKWeaken, Zenon
  <2>6. CallsOK(Journalled', approvals')
    BY <1>10, <2>2, CallsOKWeaken, Zenon
  <2>7. DriverOK(d, bad, row', approvals')
    BY <1>2, <1>7, <1>11, <1>13, Zenon
  <2>8. faults' \in 0..MaxFaults
    BY <1>1, <1>13, BoundsAssumption DEF TypeOK, Fault
  <2>9. TypeOK'
    BY <1>1, <1>2, <1>7, <1>13, <2>1, <2>8, Zenon DEF TypeOK, Reserves
  <2> QED
    BY <1>7, <1>13, <2>1, <2>5, <2>6, <2>7, <2>9, StepLemma, Zenon
(* the row is left alone *)
<1>14. ASSUME NEW x \in DriverSet, drv' = [drv EXCEPT ![d] = x],
              x.pc \in {bad.pc, "releasing", "timing_out", "cancelling"}, x.ver = bad.ver,
              x.snap = bad.snap, x.call = bad.call, bad.revoked => x.revoked,
              UNCHANGED storeVars, faults' \in 0..MaxFaults,
              late' \in [Drivers -> LateSet \cup {None}],
              \A e \in Drivers \ {d} : late'[e] = late[e],
              late'[d] = late[d] \/ LateOK(late'[d], row, Journalled, attempts, approvals)
       PROVE  IndInv'
  <2>1. drv'[d] = x
    BY <1>1, <1>14, Zenon
  <2>2. attempts' = attempts
    BY <1>14, <2>1, Zenon DEF Reserves
  <2>3. UNCHANGED <<row, ledger, token, leaseLeft, expired>>
    BY <1>14, Zenon DEF storeVars
  <2>4. DriverOK(d, x, row, approvals) /\ x.call \in Journalled \cup {None}
    BY <1>1, <1>9, <1>11, <1>14, Zenon DEF GoodDrivers
  <2>5. /\ token' \in Drivers \cup {None} /\ leaseLeft' \in 0..LeaseTicks
        /\ approvals' \subseteq [tool : Tools, ver : Versions, step : 0..MaxSteps]
        /\ dispatches' \subseteq Journalled
    BY <1>1, <2>3, Zenon DEF TypeOK, Journalled
  <2> QED
    BY <1>14, <2>2, <2>3, <2>4, <2>5, LateStep, Zenon
<1>15. CASE /\ Become(d, bad)
            /\ IF Immutable(led) THEN NoFault ELSE Fault
            /\ UNCHANGED <<storeVars, late>>
  <2>1. faults' \in 0..MaxFaults
    BY <1>1, <1>15, BoundsAssumption DEF TypeOK, Fault, NoFault
  <2> QED
    BY <1>1, <1>14, <1>15, <2>1, Zenon DEF Become
<1>16. CASE /\ ~Fenced(d, Snap(d).revision)
            /\ Become(d, [bad EXCEPT !.pc = "releasing"])
            /\ NoFault /\ UNCHANGED <<storeVars, late>>
  <2> DEFINE x == [bad EXCEPT !.pc = "releasing"]
  <2>1. /\ x \in DriverSet /\ x.pc = "releasing" /\ x.ver = bad.ver /\ x.snap = bad.snap
        /\ x.call = bad.call /\ x.revoked = bad.revoked
    BY Zenon DEF DriverSet, Points
  <2>2. faults' \in 0..MaxFaults
    BY <1>1, <1>16, Zenon DEF TypeOK, NoFault
  <2> HIDE DEF x
  <2> QED
    BY <1>1, <1>14, <1>16, <2>1, <2>2, Zenon DEF Become, x
<1>17. CASE /\ Fault
            /\ late[d] = None
            /\ late' = [late EXCEPT ![d] = [row |-> Saved(d, new), led |-> led]]
            /\ \E p \in {"releasing", "timing_out", "cancelling"} :
                  Become(d, [bad EXCEPT !.pc = p, !.revoked = TRUE])
            /\ UNCHANGED storeVars
  <2>1. PICK p \in {"releasing", "timing_out", "cancelling"} :
           Become(d, [bad EXCEPT !.pc = p, !.revoked = TRUE])
    BY <1>17, Zenon
  <2> DEFINE x == [bad EXCEPT !.pc = p, !.revoked = TRUE]
             t == [row |-> sv, led |-> led]
  <2>2. /\ x \in DriverSet /\ x.pc = p /\ x.ver = bad.ver /\ x.snap = bad.snap
        /\ x.call = bad.call /\ x.revoked = TRUE
    BY Zenon DEF DriverSet, Points, Cleaning
  <2>3. drv' = [drv EXCEPT ![d] = x]
    BY <2>1, Zenon DEF Become
  <2> HIDE DEF x
  <2>4. faults' \in 0..MaxFaults
    BY <1>1, <1>17, BoundsAssumption DEF TypeOK, Fault
  <2>5. t \in LateSet /\ t.row = sv /\ t.led = led
    BY <1>2, Zenon DEF LateSet
  <2>6. late' = [late EXCEPT ![d] = t]
    BY <1>6, <1>17, Zenon
  <2> HIDE DEF t
  <2>7. LateOK(t, row, Journalled, attempts, approvals)
    <3>1. row.revision \in Nat /\ Snap(d).revision \in Nat
      BY <1>1 DEF RowSet
    <3>2. row.status # "absent" /\ sv.revision <= row.revision + 1
      BY <1>1, <1>2, <3>1 DEF Fresh
    <3>3. row.status \in Active /\ sv.revision = row.revision + 1 => Snap(d) = row
      BY <1>1, <1>2, <3>1 DEF Fresh
    <3> QED
      BY <1>2, <1>3, <2>5, <3>2, <3>3, Zenon DEF LateOK, GoodSave
  <2>8. /\ late' \in [Drivers -> LateSet \cup {None}] /\ late'[d] = t
        /\ \A e \in Drivers \ {d} : late'[e] = late[e]
    BY <1>1, <2>5, <2>6, Zenon
  <2> QED
    BY <1>14, <1>17, <2>1, <2>2, <2>3, <2>4, <2>7, <2>8, Zenon
<1> QED
  BY <1>12, <1>13, <1>15, <1>16, <1>17, Zenon DEF SaveWith

(* A save with neither a journal entry nor a reservation *)
LEMMA PlainSave ==
    ASSUME IndInv, NEW d \in Drivers, NEW new \in RowSet, NEW led \in [Calls -> EntrySet],
           NEW next \in After \ {"granted"}, NEW bad \in After \ {"granted"},
           SaveWith(d, new, led, At(d, next), At(d, bad)), UNCHANGED historyVars,
           drv[d].pc \in (Business \cup Cleaning) \ {"granted"},
           Snap(d) = row /\ row.status \in Active =>
              /\ RowOK(new, led, Journalled, attempts, approvals)
              /\ new.steps = row.steps /\ new.calls = row.calls
              /\ new.mode = row.mode /\ new.status \in Active \cup Terminal,
           Knows(next, new), Knows(bad, Snap(d))
    PROVE  IndInv'
<1>1. /\ drv \in [Drivers -> DriverSet] /\ drv[d] \in DriverSet /\ attempts \in Nat
      /\ DriverOK(d, drv[d], row, approvals) /\ CallsOK(Journalled, approvals) /\ TypeOK
  BY DEF IndInv, TypeOK
<1>2. ASSUME NEW p \in After
      PROVE  /\ At(d, p) \in DriverSet /\ At(d, p).pc = p /\ At(d, p).snap = Snap(d)
             /\ At(d, p).ver = drv[d].ver /\ At(d, p).call = drv[d].call
             /\ At(d, p).revoked = drv[d].revoked
  BY Zenon, <1>1 DEF At, Snap, DriverSet, After
<1>3. drv[d].pc \notin {"idle", "creating", "abandoned"}
  BY DEF Business, Cleaning
<1>4. /\ drv[d].ver \in Versions
      /\ drv[d].call # None => drv[d].call.by = d /\ drv[d].revoked
  BY Zenon, <1>1, <1>3 DEF DriverOK
<1>5. drv[d].call \in Journalled \cup {None}
  BY Zenon DEF Journalled
<1>6. Journalled \cup ({drv[d].call} \ {None}) = Journalled
  BY Zenon, <1>5
<1>7. UNCHANGED <<dispatches, approvals, attempts>>
  BY Zenon DEF historyVars
<1> DEFINE ok == At(d, next)
           no == At(d, bad)
<1>8. /\ ok \in DriverSet /\ ok.pc = next /\ ok.ver \in Versions /\ ok.call = drv[d].call
      /\ ok.revoked = drv[d].revoked
      /\ no \in DriverSet /\ no.pc = bad /\ no.ver \in Versions /\ no.call = drv[d].call
      /\ no.revoked = drv[d].revoked /\ no.snap = Snap(d)
  BY Zenon, <1>2, <1>4
<1>9. SaveWith(d, new, led, ok, no)
  BY Zenon
<1>10. row.steps >= row.steps /\ row.calls >= row.calls
  BY DEF IndInv, TypeOK, RowSet
<1> HIDE DEF ok, no
<1> QED
  BY <1>1, <1>3, <1>4, <1>5, <1>6, <1>7, <1>8, <1>9, <1>10, SaveLemma, ZenonT(30)
     DEF GoodSave, GoodDrivers, Reserves

(* stop and finish, from any point where the driver may save *)
LEMMA StopSave ==
    ASSUME IndInv, NEW d \in Drivers, NEW st \in Terminal,
           NEW bad \in {"releasing", "failing"},
           Save(d, Stop(Snap(d), st), "releasing", bad), UNCHANGED historyVars,
           drv[d].pc \in (Business \cup Cleaning) \ {"granted"},
           bad = "failing" => Snap(d).status = "running"
    PROVE  IndInv'
<1>1. /\ Snap(d) \in RowSet /\ ledger \in [Calls -> EntrySet]
      /\ RowOK(row, ledger, Journalled, attempts, approvals)
  BY DEF IndInv, TypeOK, DriverSet, Snap
<1> DEFINE new == Stop(Snap(d), st)
<1>2. /\ new \in RowSet /\ new.status = st /\ new.steps = Snap(d).steps
      /\ new.calls = Snap(d).calls /\ new.mode = Snap(d).mode
  BY <1>1, StopRow, Zenon
<1>3. Snap(d) = row /\ row.status \in Active => RowOK(new, ledger, Journalled, attempts, approvals)
  BY Zenon, <1>1, StopOK
<1>4. Snap(d).steps \in Int /\ Snap(d).calls \in Int
  BY <1>1 DEF RowSet
<1>5. Knows("releasing", new) /\ Knows(bad, Snap(d))
  BY DEF Knows
<1>6. "releasing" \in After \ {"granted"} /\ bad \in After \ {"granted"}
  BY Zenon DEF After, Points, Business
<1>7. SaveWith(d, new, ledger, At(d, "releasing"), At(d, bad))
  BY DEF Save
<1> HIDE DEF new
<1> QED
  BY <1>1, <1>2, <1>3, <1>4, <1>5, <1>6, <1>7, PlainSave, Zenon

LEMMA FinishSave ==
    ASSUME IndInv, NEW d \in Drivers, NEW st \in Terminal,
           Save(d, Finish(Snap(d), st), "releasing", "failing"), UNCHANGED historyVars,
           drv[d].pc \in (Business \cup Cleaning) \ {"granted"}, Snap(d).status = "running"
    PROVE  IndInv'
<1>1. /\ Snap(d) \in RowSet /\ ledger \in [Calls -> EntrySet]
      /\ RowOK(row, ledger, Journalled, attempts, approvals)
  BY DEF IndInv, TypeOK, DriverSet, Snap
<1> DEFINE new == Finish(Snap(d), st)
<1>0. 0 \in 0..MaxToolCalls
  BY BoundsAssumption
<1>2. /\ new \in RowSet /\ new.status = st /\ new.steps = Snap(d).steps
      /\ new.calls = Snap(d).calls /\ new.mode = Snap(d).mode
  BY <1>0, <1>1, Zenon DEF Finish, RowSet
<1>3. Snap(d) = row /\ row.status \in Active => RowOK(new, ledger, Journalled, attempts, approvals)
  BY Zenon, <1>1, FinishOK
<1>4. Snap(d).steps \in Int /\ Snap(d).calls \in Int
  BY SMTT(30), <1>1 DEF RowSet
<1>5. Knows("releasing", new) /\ Knows("failing", Snap(d))
  BY DEF Knows
<1>6. "releasing" \in After \ {"granted"} /\ "failing" \in After \ {"granted"}
  BY DEF After, Points, Business
<1>7. SaveWith(d, new, ledger, At(d, "releasing"), At(d, "failing"))
  BY DEF Save
<1> HIDE DEF new
<1> QED
  BY <1>1, <1>2, <1>3, <1>4, <1>5, <1>6, <1>7, PlainSave, Zenon

-----------------------------------------------------------------------------
(* The two ways an invocation leaves a point without saving *)
LEMMA IdleOK ==
    ASSUME TypeOK, NEW d, NEW r, NEW g
    PROVE  Idle \in DriverSet /\ Idle.call = None /\ DriverOK(d, Idle, r, g)
<1>1. 0 \in 0..MaxToolCalls /\ 0 \in 0..MaxSteps /\ row.mode \in ModeSet
  BY BoundsAssumption DEF TypeOK, RowSet
<1>2. NewRow(row.mode) \in RowSet
  BY Zenon, <1>1 DEF NewRow, RowSet
<1>3. Idle \in DriverSet
  BY <1>2 DEF Idle, DriverSet, Points, Commands
<1> QED
  BY <1>3 DEF Idle, DriverOK, Knows

LEMMA MoveOK ==
    ASSUME IndInv, NEW d \in Drivers, NEW p \in {"releasing", "cancelling", "timing_out"},
           drv[d].pc \notin {"idle", "creating", "abandoned"}
    PROVE  LET x == [drv[d] EXCEPT !.pc = p, !.revoked = TRUE] IN
           /\ x \in DriverSet /\ x.call \in Journalled \cup {None}
           /\ DriverOK(d, x, row, approvals)
<1> DEFINE x == [drv[d] EXCEPT !.pc = p, !.revoked = TRUE]
<1>1. drv[d] \in DriverSet /\ DriverOK(d, drv[d], row, approvals)
  BY DEF IndInv, TypeOK
<1>2. /\ x \in DriverSet /\ x.pc = p /\ x.snap = drv[d].snap /\ x.ver = drv[d].ver
      /\ x.command = drv[d].command /\ x.revoked = TRUE /\ x.call = drv[d].call
  BY <1>1, Zenon DEF DriverSet, Points, Cleaning
<1>3. drv[d].call \in Journalled \cup {None}
  BY DEF Journalled
<1>4. Knows(p, x.snap)
  BY DEF Knows
<1> HIDE DEF x
<1>5. DriverOK(d, x, row, approvals)
  BY Zenon, <1>1, <1>2, <1>4 DEF DriverOK
<1> QED
  BY <1>2, <1>3, <1>5 DEF x

LEMMA GotoOK ==
    ASSUME IndInv, NEW d \in Drivers, NEW p \in {"releasing", "cancelling"},
           drv[d].pc \notin {"idle", "creating", "abandoned", "granted"}
    PROVE  /\ At(d, p) \in DriverSet /\ At(d, p).call \in Journalled \cup {None}
           /\ DriverOK(d, At(d, p), row, approvals)
<1> DEFINE x == At(d, p)
<1>1. drv[d] \in DriverSet /\ DriverOK(d, drv[d], row, approvals)
  BY DEF IndInv, TypeOK
<1>2. /\ x \in DriverSet /\ x.pc = p /\ x.snap = drv[d].snap /\ x.ver = drv[d].ver
      /\ x.command = drv[d].command /\ x.revoked = drv[d].revoked /\ x.call = drv[d].call
  BY <1>1 DEF DriverSet, Points, Cleaning, At
<1>3. drv[d].call \in Journalled \cup {None}
  BY DEF Journalled
<1>4. Knows(p, x.snap)
  BY DEF Knows
<1> HIDE DEF x
<1>5. DriverOK(d, x, row, approvals)
  BY <1>1, <1>2, <1>4 DEF DriverOK
<1> QED
  BY Zenon, <1>2, <1>3, <1>5 DEF x

-----------------------------------------------------------------------------
LEMMA FaultType == ASSUME TypeOK, Fault \/ NoFault PROVE faults' \in 0..MaxFaults
BY BoundsAssumption DEF TypeOK, Fault, NoFault

(* What every business step starts from *)
LEMMA Facts ==
    ASSUME IndInv, NEW d \in Drivers
    PROVE  /\ TypeOK /\ row \in RowSet /\ ledger \in [Calls -> EntrySet]
           /\ drv \in [Drivers -> DriverSet] /\ drv[d] \in DriverSet /\ Snap(d) \in RowSet
           /\ RowOK(row, ledger, Journalled, attempts, approvals)
           /\ CallsOK(Journalled, approvals)
           /\ DriverOK(d, drv[d], row, approvals) /\ Knows(drv[d].pc, Snap(d))
           /\ dispatches \subseteq Journalled /\ drv[d].call \in Journalled \cup {None}
           /\ Journalled \subseteq CallSet
           /\ Snap(d).steps \in 0..MaxSteps /\ Snap(d).calls \in 0..MaxToolCalls
<1>1. /\ TypeOK /\ row \in RowSet /\ ledger \in [Calls -> EntrySet]
      /\ drv \in [Drivers -> DriverSet] /\ drv[d] \in DriverSet /\ Snap(d) \in RowSet
      /\ RowOK(row, ledger, Journalled, attempts, approvals)
      /\ CallsOK(Journalled, approvals)
      /\ DriverOK(d, drv[d], row, approvals) /\ Knows(drv[d].pc, Snap(d))
  BY DEF IndInv, TypeOK, DriverSet, Snap, DriverOK
<1>2. dispatches \subseteq Journalled /\ drv[d].call \in Journalled \cup {None}
  BY DEF Journalled
<1>3. \A e \in Drivers : drv[e].call \in CallSet \cup {None}
  BY Zenon, <1>1 DEF DriverSet
<1>4. Journalled \subseteq CallSet
  BY Zenon, <1>1, <1>3 DEF Journalled, TypeOK
<1>5. Snap(d).steps \in 0..MaxSteps /\ Snap(d).calls \in 0..MaxToolCalls
  BY <1>1 DEF RowSet
<1> QED
  BY Zenon, <1>1, <1>2, <1>4, <1>5

(* The counters are numbers. *)
LEMMA Numbers ==
    ASSUME IndInv, NEW d \in Drivers
    PROVE  attempts \in Nat /\ \A y \in Journalled : y.step \in Int
<1>1. attempts \in Nat /\ Journalled \subseteq CallSet
  BY Zenon, Facts DEF TypeOK
<1>2. \A y \in CallSet : y.step \in Int
  BY DEF CallSet
<1> QED
  BY Zenon, <1>1, <1>2

LEMMA AnswerApprovalOK == ASSUME IndInv, NEW d \in Drivers, AnswerApproval(d) PROVE IndInv'
<1>1. drv[d].pc = "approving" /\ UNCHANGED historyVars /\ drv[d].pc \in Business \ {"granted"}
  BY Zenon DEF AnswerApproval, Business
<1>2. Snap(d).status = "awaiting_approval"
  BY <1>1, Facts DEF Knows
<1>3. CASE drv[d].command = "approve"
  <2> DEFINE s == Snap(d)
             new == [s EXCEPT !.status = "running", !.okAct = s.decision, !.okDef = s.ask, !.ask = None]
             next == IF QueueOnly(d) THEN "releasing" ELSE "advance"
  <2>1. SaveWith(d, new, ledger, At(d, next), At(d, "releasing"))
    BY Zenon, <1>3 DEF AnswerApproval, Save
  <2>2. s \in RowSet
    BY Facts
  <2>3. /\ new \in RowSet /\ new.status = "running" /\ new.steps = s.steps /\ new.calls = s.calls
        /\ new.mode = s.mode /\ new.okAct = s.decision /\ new.okDef = s.ask /\ new.phase = s.phase
        /\ new.pending = s.pending /\ new.decision = s.decision /\ new.inflight = s.inflight
    BY <2>2, Zenon DEF RowSet, Active
  <2>4. [tool |-> s.decision, ver |-> s.ask, step |-> s.steps] \in approvals
    BY <1>1, <1>3, Facts DEF DriverOK, Snap
  <2>5. next \in After \ {"granted"} /\ "releasing" \in After \ {"granted"}
    BY DEF After, Points, Business
  <2>6. Knows(next, new) /\ Knows("releasing", s)
    BY Zenon DEF Knows
  <2>7. ASSUME s = row, row.status \in Active
        PROVE  RowOK(new, ledger, Journalled, attempts, approvals)
    <3>1. RowOK(s, ledger, Journalled, attempts, approvals)
      BY <2>7, Facts
    <3> HIDE DEF new, s
    <3> QED
      BY Zenon, <1>2, <2>3, <2>4, <3>1 DEF RowOK, Active, s
  <2>8. s.steps \in Int /\ s.calls \in Int /\ "running" \in Active
    BY <2>2 DEF RowSet, Active
  <2> HIDE DEF new, next
  <2> QED
    BY <1>1, <2>1, <2>3, <2>5, <2>6, <2>7, <2>8, Facts, PlainSave, Zenon
<1>4. CASE drv[d].command # "approve"
  <2>1. Save(d, Stop(Snap(d), "cancelled"), "releasing", "releasing")
    BY <1>4 DEF AnswerApproval
  <2> QED
    BY <1>1, <2>1, StopSave DEF Terminal
<1> QED
  BY <1>3, <1>4

LEMMA AdvanceOK == ASSUME IndInv, NEW d \in Drivers, Advance(d) PROVE IndInv'
<1>1. /\ drv[d].pc = "advance" /\ faults' \in 0..MaxFaults
      /\ UNCHANGED <<row, ledger, token, leaseLeft, expired, late, dispatches, approvals, attempts>>
  BY Zenon, Facts, FaultType DEF Advance, storeVars, historyVars
<1>2. /\ token \in Drivers \cup {None} /\ leaseLeft \in 0..LeaseTicks
      /\ approvals \subseteq [tool : Tools, ver : Versions, step : 0..MaxSteps]
  BY DEF IndInv, TypeOK
<1>3. CASE row.status = "running"
  <2> DEFINE q == IF row.phase = "tool" /\ row.pending = 0 THEN "dispatch" ELSE row.phase
             x == [drv[d] EXCEPT !.snap = row, !.pc = q]
  <2>1. drv' = [drv EXCEPT ![d] = x]
    BY Zenon, <1>3 DEF Advance, Become
  <2>2. /\ row.phase \in {"decision", "tool", "validation"}
        /\ row.phase = "tool" => row.decision \in Tools
    BY Zenon, <1>3, Facts DEF RowOK, Active, RowSet
  <2>3. q \in Points
    BY <2>2 DEF Points, Business
  <2>4. /\ x \in DriverSet /\ x.pc = q /\ x.snap = row /\ x.ver = drv[d].ver
        /\ x.command = drv[d].command /\ x.call = drv[d].call /\ x.revoked = drv[d].revoked
    BY <2>3, Facts, Zenon DEF DriverSet
  <2>5. Fresh(row, row)
    BY <1>3, Facts DEF Fresh, RowSet
  <2>6. Knows(q, row)
    BY <1>3, <2>2 DEF Knows
  <2>7. q \in {"decision", "tool", "validation", "dispatch"}
    BY <2>2
  <2> HIDE DEF x, q
  <2>8. DriverOK(d, x, row, approvals)
    BY <1>1, <2>4, <2>5, <2>6, <2>7, Facts, ZenonT(30) DEF DriverOK
  <2> QED
    BY <1>1, <1>2, <2>1, <2>4, <2>8, Facts, DriverStep, Zenon
<1>4. CASE row.status # "running"
  <2> DEFINE x == At(d, "releasing")
  <2>1. drv' = [drv EXCEPT ![d] = x]
    BY Zenon, <1>4 DEF Advance, Goto, Become
  <2>2. x \in DriverSet /\ x.call \in Journalled \cup {None} /\ DriverOK(d, x, row, approvals)
    BY <1>1, GotoOK
  <2> HIDE DEF x
  <2> QED
    BY <1>1, <1>2, <2>1, <2>2, Facts, DriverStep, Zenon
<1> QED
  BY <1>3, <1>4

(* A reservation counts the step first, so every journalled call belongs to *)
(* an earlier one and the provider may be asked once more.                  *)
LEMMA ReserveOK == ASSUME IndInv, NEW d \in Drivers, Reserve(d) PROVE IndInv'
<1>1. drv[d].pc = "decision" /\ UNCHANGED <<dispatches, approvals>>
  BY Zenon DEF Reserve, StepLeft
<1>2. Snap(d).status = "running" /\ Snap(d).phase = "decision"
  BY <1>1, Facts DEF Knows
<1>3. CASE Snap(d).steps < MaxSteps
  <2> DEFINE s == Snap(d)
             new == Reserved(s)
             ok == At(d, "thinking")
             no == At(d, "failing")
  <2>1. /\ SaveWith(d, new, ledger, ok, no)
        /\ attempts' = IF drv'[d].pc = "thinking" THEN attempts + 1 ELSE attempts
    BY Zenon, <1>3 DEF Reserve, StepLeft, Save
  <2>2. s \in RowSet /\ s.steps \in Nat /\ s.steps + 1 \in 0..MaxSteps /\ s.calls \in Int
    BY <1>3, Facts, BoundsAssumption DEF RowSet
  <2>3. /\ new \in RowSet /\ new.status = s.status /\ new.steps = s.steps + 1 /\ new.calls = s.calls
        /\ new.mode = s.mode /\ new.okAct = s.okAct /\ new.phase = s.phase
        /\ new.pending = s.pending /\ new.decision = s.decision /\ new.inflight = TRUE
    BY <2>2, ZenonT(30) DEF RowSet, Reserved
  <2>4. /\ ok \in DriverSet /\ ok.pc = "thinking" /\ ok.ver = drv[d].ver /\ ok.call = drv[d].call
        /\ ok.revoked = drv[d].revoked
        /\ no \in DriverSet /\ no.pc = "failing" /\ no.ver = drv[d].ver /\ no.call = drv[d].call
        /\ no.revoked = drv[d].revoked /\ no.snap = s
    BY Facts DEF At, Snap, DriverSet, Points, Business
  <2>5. /\ drv[d].ver \in Versions
        /\ drv[d].call # None => drv[d].call.by = d /\ drv[d].revoked
    BY <1>1, Facts, Zenon DEF DriverOK
  <2>6. Journalled \cup ({ok.call} \ {None}) = Journalled
    BY Zenon, <2>4, Facts
  <2>7. attempts \in Nat /\ attempts' \in Nat /\ attempts' <= attempts + 1
    <3> HIDE DEF new, ok, no, s
    <3>1. attempts \in Nat
      BY Zenon, Numbers
    <3> QED
      BY <2>1, <3>1
  <2>8. Knows("thinking", new) /\ Knows("failing", s)
    BY Zenon, <1>2, <2>3 DEF Knows
  <2>9. "thinking" \in After /\ "failing" \in After
    BY Zenon DEF After, Points, Business
  <2>10. ASSUME s = row, row.status \in Active, NEW n \in Nat, n <= attempts + 1
         PROVE  RowOK(new, ledger, Journalled, n, approvals)
    <3> HIDE DEF new, ok, no, s
    <3>1. RowOK(s, ledger, Journalled, attempts, approvals)
      BY Zenon, <2>10, Facts
    <3>2. \A y \in Journalled : y.step \in Int
      BY Zenon, Numbers
    <3>3. n <= new.steps
      BY SMTT(30), <2>2, <2>3, <2>7, <2>10, <3>1 DEF RowOK
    <3>4. \A y \in Journalled : y.call <= new.calls /\ y.step < new.steps /\ y.step <= new.steps
      BY <2>2, <2>3, <3>1, <3>2 DEF RowOK
    <3>5. s.okAct = None /\ s.pending = 0
      BY Zenon, <1>2, <3>1 DEF RowOK, Active, s
    <3> QED
      BY Zenon, <1>2, <2>3, <3>3, <3>4, <3>5 DEF RowOK, Active, s
  <2>11. attempts' = attempts \/ (drv'[d].pc = ok.pc /\ ok.pc # no.pc
              /\ ok.pc \notin {"releasing", "timing_out", "cancelling"})
    BY Zenon, <2>1, <2>4
  <2>12. drv[d].call \in Journalled \cup {None} /\ ledger \in [Calls -> EntrySet]
         /\ CallsOK(Journalled, approvals)
    BY Zenon, Facts
  <2>13. s = row /\ row.status \in Active =>
              /\ RowOK(new, ledger, Journalled, attempts, approvals)
              /\ RowOK(new, ledger, Journalled, attempts', approvals)
              /\ CallsOK(Journalled, approvals)
              /\ new.steps >= row.steps /\ new.calls >= row.calls
              /\ new.mode = row.mode /\ new.status \in Active \cup Terminal
    BY <2>2, <2>3, <2>7, <2>10, <2>12
  <2> HIDE DEF new, ok, no
  <2>14. s = row /\ row.status \in Active =>
              /\ RowOK(new, ledger, Journalled, attempts, approvals)
              /\ RowOK(new, ledger, Journalled \cup ({ok.call} \ {None}), attempts', approvals)
              /\ CallsOK(Journalled \cup ({ok.call} \ {None}), approvals)
              /\ new.steps >= row.steps /\ new.calls >= row.calls
              /\ new.mode = row.mode /\ new.status \in Active \cup Terminal
    BY <2>6, <2>13, Zenon
  <2>15. /\ drv[d].pc \notin {"idle", "creating", "abandoned"}
         /\ ok.call # None => ok.call.by = d /\ ok.revoked
         /\ ok.pc \in After /\ ok.ver \in Versions
         /\ Knows(ok.pc, new) /\ Knows(no.pc, s)
         /\ no.pc \in After /\ no.ver \in Versions /\ no.snap = Snap(d)
         /\ no.call \in Journalled \cup {None}
         /\ no.call # None => no.call.by = d /\ no.revoked
    BY Zenon, <1>1, <2>4, <2>5, <2>8, <2>9, <2>12
  <2> QED
    BY <1>1, <2>1, <2>3, <2>4, <2>7, <2>11, <2>12, <2>14, <2>15, SaveLemma, ZenonT(30)
     DEF GoodSave, GoodDrivers, Reserves
<1>4. CASE ~(Snap(d).steps < MaxSteps)
  <2>1. Save(d, Finish(Snap(d), "stopped"), "releasing", "failing")
    BY Zenon, <1>4 DEF Reserve, StepLeft
  <2>3. UNCHANGED historyVars
    BY <1>1, <1>4 DEF Reserve, StepLeft, historyVars
  <2> QED
    BY Zenon, <1>1, <1>2, <2>1, <2>3, FinishSave DEF Terminal, Business
<1> QED
  BY Zenon, <1>3, <1>4

(* The answer opens a tool decision that no call has been made for. *)
LEMMA DecideOK == ASSUME IndInv, NEW d \in Drivers, Decide(d) PROVE IndInv'
<1>1. drv[d].pc = "thinking" /\ UNCHANGED historyVars
  BY Zenon DEF Decide
<1>2. Snap(d).status = "running" /\ Snap(d).phase = "decision" /\ Snap(d).inflight
  BY <1>1, Facts DEF Knows
<1>3. ASSUME NEW t \in Tools \cup {None}, NEW ph \in {"tool", "validation"},
             ph = "tool" => t \in Tools,
             Save(d, [Snap(d) EXCEPT !.decision = t, !.inflight = FALSE, !.phase = ph],
                  "advance", "failing")
      PROVE  IndInv'
  <2> DEFINE s == Snap(d)
             new == [s EXCEPT !.decision = t, !.inflight = FALSE, !.phase = ph]
  <2>1. s \in RowSet /\ s.steps \in Int /\ s.calls \in Int
    BY Facts DEF RowSet
  <2>2. /\ new \in RowSet /\ new.status = s.status /\ new.steps = s.steps /\ new.calls = s.calls
        /\ new.mode = s.mode /\ new.okAct = s.okAct /\ new.phase = ph
        /\ new.pending = s.pending /\ new.decision = t /\ new.inflight = FALSE
    <3>1. new \in RowSet
      BY <2>1, Zenon DEF RowSet
    <3> QED
      BY <2>1, <3>1, Zenon DEF RowSet
  <2>3. SaveWith(d, new, ledger, At(d, "advance"), At(d, "failing"))
    BY <1>3 DEF Save
  <2>4. Knows("advance", new) /\ Knows("failing", s)
    BY <1>2 DEF Knows
  <2>5. "advance" \in After \ {"granted"} /\ "failing" \in After \ {"granted"}
    BY DEF After, Points, Business
  <2>6. ASSUME s = row, row.status \in Active
        PROVE  RowOK(new, ledger, Journalled, attempts, approvals)
    <3>1. RowOK(s, ledger, Journalled, attempts, approvals)
      BY Zenon, <2>6, Facts
    <3>2. \A y \in Journalled : y.step \in Int
      BY ZenonT(30), Numbers
    <3>3. \A y \in Journalled : y.step < s.steps /\ y.step # s.steps
      BY SMTT(30), <1>2, <2>1, <3>1, <3>2 DEF RowOK, Active
    <3>4. s.okAct = None /\ s.pending = 0
      BY Zenon, <1>2, <3>1 DEF RowOK, Active
    <3> HIDE DEF new, s
    <3> QED
      BY Zenon, <1>2, <1>3, <2>2, <3>1, <3>3, <3>4 DEF RowOK, Active, s
  <2>7. drv[d].pc \in (Business \cup Cleaning) \ {"granted"} /\ "running" \in Active
    BY Zenon, <1>1 DEF Business, Active
  <2> HIDE DEF new
  <2> QED
    BY <1>1, <1>2, <2>1, <2>2, <2>3, <2>4, <2>5, <2>6, <2>7, Facts, PlainSave, ZenonT(30)
<1>4. ASSUME NEW st \in {"failed", "stopped"}, Save(d, Finish(Snap(d), st), "releasing", "failing")
      PROVE  IndInv'
  BY Zenon, <1>1, <1>2, <1>4, FinishSave DEF Terminal, Business
<1> QED
  BY <1>3, <1>4, Zenon DEF Decide

-----------------------------------------------------------------------------
(* The insert creates a row nothing has happened to yet. *)
LEMMA InsertStep ==
    ASSUME IndInv, NEW d \in Drivers, drv[d].pc \in {"creating", "abandoned"}, Insert(d),
           NEW p \in {"idle", "claiming", "releasing", "cancelling"}, Goto(d, p),
           faults' \in 0..MaxFaults, UNCHANGED <<late, historyVars>>
    PROVE  IndInv'
<1>1. /\ TypeOK /\ row \in RowSet /\ drv \in [Drivers -> DriverSet] /\ drv[d] \in DriverSet
      /\ RowOK(row, ledger, Journalled, attempts, approvals) /\ CallsOK(Journalled, approvals)
      /\ row = NewRow(row.mode) /\ row.status = "absent" /\ row' = Snap(d)
      /\ DriverOK(d, drv[d], row, approvals)
  BY DEF IndInv, TypeOK, Insert
<1> DEFINE r == [NewRow(row.mode) EXCEPT !.status = "running"]
           x == IF p = "idle" THEN Idle ELSE At(d, p)
<1>2. Snap(d) = r /\ drv[d].ver \in Versions
  BY <1>1 DEF DriverOK, Snap
<1>3. /\ r.status = "running" /\ r.mode = row.mode /\ r.revision = 0 /\ r.steps = 0
      /\ r.calls = 0 /\ r.pending = 0 /\ r.phase = "decision" /\ r.okAct = None /\ r.inflight = FALSE
  BY DEF NewRow
<1>4. row.calls = 0 /\ row.steps = 0 /\ row.revision = 0
  BY <1>1 DEF NewRow
<1>5. x \in DriverSet /\ drv' = [drv EXCEPT ![d] = x]
  BY <1>1, IdleOK DEF Goto, Become, At, DriverSet, Points, Cleaning
<1>6. Journalled \subseteq CallSet
  BY <1>1, <1>5, JournalledStep, Zenon
<1>7. Journalled = {}
  <2>1. \A y \in Journalled : y.call \in 1..MaxToolCalls /\ y.call <= 0
    BY Zenon, <1>1, <1>4, <1>6 DEF RowOK, CallSet, Calls
  <2> QED
    BY <2>1, BoundsAssumption
<1>8. x.call = None
  <2>1. drv[d].call = None
    BY <1>7 DEF Journalled
  <2> QED
    BY <1>1, <2>1, IdleOK DEF At, DriverSet
<1>9. UNCHANGED <<dispatches, approvals, attempts>> /\ dispatches = {}
  BY <1>7 DEF historyVars, Journalled
<1>10. Journalled' = {}
  BY <1>1, <1>5, <1>7, <1>8, <1>9, JournalledStep, Zenon
<1>11. r \in RowSet
  BY Zenon, <1>1, <1>2 DEF DriverSet, Snap
<1>12. attempts <= 0
  BY Zenon, <1>1, <1>4 DEF RowOK
<1> HIDE DEF r
<1>13. RowOK(row', ledger', Journalled', attempts', approvals')
  BY Zenon, <1>1, <1>2, <1>3, <1>9, <1>10, <1>12 DEF RowOK
<1>14. CallsOK(Journalled', approvals')
  BY Zenon, <1>10 DEF CallsOK
<1>15. RowStep(row, row')
  BY <1>1, <1>2, <1>3, <1>4 DEF RowStep
<1>16. DriverOK(d, x, row', approvals')
  <2>1. CASE p = "idle"
    BY <1>1, <2>1, IdleOK
  <2>2. CASE p # "idle"
    <3>1. x.pc = p /\ x.snap = r /\ x.ver = drv[d].ver /\ x.command = drv[d].command
      BY ZenonT(30), <1>1, <1>2, <2>2 DEF At, DriverSet, Snap
    <3>2. Fresh(r, row')
      BY <1>1, <1>2, <1>3 DEF Fresh
    <3>3. Knows(p, r)
      BY <2>2 DEF Knows
    <3>4. ~(p = "claiming" /\ drv[d].command = "approve")
      BY Zenon, <1>1 DEF DriverOK
    <3> QED
      BY Zenon, <1>2, <1>8, <2>2, <3>1, <3>2, <3>3, <3>4 DEF DriverOK
  <2> QED
    BY <2>1, <2>2
<1>17. TypeOK'
  <2>1. LeaseTicks \in 0..LeaseTicks
    BY BoundsAssumption
  <2>2. token' \in Drivers \cup {None} /\ leaseLeft' \in 0..LeaseTicks
    BY Zenon, <1>1, <2>1 DEF TypeOK, Insert
  <2>3. UNCHANGED <<ledger, expired>>
    BY Zenon DEF Insert
  <2> QED
    BY <1>1, <1>2, <1>5, <1>9, <1>11, <2>2, <2>3 DEF TypeOK
<1>18. row'.status # "absent"
  BY Zenon, <1>1, <1>2, <1>3
<1> HIDE DEF x
<1> QED
  BY <1>1, <1>5, <1>9, <1>13, <1>14, <1>15, <1>16, <1>17, <1>18, StepLemma, ZenonT(30)

(* Leaving for "idle" with the row and its lease untouched *)
LEMMA LeaveStep ==
    ASSUME IndInv, NEW d \in Drivers, Goto(d, "idle"), UNCHANGED <<storeVars, late, historyVars>>,
           Fault \/ NoFault
    PROVE  IndInv'
<1>1. /\ TypeOK /\ token \in Drivers \cup {None} /\ leaseLeft \in 0..LeaseTicks
      /\ approvals \subseteq [tool : Tools, ver : Versions, step : 0..MaxSteps]
  BY DEF IndInv, TypeOK
<1>2. Idle \in DriverSet /\ Idle.call = None /\ DriverOK(d, Idle, row, approvals)
  BY <1>1, IdleOK
<1>3. drv' = [drv EXCEPT ![d] = Idle]
  BY DEF Goto, Become
<1>4. faults' \in 0..MaxFaults
  BY Zenon, <1>1, FaultType
<1>5. dispatches \subseteq Journalled
  BY Zenon DEF Journalled
<1> QED
  BY <1>1, <1>2, <1>3, <1>4, <1>5, DriverStep, Zenon DEF storeVars, historyVars

LEMMA StartingOK == ASSUME IndInv, NEW d \in Drivers, Starting(d) PROVE IndInv'
<1>1. /\ TypeOK /\ row \in RowSet /\ drv[d] \in DriverSet /\ drv \in [Drivers -> DriverSet]
      /\ token \in Drivers \cup {None} /\ leaseLeft \in 0..LeaseTicks
      /\ approvals \subseteq [tool : Tools, ver : Versions, step : 0..MaxSteps]
      /\ row.status = "absent" => row = NewRow(row.mode)
  BY Zenon DEF IndInv, TypeOK
<1>2. dispatches \subseteq Journalled
  BY DEF Journalled
<1>3. CASE BeginStart(d)
  <2>1. PICK v \in Versions :
           Become(d, Armed(IF row.mode.keyed THEN "start_keyed" ELSE "start",
                           [row EXCEPT !.status = "running"], v, "creating"))
    BY <1>3 DEF BeginStart
  <2> DEFINE c == IF row.mode.keyed THEN "start_keyed" ELSE "start"
             s == [row EXCEPT !.status = "running"]
             x == Armed(c, s, v, "creating")
  <2>2. s \in RowSet /\ s = [NewRow(row.mode) EXCEPT !.status = "running"]
    BY <1>1, <1>3 DEF BeginStart, RowSet, Active
  <2>3. x \in DriverSet
    BY <2>2 DEF Armed, DriverSet, Points, Commands
  <2>4. /\ x.pc = "creating" /\ x.snap = s /\ x.ver = v /\ x.command = c /\ x.call = None
    BY DEF Armed
  <2>5. drv' = [drv EXCEPT ![d] = x]
    BY <2>1 DEF Become
  <2>6. c # "approve"
    OBVIOUS
  <2>7. Knows("creating", s)
    BY DEF Knows
  <2> HIDE DEF x, s, c
  <2>8. DriverOK(d, x, row, approvals)
    BY <2>2, <2>4, <2>6, <2>7 DEF DriverOK, s
  <2>9. UNCHANGED <<row, ledger, expired, token, leaseLeft, late, attempts, dispatches, approvals>>
    BY <1>3 DEF BeginStart, storeVars, historyVars
  <2>10. faults' \in 0..MaxFaults
    BY Zenon, <1>1, <1>3, FaultType DEF BeginStart
  <2> QED
    BY <1>1, <1>2, <2>3, <2>4, <2>5, <2>8, <2>9, <2>10, DriverStep, Zenon
<1>4. CASE Create(d)
  <2>1. faults' \in 0..MaxFaults
    BY Zenon, <1>1, <1>4, FaultType DEF Create
  <2> QED
    BY <1>4, <2>1, InsertStep DEF Create
<1>5. CASE CreateDuplicate(d)
  BY <1>5, LeaveStep DEF CreateDuplicate
<1>6. CASE CreateUnacked(d)
  <2>1. faults' \in 0..MaxFaults
    BY <1>1, <1>6, FaultType DEF CreateUnacked
  <2> QED
    BY <1>6, <2>1, InsertStep DEF CreateUnacked
<1>7. CASE CreateAbandoned(d)
  <2> DEFINE x == At(d, "abandoned")
  <2>1. DriverOK(d, drv[d], row, approvals) /\ drv[d].pc = "creating"
    BY <1>7 DEF IndInv, CreateAbandoned
  <2>2. /\ x \in DriverSet /\ x.pc = "abandoned" /\ x.snap = drv[d].snap /\ x.ver = drv[d].ver
        /\ x.command = drv[d].command /\ x.call = drv[d].call /\ x.revoked = drv[d].revoked
    BY <1>1 DEF At, DriverSet, Points
  <2>3. drv' = [drv EXCEPT ![d] = x]
    BY <1>7 DEF CreateAbandoned, Goto, Become
  <2>4. drv[d].call \in Journalled \cup {None}
    BY DEF Journalled
  <2>5. Knows("abandoned", x.snap)
    BY DEF Knows
  <2> HIDE DEF x
  <2>6. DriverOK(d, x, row, approvals)
    BY <2>1, <2>2, <2>5 DEF DriverOK
  <2>7. UNCHANGED <<row, ledger, expired, token, leaseLeft, late, attempts, dispatches, approvals>>
    BY <1>7 DEF CreateAbandoned, storeVars, historyVars
  <2>8. faults' \in 0..MaxFaults
    BY <1>1, <1>7, FaultType DEF CreateAbandoned
  <2> QED
    BY <1>1, <1>2, <2>2, <2>3, <2>4, <2>6, <2>7, <2>8, DriverStep, ZenonT(30)
<1>8. CASE LateCreate(d)
  <2>1. faults' \in 0..MaxFaults
    BY Zenon, <1>1, <1>8, FaultType DEF LateCreate
  <2>2. CASE Insert(d) /\ Goto(d, IF row.mode.keyed THEN "cancelling" ELSE "idle")
    BY Zenon, <1>8, <2>1, <2>2, InsertStep DEF LateCreate
  <2>3. CASE Goto(d, "idle") /\ UNCHANGED storeVars
    BY <1>8, <2>3, LeaveStep DEF LateCreate
  <2> QED
    BY Zenon, <1>8, <2>2, <2>3 DEF LateCreate
<1> QED
  BY Zenon, <1>3, <1>4, <1>5, <1>6, <1>7, <1>8 DEF Starting

-----------------------------------------------------------------------------
(* A claim: the lease, and for an active-time run one more revision *)
LEMMA AcquiredRow ==
    ASSUME IndInv, NEW d \in Drivers, CommitAcquire(d)
    PROVE  /\ row' \in RowSet /\ RowStep(row, row') /\ row'.status = row.status
           /\ row.status \in Active
           /\ row' = [row EXCEPT !.revision = row'.revision]
           /\ row' = row \/ row'.revision > row.revision
           /\ RowOK(row', ledger, Journalled, attempts, approvals)
<1>1. /\ row \in RowSet /\ row.revision \in Nat
      /\ RowOK(row, ledger, Journalled, attempts, approvals)
  BY DEF IndInv, TypeOK, RowSet
<1>2. row.status \in Active
  BY DEF CommitAcquire, Acquirable
<1>3. CASE row.mode.active
  <2>1. row' = [row EXCEPT !.revision = row.revision + 1]
    BY <1>3 DEF CommitAcquire
  <2>2. /\ row' \in RowSet /\ row'.revision = row.revision + 1 /\ row'.status = row.status
        /\ row'.mode = row.mode
    BY <1>1, <2>1 DEF RowSet
  <2>3. RowOK(row', ledger, Journalled, attempts, approvals)
    BY <1>1, <2>1, RowOKRevision, Zenon
  <2> QED
    BY <1>1, <1>2, <2>1, <2>2, <2>3 DEF RowStep, Active
<1>4. CASE ~row.mode.active
  <2>1. row' = row
    BY <1>4 DEF CommitAcquire
  <2>2. row = [row EXCEPT !.revision = row.revision]
    BY Zenon, <1>1 DEF RowSet
  <2> QED
    BY <1>1, <1>2, <2>1, <2>2 DEF RowStep
<1> QED
  BY Zenon, <1>3, <1>4

LEMMA ClaimStep ==
    ASSUME IndInv, NEW d \in Drivers, CommitClaim(d), NEW x \in DriverSet,
           drv' = [drv EXCEPT ![d] = x], x.call \in Journalled \cup {None},
           DriverOK(d, x, row', approvals),
           faults' \in 0..MaxFaults, UNCHANGED <<late, historyVars>>
    PROVE  IndInv'
<1>1. /\ TypeOK /\ row \in RowSet /\ token \in Drivers \cup {None} /\ leaseLeft \in 0..LeaseTicks
      /\ approvals \subseteq [tool : Tools, ver : Versions, step : 0..MaxSteps]
      /\ CallsOK(Journalled, approvals) /\ LeaseTicks \in 0..LeaseTicks
  BY BoundsAssumption DEF IndInv, TypeOK
<1>2. dispatches \subseteq Journalled /\ UNCHANGED <<dispatches, approvals, attempts>>
  BY Zenon DEF Journalled, historyVars
<1>3. CASE drv[d].command = "start_keyed"
  <2>1. UNCHANGED <<row, ledger, token, expired>> /\ leaseLeft' = LeaseTicks
    BY <1>3 DEF CommitClaim, CommitRenew
  <2> QED
    BY <1>1, <1>2, <2>1, DriverStep, Zenon
<1>4. CASE drv[d].command # "start_keyed"
  <2>1. CommitAcquire(d)
    BY <1>4 DEF CommitClaim
  <2>2. /\ row' \in RowSet /\ RowStep(row, row') /\ row'.status = row.status
        /\ row.status \in Active
        /\ row' = row \/ row'.revision > row.revision
        /\ RowOK(row', ledger, Journalled, attempts, approvals)
    BY <2>1, AcquiredRow
  <2>3. UNCHANGED <<ledger, expired>> /\ token' = d /\ leaseLeft' = LeaseTicks
    BY <2>1 DEF CommitAcquire
  <2>4. Journalled' \subseteq Journalled
    BY <1>1, <1>2, JournalledStep, Zenon
  <2>5. RowOK(row', ledger', Journalled', attempts', approvals')
    BY Zenon, <1>2, <2>2, <2>3, <2>4, RowOKWeaken
  <2>6. CallsOK(Journalled', approvals')
    BY Zenon, <1>1, <1>2, <2>4, CallsOKWeaken
  <2>7. TypeOK'
    BY <1>1, <1>2, <2>2, <2>3 DEF TypeOK
  <2>8. row'.status # "absent"
    BY Zenon, <2>2 DEF Active
  <2> QED
    BY <1>2, <2>2, <2>4, <2>5, <2>6, <2>7, <2>8, StepLemma, Zenon
<1> QED
  BY Zenon, <1>3, <1>4

(* A fresh invocation that has just loaded the row *)
LEMMA ArmedOK ==
    ASSUME TypeOK, NEW d \in Drivers, NEW c \in Commands, NEW v \in Versions, NEW g,
           row.status \in Active,
           c = "approve" => [tool |-> row.decision, ver |-> row.ask, step |-> row.steps] \in g
    PROVE  LET x == Armed(c, row, v, "claiming") IN
           x \in DriverSet /\ x.call = None /\ DriverOK(d, x, row, g)
<1> DEFINE x == Armed(c, row, v, "claiming")
<1>1. row \in RowSet
  BY Zenon DEF TypeOK
<1>2. x \in DriverSet
  BY Zenon, <1>1 DEF Armed, DriverSet, Points
<1>3. x.pc = "claiming" /\ x.snap = row /\ x.ver = v /\ x.command = c /\ x.call = None
  BY Zenon DEF Armed
<1>4. Fresh(row, row) /\ Knows("claiming", row)
  BY <1>1 DEF Fresh, Knows, RowSet, Active
<1> HIDE DEF x
<1>5. DriverOK(d, x, row, g)
  BY <1>3, <1>4 DEF DriverOK
<1> QED
  BY Zenon, <1>2, <1>3, <1>5 DEF x

LEMMA ClaimingOK == ASSUME IndInv, NEW d \in Drivers, Claiming(d) PROVE IndInv'
<1>1. /\ TypeOK /\ row \in RowSet /\ drv[d] \in DriverSet /\ drv \in [Drivers -> DriverSet]
      /\ token \in Drivers \cup {None} /\ leaseLeft \in 0..LeaseTicks
      /\ approvals \subseteq [tool : Tools, ver : Versions, step : 0..MaxSteps]
      /\ DriverOK(d, drv[d], row, approvals)
      /\ RowOK(row, ledger, Journalled, attempts, approvals)
  BY Zenon DEF IndInv, TypeOK
<1>2. dispatches \subseteq Journalled /\ drv[d].call \in Journalled \cup {None}
  BY Zenon DEF Journalled
<1>3. CASE BeginResume(d)
  <2>1. row.status \in Active /\ faults' \in 0..MaxFaults
    BY Zenon, <1>1, <1>3, FaultType, ModesAssumption DEF BeginResume
  <2>2. UNCHANGED <<row, ledger, token, leaseLeft, expired, late, dispatches, attempts>>
    BY Zenon, <1>3 DEF BeginResume, storeVars
  <2>3. PICK v \in Versions :
          IF row.status = "awaiting_approval"
          THEN /\ v = row.ask
               /\ \/ /\ Become(d, Armed("approve", row, v, "claiming"))
                     /\ approvals' = approvals \cup
                          {[tool |-> row.decision, ver |-> v, step |-> row.steps]}
                  \/ Become(d, Armed("reject", row, v, "claiming")) /\ UNCHANGED approvals
          ELSE Become(d, Armed("resume", row, v, "claiming")) /\ UNCHANGED approvals
    BY <1>3 DEF BeginResume
  <2>4. ASSUME NEW c \in {"reject", "resume"}, UNCHANGED approvals,
               Become(d, Armed(c, row, v, "claiming"))
        PROVE  IndInv'
    <3> DEFINE x == Armed(c, row, v, "claiming")
    <3>1. x \in DriverSet /\ x.call = None /\ DriverOK(d, x, row, approvals)
      BY Zenon, <1>1, <2>1, ArmedOK DEF Commands
    <3>2. drv' = [drv EXCEPT ![d] = x]
      BY <2>4 DEF Become
    <3> HIDE DEF x
    <3> QED
      BY <1>1, <1>2, <2>1, <2>2, <2>4, <3>1, <3>2, DriverStep, ZenonT(30)
  <2>5. ASSUME row.status = "awaiting_approval", v = row.ask,
               Become(d, Armed("approve", row, v, "claiming")),
               approvals' = approvals \cup {[tool |-> row.decision, ver |-> v, step |-> row.steps]}
        PROVE  IndInv'
    <3> DEFINE x == Armed("approve", row, v, "claiming")
    <3>1. x \in DriverSet /\ x.call = None /\ DriverOK(d, x, row, approvals')
      BY Zenon, <1>1, <2>1, <2>5, ArmedOK DEF Commands
    <3>2. drv' = [drv EXCEPT ![d] = x]
      BY Zenon, <2>5 DEF Become
    <3>3. row.decision \in Tools /\ row.steps \in 0..MaxSteps
      BY <1>1, <2>1, <2>5 DEF RowOK, RowSet
    <3>4. /\ approvals \subseteq approvals'
          /\ approvals' \subseteq [tool : Tools, ver : Versions, step : 0..MaxSteps]
      <4> DEFINE y == [tool |-> row.decision, ver |-> v, step |-> row.steps]
      <4>1. y \in [tool : Tools, ver : Versions, step : 0..MaxSteps]
        BY <3>3, Zenon
      <4>2. approvals' = approvals \cup {y}
        BY <2>5, Zenon
      <4> HIDE DEF y
      <4> QED
        BY <1>1, <4>1, <4>2, Zenon
    <3> HIDE DEF x
    <3> QED
      BY <1>1, <1>2, <2>1, <2>2, <3>1, <3>2, <3>4, DriverStep, ZenonT(30)
  <2> QED
    BY Zenon, <2>3, <2>4, <2>5
<1>4. CASE BeginBackground(d)
  <2>1. PICK v \in Versions : Become(d, Armed("background", row, v, "claiming"))
    BY <1>4 DEF BeginBackground
  <2> DEFINE x == Armed("background", row, v, "claiming")
  <2>2. row.status \in Active /\ faults' \in 0..MaxFaults
    BY Zenon, <1>1, <1>4, FaultType DEF BeginBackground, Active
  <2>3. x \in DriverSet /\ x.call = None /\ DriverOK(d, x, row, approvals)
    BY Zenon, <1>1, <2>2, ArmedOK DEF Commands
  <2>4. drv' = [drv EXCEPT ![d] = x]
    BY <2>1 DEF Become
  <2>5. UNCHANGED <<row, ledger, token, leaseLeft, expired, late, dispatches, approvals, attempts>>
    BY <1>4 DEF BeginBackground, storeVars, historyVars
  <2> HIDE DEF x
  <2> QED
    BY <1>1, <1>2, <2>2, <2>3, <2>4, <2>5, DriverStep, Zenon
<1>5. CASE Claim(d)
  <2> DEFINE q == IF Snap(d).status = "awaiting_approval" THEN "approving"
                  ELSE IF QueueOnly(d) THEN "releasing" ELSE "advance"
             k == IF drv[d].command = "start_keyed" THEN drv[d].snap.revision ELSE row'.revision
             x == [drv[d] EXCEPT !.pc = q, !.snap.revision = k, !.mine = FALSE]
  <2>1. CommitClaim(d) /\ drv[d].pc = "claiming" /\ faults' \in 0..MaxFaults
    BY <1>1, <1>5, FaultType DEF Claim
  <2>2. drv' = [drv EXCEPT ![d] = x]
    BY Zenon, <1>5 DEF Claim, Become
  <2>3. Snap(d) \in RowSet /\ Snap(d).revision \in Nat
    BY Zenon, <1>1 DEF Snap, DriverSet, RowSet
  <2>4. row' \in RowSet /\ row'.revision \in Nat
    <3>1. CASE drv[d].command = "start_keyed"
      BY <1>1, <2>1, <3>1 DEF CommitClaim, CommitRenew, RowSet
    <3>2. CASE drv[d].command # "start_keyed"
      BY Zenon, <2>1, <3>2, AcquiredRow DEF CommitClaim, RowSet
    <3> QED
      BY Zenon, <3>1, <3>2
  <2>5. k \in Nat /\ q \in {"approving", "releasing", "advance"}
    BY <2>3, <2>4 DEF Snap
  <2>6. /\ x \in DriverSet /\ x.pc = q /\ x.ver = drv[d].ver /\ x.command = drv[d].command
        /\ x.call = drv[d].call /\ x.revoked = drv[d].revoked
        /\ x.snap = [Snap(d) EXCEPT !.revision = k]
    <3> HIDE DEF q, k
    <3>1. q \in Points
      BY <2>5 DEF Points, Business
    <3>2. [Snap(d) EXCEPT !.revision = k] \in RowSet
      BY <2>3, <2>5 DEF RowSet
    <3>3. x = [drv[d] EXCEPT !.pc = q, !.snap = [Snap(d) EXCEPT !.revision = k], !.mine = FALSE]
      BY <1>1 DEF Snap, DriverSet
    <3> HIDE DEF x
    <3> QED
      BY <1>1, <3>1, <3>2, <3>3, Zenon DEF DriverSet
  <2>7. /\ x.snap.status = Snap(d).status /\ x.snap.decision = Snap(d).decision
        /\ x.snap.ask = Snap(d).ask /\ x.snap.steps = Snap(d).steps
    BY <2>3, <2>6 DEF RowSet
  <2>8. Fresh(x.snap, row')
    <3>1. Fresh(Snap(d), row)
      BY <1>1, <2>1 DEF DriverOK, Snap
    <3>2. CASE drv[d].command = "start_keyed"
      <4>1. x.snap = Snap(d)
        BY Zenon, <2>3, <2>6, <3>2 DEF RowSet, Snap
      <4>2. row' = row
        BY <2>1, <3>2 DEF CommitClaim, CommitRenew
      <4> QED
        BY Zenon, <3>1, <4>1, <4>2
    <3>3. CASE drv[d].command # "start_keyed"
      <4>1. CommitAcquire(d)
        BY <2>1, <3>3 DEF CommitClaim
      <4>2. Snap(d) = row
        BY <3>1, <4>1 DEF CommitAcquire, Acquirable, Fresh
      <4>3. x.snap = row' /\ row'.status \in Active
        BY Zenon, <2>6, <3>3, <4>1, <4>2, AcquiredRow
      <4> QED
        BY <2>4, <4>3 DEF Fresh, Active
    <3> QED
      BY <3>2, <3>3
  <2>9. Knows(q, x.snap)
    BY <2>7 DEF Knows
  <2> HIDE DEF x, q, k
  <2>10. DriverOK(d, x, row', approvals)
    <3>1. /\ drv[d].ver \in Versions
          /\ drv[d].command = "approve" =>
                [tool |-> Snap(d).decision, ver |-> Snap(d).ask, step |-> Snap(d).steps] \in approvals
          /\ drv[d].call # None => drv[d].call.by = d /\ drv[d].revoked
      BY <1>1, <2>1 DEF DriverOK, Snap
    <3> QED
      BY Zenon, <2>5, <2>6, <2>7, <2>8, <2>9, <3>1 DEF DriverOK
  <2>11. UNCHANGED <<late, historyVars>>
    BY Zenon, <1>5 DEF Claim
  <2> QED
    BY <1>2, <2>1, <2>2, <2>6, <2>10, <2>11, ClaimStep, Zenon
<1>6. CASE ClaimRefused(d)
  BY Zenon, <1>6, LeaveStep DEF ClaimRefused
<1>7. CASE ClaimUnacked(d)
  <2> DEFINE x == At(d, "cancelling")
  <2>1. drv[d].pc = "claiming" /\ faults' \in 0..MaxFaults /\ UNCHANGED <<late, historyVars>>
    BY Zenon, <1>1, <1>7, FaultType DEF ClaimUnacked
  <2>2. x \in DriverSet /\ x.call \in Journalled \cup {None} /\ DriverOK(d, x, row, approvals)
    BY Zenon, <2>1, GotoOK
  <2>3. drv' = [drv EXCEPT ![d] = x]
    BY <1>7 DEF ClaimUnacked, Goto, Become
  <2> HIDE DEF x
  <2>4. CASE CommitClaim(d)
    <3>1. RowStep(row, row') /\ row' \in RowSet
      <4>1. CASE drv[d].command = "start_keyed"
        BY <1>1, <2>4, <4>1 DEF CommitClaim, CommitRenew, RowStep, RowSet
      <4>2. CASE drv[d].command # "start_keyed"
        BY Zenon, <2>4, <4>2, AcquiredRow DEF CommitClaim
      <4> QED
        BY Zenon, <4>1, <4>2
    <3>2. DriverOK(d, x, row', approvals)
      BY <1>1, <2>2, <3>1, DriverKept
    <3> QED
      BY <2>1, <2>2, <2>3, <2>4, <3>2, ClaimStep, Zenon
  <2>5. CASE UNCHANGED storeVars
    BY <1>1, <1>2, <2>1, <2>2, <2>3, <2>5, DriverStep, Zenon DEF storeVars, historyVars
  <2> QED
    BY Zenon, <1>7, <2>4, <2>5 DEF ClaimUnacked
<1> QED
  BY Zenon, <1>3, <1>4, <1>5, <1>6, <1>7 DEF Claiming

LEMMA WorkingOK == ASSUME IndInv, NEW d \in Drivers, Working(d) PROVE IndInv'
<1>1. CASE StopEarly(d)
  <2>1. Snap(d).status = "running"
    BY Zenon, <1>1, Facts DEF StopEarly, Knows
  <2> QED
    BY Zenon, <1>1, <2>1, StopSave DEF StopEarly, Terminal, Business
<1>2. CASE Validate(d)
  <2>1. Snap(d).status = "running"
    BY Zenon, <1>2, Facts DEF Validate, Knows
  <2> QED
    BY Zenon, <1>2, <2>1, FinishSave DEF Validate, Terminal, Business
<1>3. CASE Fail(d)
  BY Zenon, <1>3, StopSave DEF Fail, Terminal, Business
<1> QED
  BY Zenon, <1>1, <1>2, <1>3, AnswerApprovalOK, AdvanceOK, ReserveOK, DecideOK DEF Working
=============================================================================
