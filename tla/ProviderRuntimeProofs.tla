------------------------- MODULE ProviderRuntimeProofs -------------------------
(***************************************************************************)
(* The admission control of packages/providers/runtime.py is correct for  *)
(* every number of calls, slots, waiters and retries.                      *)
(*                                                                         *)
(* The inductive invariant says of every call what its place in the code  *)
(* implies about its lease, its future and its stream (CallOK), and of    *)
(* the queue that arrival totally orders it (Ordered).  Nearly every step *)
(* that touches slots does so through Release, so what Release does to    *)
(* the caller, to the one waiter it may wake and to the count is stated   *)
(* once (Handed) and used by every action.                                *)
(***************************************************************************)
EXTENDS ProviderRuntime, FiniteSetTheorems, TLAPS

InHand == {"held", "sent", "stream", "closing", "backoff"}

\* What the place of a call in the code says about it.
CallOK(c) ==
    /\ pc[c] = "start" => lease[c] = "none" /\ fut[c] = "none"
    /\ pc[c] = "wait" => /\ fut[c] \in {"pending", "granted", "closed"}
                         /\ fut[c] = "granted" => lease[c] = "live"
                         /\ fut[c] # "granted" => lease[c] = "none"
    /\ fut[c] = "pending" => pc[c] = "wait" /\ ~closed
    /\ pc[c] \in {"start", "wait"} => stream[c] = "none" /\ ~emitted[c]
    /\ frees[c] => late[c] \/ closed
    /\ pc[c] = "closing" /\ again[c] => ~emitted[c] /\ tries[c] < RetryBudget
    /\ pc[c] = "backoff" => tries[c] < RetryBudget
    /\ pc[c] \in {"held", "sent", "backoff"} => ~emitted[c]
    /\ pc[c] \in InHand /\ ~late[c] /\ ~closed => lease[c] = "live"
    /\ pc[c] = "done" => lease[c] # "live"
    /\ c \in snap => stream[c] # "none"

\* Of two waiters one was queued when the other came.
Ordered ==
    \A c, d \in Waiting : c # d => c \in ahead[d] \/ d \in ahead[c]

IndInv ==
    /\ TypeOK
    /\ SlotsAccounted
    /\ NoIdleSlot
    /\ \A c \in Calls : CallOK(c)
    /\ Ordered
    /\ shut # "no" => closed

--------------------------------------------------------------------------------
\* The two things a step of one call can do to the slots of another.
Same(d) == lease'[d] = lease[d] /\ fut'[d] = fut[d]
Woken(d) ==
    /\ fut[d] = "pending" /\ lease[d] = "none"
    /\ fut'[d] = "granted" /\ lease'[d] = "live"

SlotTypes ==
    /\ inFlight' \in Int
    /\ fut' \in [Calls -> FutState]
    /\ lease' \in [Calls -> LeaseState]

\* A slot is given to d only if every call left waiting came after d.
InTurn ==
    \A c, d \in Calls :
        /\ lease[d] = "none" /\ lease'[d] = "live"
        /\ fut[c] = "pending" /\ fut'[c] = "pending"
        => d \in ahead[c]

\* What a step of c does to the runtime and to the other calls.
Effect(c) ==
    /\ SlotTypes
    /\ SlotsAccounted'
    /\ ~closed /\ Waiting' # {} => inFlight' = MaxInFlight
    /\ \A d \in Calls \ {c} : Same(d) \/ Woken(d)
    /\ Waiting' \subseteq Waiting
    /\ InTurn

\* What Release(c) does.
Handed(c) == Effect(c) /\ lease'[c] # "live" /\ fut'[c] = fut[c]

\* The live leases are finitely many.
LEMMA LiveFinite ==
    IsFiniteSet(Live) /\ Cardinality(Live) \in Nat
  BY RuntimeAssumption, FS_Subset, FS_CardinalityType DEF Live

\* Taking a live lease away lowers the count by one.
LEMMA OneLess ==
    ASSUME NEW S, IsFiniteSet(S), NEW c \in S
    PROVE  /\ IsFiniteSet(S \ {c})
           /\ Cardinality(S \ {c}) = Cardinality(S) - 1
  BY FS_RemoveElement

\* Adding a lease raises it by one.
LEMMA OneMore ==
    ASSUME NEW S, IsFiniteSet(S), NEW c, c \notin S
    PROVE  /\ IsFiniteSet(S \cup {c})
           /\ Cardinality(S \cup {c}) = Cardinality(S) + 1
  BY FS_AddElement

\* A step that leaves the slots alone.
LEMMA Untouched ==
    ASSUME IndInv, NEW c \in Calls, UNCHANGED slots
    PROVE  Effect(c)
  <1>1. Waiting' = Waiting /\ Live' = Live
    BY DEF Waiting, Live, slots
  <1>2. SlotsAccounted' /\ SlotTypes
    BY <1>1 DEF IndInv, TypeOK, SlotsAccounted, SlotTypes, slots
  <1>3. \A d \in Calls \ {c} : Same(d)
    BY DEF Same, slots
  <1>4. InTurn
    BY DEF InTurn, slots
  <1>5. ~closed /\ Waiting' # {} => inFlight' = MaxInFlight
    BY <1>1 DEF IndInv, NoIdleSlot, slots
  <1> QED BY <1>1, <1>2, <1>3, <1>4, <1>5 DEF Effect

\* ProviderLease.release, by whoever calls it: the slot is returned to the
\* pool or given to the first waiter, once.
LEMMA ReleaseHands ==
    ASSUME IndInv, NEW c \in Calls, Release(c)
    PROVE  Handed(c)
  <1> USE DEF IndInv
  <1>0. /\ lease \in [Calls -> LeaseState] /\ fut \in [Calls -> FutState]
        /\ inFlight \in Int
    BY DEF TypeOK
  <1>1. CASE lease[c] # "live" /\ UNCHANGED slots
    BY <1>0, <1>1, Untouched DEF Handed, slots
  <1>2. CASE /\ lease[c] = "live"
             /\ closed \/ Waiting = {}
             /\ lease' = [lease EXCEPT ![c] = "released"]
             /\ inFlight' = inFlight - 1
             /\ UNCHANGED fut
    <2>1. Live' = Live \ {c} /\ c \in Live
      BY <1>0, <1>2 DEF Live, LeaseState
    <2>2. Cardinality(Live') = Cardinality(Live) - 1
      BY <2>1, LiveFinite, OneLess
    <2>3. SlotsAccounted'
      BY <2>2, <1>0, <1>2, RuntimeAssumption DEF SlotsAccounted
    <2>4. SlotTypes /\ lease'[c] # "live" /\ fut'[c] = fut[c]
      BY <1>0, <1>2 DEF SlotTypes, LeaseState
    <2>5. Waiting' = Waiting
      BY <1>2 DEF Waiting
    <2>6. \A d \in Calls \ {c} : Same(d)
      BY <1>0, <1>2 DEF Same
    <2>7. InTurn
      BY <1>0, <1>2 DEF InTurn
    <2> QED BY <1>2, <2>3, <2>4, <2>5, <2>6, <2>7 DEF Handed, Effect
  <1>3. ASSUME lease[c] = "live", ~closed, NEW w \in Waiting, First(w),
               lease' = [lease EXCEPT ![c] = "released", ![w] = "live"],
               fut' = [fut EXCEPT ![w] = "granted"],
               UNCHANGED inFlight
        PROVE  Handed(c)
    <2>1. w \in Calls /\ fut[w] = "pending"
      BY DEF Waiting
    <2>2. lease[w] = "none" /\ w # c
      BY <2>1, <1>3 DEF CallOK
    <2>3. Live' = (Live \ {c}) \cup {w} /\ c \in Live /\ w \notin Live \ {c}
      BY <1>0, <1>3, <2>1, <2>2 DEF Live, LeaseState
    <2>4. Cardinality(Live') = Cardinality(Live)
      <3>1. IsFiniteSet(Live \ {c}) /\ Cardinality(Live \ {c}) = Cardinality(Live) - 1
        BY <2>3, LiveFinite, OneLess
      <3>2. Cardinality((Live \ {c}) \cup {w}) = Cardinality(Live \ {c}) + 1
        BY <3>1, <2>3, OneMore
      <3> QED BY <3>1, <3>2, <2>3, LiveFinite
    <2>5. SlotsAccounted'
      BY <2>4, <1>3 DEF SlotsAccounted
    <2>6. SlotTypes /\ lease'[c] # "live" /\ fut'[c] = fut[c]
      BY <1>0, <1>3, <2>1, <2>2 DEF SlotTypes, LeaseState, FutState
    <2>7. Waiting' = Waiting \ {w}
      BY <1>0, <1>3, <2>1 DEF Waiting, FutState
    <2>8. \A d \in Calls \ {c} : Same(d) \/ Woken(d)
      BY <1>0, <1>3, <2>1, <2>2 DEF Same, Woken
    <2>9. InTurn
      <3> SUFFICES ASSUME NEW x \in Calls, NEW d \in Calls,
                          lease[d] = "none", lease'[d] = "live",
                          fut[x] = "pending", fut'[x] = "pending"
                   PROVE  d \in ahead[x]
        BY DEF InTurn
      <3>1. d = w /\ x # w
        BY <1>0, <1>3, <2>1
      <3>2. x \in Waiting /\ x \notin ahead[w]
        BY <1>3 DEF Waiting, First
      <3> QED BY <3>1, <3>2 DEF Ordered
    <2>10. ~closed /\ Waiting' # {} => inFlight' = MaxInFlight
      BY <1>3, <2>7 DEF NoIdleSlot
    <2> QED BY <2>5, <2>6, <2>7, <2>8, <2>9, <2>10 DEF Handed, Effect
  <1> QED BY <1>1, <1>2, <1>3 DEF Release

--------------------------------------------------------------------------------
\* The rest of the other calls' state stays as it is.
Framed(c) ==
    \A d \in Calls \ {c} :
        /\ pc'[d] = pc[d] /\ tries'[d] = tries[d] /\ emitted'[d] = emitted[d]
        /\ again'[d] = again[d] /\ late'[d] = late[d]
        /\ stream'[d] = stream[d] /\ frees'[d] = frees[d]

\* A call that does not move, and that is at most woken, stays as it should.
LEMMA OthersOK ==
    ASSUME IndInv, NEW c \in Calls, Effect(c), Framed(c), closed' = closed,
           snap' = snap, NEW d \in Calls, d # c
    PROVE  CallOK(d)'
  <1>1. CallOK(d)
    BY DEF IndInv
  <1>2. /\ pc'[d] = pc[d] /\ tries'[d] = tries[d] /\ emitted'[d] = emitted[d]
        /\ again'[d] = again[d] /\ late'[d] = late[d]
        /\ stream'[d] = stream[d] /\ frees'[d] = frees[d]
    BY DEF Framed
  <1>3. CASE Same(d)
    BY <1>1, <1>2, <1>3 DEF CallOK, Same
  <1>4. CASE Woken(d)
    BY <1>1, <1>2, <1>4 DEF CallOK, Woken, InHand
  <1> QED BY <1>3, <1>4 DEF Effect

\* A step of c with these effects preserves the invariant if c itself is in
\* order afterwards.
LEMMA Assemble ==
    ASSUME IndInv, NEW c \in Calls, TypeOK', Effect(c), Framed(c), CallOK(c)',
           ahead' = ahead, closed' = closed, shut' = shut, snap' = snap
    PROVE  IndInv' /\ InTurn
  <1>1. \A d \in Calls : CallOK(d)'
    <2> TAKE d \in Calls
    <2> QED BY OthersOK
  <1>2. Ordered'
    BY DEF IndInv, Ordered, Effect
  <1>3. NoIdleSlot' /\ SlotsAccounted' /\ InTurn
    BY DEF Effect, NoIdleSlot
  <1>4. (shut # "no" => closed)'
    BY DEF IndInv
  <1> QED BY <1>1, <1>2, <1>3, <1>4 DEF IndInv

--------------------------------------------------------------------------------
\* The adapters' finally clause, from wherever the call gives up.
LEMMA FinishOK ==
    ASSUME IndInv, NEW c \in Calls, Finish(c), fut[c] # "pending",
           UNCHANGED <<closed, ahead, tries, emitted, again, late, stream,
                       frees, shut, snap>>
    PROVE  IndInv' /\ InTurn
  <1>0. pc \in [Calls -> Pc] /\ pc' = [pc EXCEPT ![c] = "done"]
    BY DEF IndInv, TypeOK, Finish, Goto
  <1>1. Handed(c)
    BY ReleaseHands DEF Finish
  <1>2. TypeOK'
    BY Zenon, <1>0, <1>1 DEF IndInv, TypeOK, Handed, Effect, SlotTypes, Pc
  <1>3. Framed(c)
    BY <1>0 DEF Framed
  <1>4. CallOK(c)'
    <2>1. CallOK(c) /\ pc'[c] = "done"
      BY <1>0 DEF IndInv
    <2> QED BY <2>1, <1>1 DEF Handed, CallOK, InHand
  <1> QED BY <1>1, <1>2, <1>3, <1>4, Assemble DEF Handed

\* A call moves on and keeps what it has.
LEMMA GotoOK ==
    ASSUME IndInv, NEW c \in Calls, NEW l \in Pc, Goto(c, l), CallOK(c)',
           UNCHANGED <<closed, slots, ahead, tries, emitted, again, late,
                       stream, frees, shut, snap>>
    PROVE  IndInv' /\ InTurn
  <1>0. pc \in [Calls -> Pc] /\ pc' = [pc EXCEPT ![c] = l]
    BY DEF IndInv, TypeOK, Goto
  <1>1. Effect(c)
    BY Untouched
  <1>2. TypeOK'
    BY <1>0 DEF IndInv, TypeOK, slots
  <1>3. Framed(c)
    BY <1>0 DEF Framed
  <1> QED BY <1>1, <1>2, <1>3, Assemble

\* acquire without a wait: refused, admitted or queued.
LEMMA AcquireOK ==
    ASSUME IndInv, NEW c \in Calls, Acquire(c)
    PROVE  IndInv' /\ InTurn
  <1>0. TypeOK /\ CallOK(c) /\ pc[c] = "start" /\ pc \in [Calls -> Pc]
    BY DEF IndInv, TypeOK, Acquire
  <1>a. lease[c] = "none" /\ fut[c] = "none" /\ stream[c] = "none" /\ ~emitted[c]
    BY <1>0 DEF CallOK
  <1>f. UNCHANGED <<closed, tries, emitted, again, late, stream, frees, shut, snap>>
    BY DEF Acquire
  <1>1. CASE Goto(c, "done") /\ UNCHANGED <<slots, ahead>>
    <2>1. CallOK(c)'
      BY <1>0, <1>a, <1>f, <1>1 DEF CallOK, Goto, slots, InHand
    <2> QED BY <1>1, <1>f, <2>1, GotoOK DEF Pc, slots
  <1>2. CASE /\ ~closed /\ ~late[c]
             /\ inFlight < MaxInFlight
             /\ inFlight' = inFlight + 1
             /\ lease' = [lease EXCEPT ![c] = "live"]
             /\ Goto(c, "held")
             /\ UNCHANGED <<fut, ahead>>
    <2>1. inFlight \in Int /\ lease \in [Calls -> LeaseState]
      BY <1>0 DEF TypeOK
    <2>2. Live' = Live \cup {c} /\ c \notin Live
      BY <1>2, <1>a, <2>1 DEF Live
    <2>3. Cardinality(Live') = Cardinality(Live) + 1
      BY <2>2, LiveFinite, OneMore
    <2>4. SlotsAccounted'
      BY <1>2, <2>1, <2>3, RuntimeAssumption DEF IndInv, SlotsAccounted
    <2>5. Waiting = {} /\ Waiting' = {}
      BY <1>2, <2>1, RuntimeAssumption DEF IndInv, NoIdleSlot, Waiting
    <2>6. TypeOK' /\ SlotTypes
      BY <1>0, <1>2, <1>f, <2>1 DEF TypeOK, SlotTypes, Goto, LeaseState, Pc
    <2>7. InTurn
      BY <2>5 DEF InTurn, Waiting
    <2>8. \A d \in Calls \ {c} : Same(d)
      BY <1>2, <2>1 DEF Same
    <2>9. Effect(c)
      BY <2>4, <2>5, <2>6, <2>7, <2>8 DEF Effect
    <2>10. Framed(c)
      BY <1>0, <1>2, <1>f DEF Framed, Goto
    <2>11. CallOK(c)'
      BY <1>0, <1>2, <1>a, <1>f, <2>1 DEF CallOK, Goto, InHand
    <2> QED BY <1>2, <1>f, <2>6, <2>9, <2>10, <2>11, Assemble
  <1>3. CASE /\ ~closed /\ ~late[c]
             /\ inFlight >= MaxInFlight
             /\ fut' = [fut EXCEPT ![c] = "pending"]
             /\ ahead' = [ahead EXCEPT ![c] = Waiting]
             /\ Goto(c, "wait")
             /\ UNCHANGED <<inFlight, lease>>
    <2>1. fut \in [Calls -> FutState] /\ ahead \in [Calls -> SUBSET Calls]
      BY <1>0 DEF TypeOK
    <2>2. Waiting' = Waiting \cup {c} /\ c \notin Waiting
      BY <1>3, <1>a, <2>1 DEF Waiting
    <2>3. SlotsAccounted' /\ inFlight' = MaxInFlight
      <3>1. Live' = Live
        BY <1>3 DEF Live
      <3> QED BY <3>1, <1>0, <1>3, RuntimeAssumption DEF IndInv, SlotsAccounted, TypeOK
    <2>4. TypeOK'
      BY <1>0, <1>3, <1>f, <2>1 DEF TypeOK, Goto, FutState, Pc, Waiting
    <2>5. Ordered'
      <3> SUFFICES ASSUME NEW x \in Waiting', NEW y \in Waiting', x # y
                   PROVE  x \in ahead'[y] \/ y \in ahead'[x]
        BY DEF Ordered
      <3>1. CASE x = c
        BY <3>1, <1>3, <2>1, <2>2 DEF Waiting
      <3>2. CASE y = c
        BY <3>2, <1>3, <2>1, <2>2 DEF Waiting
      <3>3. CASE x # c /\ y # c
        BY <3>3, <1>3, <2>1, <2>2 DEF IndInv, Ordered, Waiting
      <3> QED BY <3>1, <3>2, <3>3
    <2>6. CallOK(c)'
      BY Zenon, <1>0, <1>3, <1>a, <1>f, <2>1 DEF CallOK, Goto, InHand
    <2>7. ASSUME NEW d \in Calls, d # c PROVE CallOK(d)'
      <3>1. CallOK(d)
        BY DEF IndInv
      <3> QED BY <2>7, <3>1, <1>0, <1>3, <1>f, <2>1 DEF CallOK, Goto
    <2>8. InTurn
      BY <1>3 DEF InTurn
    <2>9. NoIdleSlot' /\ (shut # "no" => closed)'
      BY <1>f, <2>3 DEF IndInv, NoIdleSlot
    <2> QED BY <2>3, <2>4, <2>5, <2>6, <2>7, <2>8, <2>9 DEF IndInv
  <1> QED BY <1>1, <1>2, <1>3 DEF Acquire

\* The waiter runs, with a slot or without.
LEMMA WaiterOK ==
    ASSUME IndInv, NEW c \in Calls, Admitted(c) \/ LeaveQueue(c)
    PROVE  IndInv' /\ InTurn
  <1>0. TypeOK /\ CallOK(c) /\ pc[c] = "wait" /\ pc \in [Calls -> Pc]
    BY SMTT(30) DEF IndInv, TypeOK, Admitted, LeaveQueue
  <1>1. CASE Admitted(c)
    <2>1. CallOK(c)'
      BY <1>0, <1>1 DEF Admitted, CallOK, Goto, slots, InHand
    <2> QED BY Zenon, <1>1, <2>1, GotoOK DEF Admitted, Pc
  <1>2. CASE LeaveQueue(c) /\ fut[c] = "pending"
    <2>1. fut' = [fut EXCEPT ![c] = "cancelled"] /\ UNCHANGED <<inFlight, lease>>
      BY <1>2 DEF LeaveQueue
    <2>2. fut \in [Calls -> FutState]
      BY <1>0 DEF TypeOK
    <2>f. /\ Goto(c, "done")
          /\ UNCHANGED <<closed, ahead, tries, emitted, again, late, stream,
                         frees, shut, snap>>
      BY <1>2 DEF LeaveQueue
    <2>3. Waiting' = Waiting \ {c} /\ Live' = Live
      BY <2>1, <2>2 DEF Waiting, Live
    <2>4. TypeOK' /\ SlotTypes
      BY <1>0, <2>1, <2>2, <2>f DEF TypeOK, SlotTypes, Goto, FutState, Pc
    <2>5. SlotsAccounted'
      BY <2>1, <2>3 DEF IndInv, SlotsAccounted
    <2>6. InTurn
      BY <2>1 DEF InTurn
    <2>7. \A d \in Calls \ {c} : Same(d)
      BY <2>1, <2>2 DEF Same
    <2>8. Effect(c)
      BY <2>1, <2>3, <2>4, <2>5, <2>6, <2>7 DEF Effect, IndInv, NoIdleSlot
    <2>9. Framed(c)
      BY Zenon, <1>0, <2>f DEF Framed, Goto
    <2>10. CallOK(c)'
      BY Zenon, <1>0, <1>2, <2>1, <2>2, <2>f DEF CallOK, Goto, InHand
    <2> QED BY <2>4, <2>8, <2>9, <2>10, <2>f, Assemble
  <1>3. CASE LeaveQueue(c) /\ fut[c] = "granted"
    <2>1. Finish(c)
      BY <1>3 DEF LeaveQueue, Finish
    <2> QED BY <1>3, <2>1, FinishOK DEF LeaveQueue
  <1>4. CASE LeaveQueue(c) /\ fut[c] = "closed"
    <2>1. UNCHANGED slots /\ Goto(c, "done")
      BY Zenon, <1>4 DEF LeaveQueue
    <2>2. CallOK(c)'
      BY Zenon, <1>0, <1>4, <2>1 DEF LeaveQueue, CallOK, Goto, slots, InHand
    <2> QED BY <1>4, <2>1, <2>2, GotoOK DEF LeaveQueue, Pc
  <1> QED BY Zenon, <1>1, <1>2, <1>3, <1>4 DEF LeaveQueue

--------------------------------------------------------------------------------
\* The steps of an admitted call that only move it or end it.
LEMMA PostOK ==
    ASSUME IndInv, NEW c \in Calls,
           Send(c) \/ PostReturns(c) \/ AttemptFails(c) \/ Cancel(c)
    PROVE  IndInv' /\ InTurn
  <1>0. CallOK(c) /\ pc \in [Calls -> Pc] /\ fut[c] # "pending"
    BY Zenon DEF IndInv, TypeOK, CallOK, Send, PostReturns, AttemptFails, Cancel
  <1>f. UNCHANGED <<closed, ahead, tries, emitted, again, late, stream, frees,
                    shut, snap>>
    BY DEF Send, PostReturns, AttemptFails, Cancel
  <1>1. CASE Finish(c)
    BY <1>0, <1>f, <1>1, FinishOK
  <1>2. CASE pc[c] = "held" /\ Goto(c, "sent") /\ UNCHANGED slots
    <2>1. CallOK(c)'
      BY Zenon, <1>0, <1>2, <1>f DEF CallOK, Goto, slots, InHand
    <2> QED BY Zenon, <1>2, <1>f, <2>1, GotoOK DEF Pc
  <1>3. CASE /\ pc[c] = "sent" /\ tries[c] < RetryBudget
             /\ Goto(c, "backoff") /\ UNCHANGED slots
    <2>1. CallOK(c)'
      BY <1>0, <1>3, <1>f DEF CallOK, Goto, slots, InHand
    <2> QED BY Zenon, <1>3, <1>f, <2>1, GotoOK DEF Pc
  <1> QED BY Zenon, <1>1, <1>2, <1>3 DEF Send, PostReturns, AttemptFails, Cancel

\* The answer's head arrives; a token is yielded.
LEMMA AnswerOK ==
    ASSUME IndInv, NEW c \in Calls, Respond(c) \/ Emit(c)
    PROVE  IndInv' /\ InTurn
  <1>0. CallOK(c) /\ TypeOK
    BY DEF IndInv
  <1>1. Effect(c) /\ Framed(c) /\ TypeOK' /\ CallOK(c)'
    <2>1. Effect(c)
      BY Untouched DEF Respond, Emit
    <2>2. CASE Respond(c)
      <3>1. Framed(c) /\ TypeOK'
        BY Zenon, <1>0, <2>2 DEF Respond, Framed, TypeOK, Goto, slots, Pc, StreamState
      <3>2. CallOK(c)'
        BY <1>0, <2>2 DEF Respond, CallOK, Goto, slots, InHand, TypeOK
      <3> QED BY Zenon, <2>1, <3>1, <3>2
    <2>3. CASE Emit(c)
      <3>1. Framed(c) /\ TypeOK'
        BY Zenon, <1>0, <2>3 DEF Emit, Framed, TypeOK, slots
      <3>2. CallOK(c)'
        BY Zenon, <1>0, <2>3 DEF Emit, CallOK, slots, InHand, TypeOK
      <3> QED BY <2>1, <3>1, <3>2
    <2> QED BY <2>2, <2>3
  <1>2. ahead' = ahead /\ closed' = closed /\ shut' = shut /\ snap' = snap
    BY DEF Respond, Emit
  <1> QED BY <1>1, <1>2, Assemble

\* The end of a stream: its cleanup starts, or the call leaves at once.
LEMMA StreamEndsOK ==
    ASSUME IndInv, NEW c \in Calls, StreamEnds(c)
    PROVE  IndInv' /\ InTurn
  <1>0. CallOK(c) /\ TypeOK /\ pc[c] = "stream" /\ fut[c] # "pending"
    BY DEF IndInv, StreamEnds, CallOK
  <1>f. UNCHANGED <<closed, ahead, tries, emitted, late, frees, shut, snap>>
    BY DEF StreamEnds
  <1> PICK retry \in BOOLEAN :
         /\ retry => MayRetry(c)
         /\ IF stream[c] = "open"
            THEN /\ stream' = [stream EXCEPT ![c] = "closing"]
                 /\ again' = [again EXCEPT ![c] = retry]
                 /\ Goto(c, "closing")
                 /\ UNCHANGED slots
            ELSE /\ Leave(c, retry)
                 /\ UNCHANGED <<stream, again>>
    BY DEF StreamEnds
  <1>1. CASE stream[c] = "open"
    <2>1. Effect(c)
      BY <1>1, Untouched
    <2>2. Framed(c) /\ TypeOK'
      BY ZenonT(30), <1>0, <1>1, <1>f DEF Framed, TypeOK, Goto, slots, Pc, StreamState
    <2>3. CallOK(c)'
      BY <1>0, <1>1, <1>f DEF CallOK, Goto, slots, InHand, TypeOK, MayRetry
    <2> QED BY <1>f, <2>1, <2>2, <2>3, Assemble
  <1>2. CASE stream[c] # "open" /\ retry
    <2>1. Goto(c, "backoff") /\ UNCHANGED <<slots, stream, again>>
      BY Zenon, <1>2 DEF Leave
    <2>2. CallOK(c)'
      BY SMTT(30), <1>0, <1>2, <1>f, <2>1 DEF CallOK, Goto, slots, InHand, TypeOK, MayRetry
    <2> QED BY <1>f, <2>1, <2>2, GotoOK DEF Pc
  <1>3. CASE stream[c] # "open" /\ ~retry
    BY Zenon, <1>0, <1>3, <1>f, FinishOK DEF Leave
  <1> QED BY Zenon, <1>1, <1>2, <1>3

\* The cleanup has ended, the call goes on; the backoff is over.
LEMMA RetryOK ==
    ASSUME IndInv, NEW c \in Calls, StreamClosed(c) \/ Backoff(c)
    PROVE  IndInv' /\ InTurn
  <1>0. CallOK(c) /\ TypeOK /\ fut[c] # "pending"
    BY Zenon DEF IndInv, StreamClosed, Backoff, CallOK
  <1>1. CASE StreamClosed(c) /\ again[c]
    <2>1. CallOK(c)'
      BY SMTT(30), <1>0, <1>1 DEF StreamClosed, Leave, CallOK, Goto, slots, InHand, TypeOK
    <2> QED BY Zenon, <1>1, <2>1, GotoOK DEF StreamClosed, Leave, Pc
  <1>2. CASE StreamClosed(c) /\ ~again[c]
    BY Zenon, <1>0, <1>2, FinishOK DEF StreamClosed, Leave
  <1>3. CASE Backoff(c) /\ Finish(c) /\ UNCHANGED tries
    BY Zenon, <1>0, <1>3, FinishOK DEF Backoff
  <1>4. CASE /\ Backoff(c) /\ ~closed /\ ~late[c]
             /\ tries' = [tries EXCEPT ![c] = @ + 1]
             /\ Goto(c, "held") /\ UNCHANGED slots
    <2>0. /\ pc[c] = "backoff"
          /\ UNCHANGED <<closed, ahead, emitted, again, late, stream, frees,
                         shut, snap>>
      BY <1>4 DEF Backoff
    <2>1. Effect(c)
      BY Zenon, <1>4, Untouched
    <2>2. tries[c] < RetryBudget /\ tries[c] \in 0..RetryBudget
      BY <1>0, <2>0 DEF CallOK, TypeOK
    <2>3. tries' \in [Calls -> 0..RetryBudget]
      BY <1>0, <1>4, <2>2, RuntimeAssumption DEF TypeOK
    <2>4. Framed(c) /\ TypeOK'
      BY Zenon, <1>0, <1>4, <2>0, <2>3 DEF Framed, TypeOK, Goto, slots, Pc
    <2>5. CallOK(c)'
      BY Zenon, <1>0, <1>4, <2>0 DEF CallOK, Goto, slots, InHand, TypeOK
    <2> QED BY <2>0, <2>1, <2>4, <2>5, Assemble
  <1> QED BY Zenon, <1>1, <1>2, <1>3, <1>4 DEF StreamClosed, Backoff

\* Time passes for a call.
LEMMA DeadlineOK ==
    ASSUME IndInv, NEW c \in Calls, Deadline(c)
    PROVE  IndInv' /\ InTurn
  <1>0. CallOK(c) /\ TypeOK
    BY DEF IndInv
  <1>1. Effect(c)
    BY Untouched DEF Deadline
  <1>2. Framed(c) /\ TypeOK'
    BY Zenon, <1>0 DEF Deadline, Framed, TypeOK, slots
  <1>3. CallOK(c)'
    BY <1>0 DEF Deadline, CallOK, slots, InHand, TypeOK
  <1> QED BY <1>1, <1>2, <1>3, Assemble DEF Deadline

\* The timer, the cleanup and the shutdown of a stream: they release the
\* slot of a call only when it is late or the runtime is closed.
LEMMA GuardOK ==
    ASSUME IndInv, NEW c \in Calls, GuardStep(c)
    PROVE  IndInv' /\ InTurn
  <1>0. CallOK(c) /\ TypeOK /\ (shut # "no" => closed)
    BY DEF IndInv
  <1>f. UNCHANGED <<closed, ahead, pc, tries, emitted, again, late, shut, snap>>
    BY DEF GuardStep, Expire, CloseFinished, ShutdownStream
  <1>g. /\ stream \in [Calls -> StreamState] /\ frees \in [Calls -> BOOLEAN]
        /\ \/ stream' = stream
           \/ \E x \in StreamState : stream' = [stream EXCEPT ![c] = x]
        /\ frees' = frees \/ frees' = [frees EXCEPT ![c] = TRUE]
    BY Zenon, <1>0 DEF TypeOK, GuardStep, Expire, CloseFinished, ShutdownStream, StreamState
  <1>1. Framed(c)
    BY <1>f, <1>g DEF Framed
  <1>2. CASE CloseFinished(c) /\ ~frees[c]
    <2>1. UNCHANGED slots /\ frees' = frees
      BY Zenon, <1>2 DEF CloseFinished
    <2>2. TypeOK' /\ Effect(c)
      BY <1>0, <1>f, <1>g, <2>1, Untouched DEF TypeOK, slots
    <2>3. CallOK(c)'
      BY <1>0, <1>2, <1>f, <2>1 DEF CallOK, CloseFinished, slots, InHand, TypeOK
    <2> QED BY Zenon, <1>1, <1>f, <2>2, <2>3, Assemble
  <1>3. CASE Expire(c) \/ (CloseFinished(c) /\ frees[c]) \/ ShutdownStream(c)
    <2>1. Handed(c)
      BY <1>3, ReleaseHands DEF Expire, CloseFinished, ShutdownStream
    <2>2. TypeOK' /\ Effect(c)
      BY ZenonT(30), <1>0, <1>f, <1>g, <2>1 DEF TypeOK, Handed, Effect, SlotTypes
    <2>3. /\ pc[c] \notin {"start", "wait"} /\ fut[c] # "pending"
          /\ late[c] \/ closed
      <3>1. CASE Expire(c)
        BY <1>0, <3>1 DEF Expire, CallOK
      <3>2. CASE CloseFinished(c) /\ frees[c]
        BY <1>0, <3>2 DEF CloseFinished, CallOK
      <3>3. CASE ShutdownStream(c)
        BY Zenon, <1>0, <3>3 DEF ShutdownStream, CallOK
      <3> QED BY <1>3, <3>1, <3>2, <3>3
    <2>4. stream'[c] # "none"
      BY Zenon, <1>3, <1>0 DEF Expire, CloseFinished, ShutdownStream, CallOK, TypeOK
    <2>5. CallOK(c)'
      BY <1>0, <1>f, <2>1, <2>3, <2>4 DEF CallOK, Handed, InHand
    <2> QED BY <1>1, <1>f, <2>2, <2>5, Assemble
  <1> QED BY <1>2, <1>3 DEF GuardStep

\* aclose and the shutdown task.
LEMMA ShutdownOK ==
    ASSUME IndInv, Aclose \/ Snapshot \/ ShutdownDone
    PROVE  IndInv' /\ InTurn
  <1>0. TypeOK /\ (\A c \in Calls : CallOK(c)) /\ lease' = lease /\ inFlight' = inFlight
    BY DEF IndInv, Aclose, Snapshot, ShutdownDone, slots
  <1>1. SlotsAccounted' /\ InTurn
    <2>1. Live' = Live
      BY <1>0 DEF Live
    <2> QED BY <1>0, <2>1 DEF IndInv, SlotsAccounted, InTurn
  <1>2. CASE Aclose
    <2>1. TypeOK'
      BY <1>0, <1>2 DEF Aclose, TypeOK, FutState
    <2>2. Waiting' = {}
      BY <1>2 DEF Aclose, Waiting
    <2>3. NoIdleSlot' /\ Ordered' /\ (shut # "no" => closed)'
      BY Zenon, <1>2, <2>2 DEF NoIdleSlot, Ordered, Aclose
    <2>4. ASSUME NEW c \in Calls PROVE CallOK(c)'
      <3>1. CallOK(c) /\ fut'[c] = IF fut[c] = "pending" THEN "closed" ELSE fut[c]
        BY <1>0, <1>2 DEF Aclose
      <3> QED BY Zenon, <1>0, <1>2, <3>1 DEF Aclose, CallOK, InHand
    <2> QED BY Zenon, <1>1, <2>1, <2>3, <2>4 DEF IndInv
  <1>3. CASE Snapshot \/ ShutdownDone
    <2>1. TypeOK' /\ Waiting' = Waiting
      BY SMTT(30), <1>0, <1>3 DEF Snapshot, ShutdownDone, TypeOK, Waiting, slots
    <2>2. NoIdleSlot' /\ Ordered' /\ (shut # "no" => closed)'
      BY Zenon, <1>0, <1>3, <2>1 DEF NoIdleSlot, Ordered, Snapshot, ShutdownDone, IndInv
    <2>3. ASSUME NEW c \in Calls PROVE CallOK(c)'
      <3>1. CallOK(c)
        BY <1>0
      <3> QED BY <1>3, <3>1 DEF Snapshot, ShutdownDone, CallOK, InHand, slots
    <2> QED BY Zenon, <1>1, <2>1, <2>2, <2>3 DEF IndInv
  <1> QED BY Zenon, <1>2, <1>3

--------------------------------------------------------------------------------
\* Before the first call nothing is in use.
LEMMA InitOK == Init => IndInv
  <1> SUFFICES ASSUME Init PROVE IndInv
    OBVIOUS
  <1>1. TypeOK
    <2>1. tries \in [Calls -> 0..RetryBudget] /\ inFlight \in Int
      BY RuntimeAssumption DEF Init
    <2>2. /\ closed \in BOOLEAN /\ emitted \in [Calls -> BOOLEAN]
          /\ again \in [Calls -> BOOLEAN] /\ late \in [Calls -> BOOLEAN]
          /\ frees \in [Calls -> BOOLEAN]
      BY Zenon DEF Init
    <2>3. /\ fut \in [Calls -> FutState] /\ ahead \in [Calls -> SUBSET Calls]
          /\ lease \in [Calls -> LeaseState] /\ pc \in [Calls -> Pc]
          /\ stream \in [Calls -> StreamState]
      BY DEF Init, FutState, LeaseState, Pc, StreamState
    <2> QED BY <2>1, <2>2, <2>3 DEF Init, TypeOK
  <1>2. Live = {} /\ Waiting = {}
    BY DEF Init, Live, Waiting
  <1>3. SlotsAccounted /\ NoIdleSlot /\ Ordered
    BY <1>2, RuntimeAssumption, FS_EmptySet DEF Init, SlotsAccounted, NoIdleSlot, Ordered
  <1>4. \A c \in Calls : CallOK(c)
    BY DEF Init, CallOK, InHand
  <1> QED BY <1>1, <1>3, <1>4 DEF Init, IndInv

\* Every step keeps the invariant and the order of arrival.
LEMMA StepOK == IndInv /\ [Next]_vars => IndInv' /\ InTurn
  <1> SUFFICES ASSUME IndInv, [Next]_vars PROVE IndInv' /\ InTurn
    OBVIOUS
  <1>1. CASE UNCHANGED vars
    <2>1. TypeOK' /\ Live' = Live /\ Waiting' = Waiting
      BY <1>1 DEF IndInv, TypeOK, vars, Live, Waiting
    <2>2. SlotsAccounted' /\ NoIdleSlot' /\ Ordered' /\ (shut # "no" => closed)'
      BY Zenon, <1>1, <2>1 DEF IndInv, vars, SlotsAccounted, NoIdleSlot, Ordered
    <2>3. \A c \in Calls : CallOK(c)'
      BY Zenon, <1>1 DEF IndInv, vars, CallOK
    <2>4. InTurn
      BY Zenon, <1>1 DEF InTurn, vars
    <2> QED BY Zenon, <2>1, <2>2, <2>3, <2>4 DEF IndInv
  <1>2. ASSUME NEW c \in Calls, CallStep(c) \/ GuardStep(c) \/ Deadline(c)
        PROVE  IndInv' /\ InTurn
    BY <1>2, AcquireOK, WaiterOK, PostOK, AnswerOK, StreamEndsOK, RetryOK,
       DeadlineOK, GuardOK DEF CallStep
  <1>3. CASE Aclose \/ Snapshot \/ ShutdownDone
    BY <1>3, ShutdownOK
  <1> QED BY <1>1, <1>2, <1>3 DEF Next

\* The inductive invariant holds in every reachable state of the admission
\* control of ProviderRuntime, for any number of calls, slots and waiters.
THEOREM Invariance == Spec => []IndInv
  BY InitOK, StepOK, PTL DEF Spec

\* acquire, _release, the stream guards and aclose keep the state well typed;
\* no call retries more often than its retry budget.
THEOREM TypeCorrect == Spec => []TypeOK
  <1>1. IndInv => TypeOK
    BY DEF IndInv
  <1> QED BY <1>1, Invariance, PTL

\* _in_flight counts exactly the leases that are not released, at most
\* max_in_flight of them, and none is free while a call waits.
THEOREM Accounting == Spec => [](SlotsAccounted /\ NoIdleSlot)
  <1>1. IndInv => SlotsAccounted /\ NoIdleSlot
    BY DEF IndInv
  <1> QED BY <1>1, Invariance, PTL

\* A logical call owns its slot through its retries, gives it back when it
\* ends, and does not ask again for an answer the consumer has begun to see.
THEOREM Ownership == Spec => [](SlotHeld /\ NoLeak /\ NoReplay)
  <1>1. IndInv => SlotHeld /\ NoLeak /\ NoReplay
    BY DEF IndInv, CallOK, InHand, SlotHeld, NoLeak, NoReplay
  <1> QED BY <1>1, Invariance, PTL

\* Slots are handed over in order of arrival (_waiters is a queue, and a new
\* call is admitted at once only when nobody waits).
THEOREM Arrival == Spec => InOrder
  <1>1. IndInv /\ [Next]_vars =>
          [\A c, d \in Calls :
             /\ lease[d] = "none" /\ lease'[d] = "live"
             /\ fut[c] = "pending" /\ fut'[c] = "pending"
             => d \in ahead[c]]_vars
    BY StepOK DEF InTurn
  <1> QED BY <1>1, Invariance, PTL DEF Spec, InOrder

================================================================================
