---------------------------- MODULE ProviderRuntime ----------------------------
(***************************************************************************)
(* Admission of calls to a model provider (packages/providers/runtime.py) *)
(* and the life of an admitted call in the native adapters.  A runtime    *)
(* admits at most MaxInFlight calls, queues at most MaxWaiters more, and  *)
(* hands the slot of a finished call directly to the first waiter.  The   *)
(* slot, a ProviderLease, may be released by the call itself, by the      *)
(* deadline timer of its stream, by the cleanup of the stream and by the  *)
(* shutdown of the runtime.                                               *)
(*                                                                         *)
(* Everything runs in one event loop: the code between two awaits is one  *)
(* step.  A waiter whose future has a result still runs only later, and   *)
(* its timeout, its cancellation or the shutdown may come first.          *)
(***************************************************************************)
EXTENDS Integers, FiniteSets

CONSTANTS
    Calls,         \* the logical calls (each acquires one lease at most)
    MaxInFlight,   \* max_in_flight
    MaxWaiters,    \* max_waiters
    RetryBudget    \* retry_budget of a request

ASSUME RuntimeAssumption ==
    /\ IsFiniteSet(Calls)
    /\ MaxInFlight \in Nat \ {0}
    /\ MaxWaiters \in Nat
    /\ RetryBudget \in Nat

VARIABLES
    closed,     \* _closed
    inFlight,   \* _in_flight
    fut,        \* the future a call waits for; the pending ones are _waiters
    ahead,      \* the waiters that were queued when the call joined them
    lease,      \* the ProviderLease of the call
    pc,         \* where the call is
    tries,      \* retries made
    emitted,    \* a token of the answer has reached the consumer
    again,      \* the failed stream may be retried
    late,       \* the total deadline has passed
    stream,     \* the ProviderStreamGuard of the current attempt
    frees,      \* _release_on_close of that guard
    shut,       \* aclose and _shutdown
    snap        \* the guards _shutdown found registered

slots == <<inFlight, fut, lease>>
vars == <<closed, inFlight, fut, ahead, lease, pc, tries, emitted, again,
          late, stream, frees, shut, snap>>

FutState == {"none", "pending", "granted", "closed", "cancelled"}
LeaseState == {"none", "live", "released"}
Pc == {"start", "wait", "held", "sent", "stream", "closing", "backoff", "done"}
StreamState == {"none", "open", "closing", "closed"}

\* The runtime, its waiters, leases and streams hold values of their kinds.
TypeOK ==
    /\ closed \in BOOLEAN
    /\ inFlight \in Int
    /\ fut \in [Calls -> FutState]
    /\ ahead \in [Calls -> SUBSET Calls]
    /\ lease \in [Calls -> LeaseState]
    /\ pc \in [Calls -> Pc]
    /\ tries \in [Calls -> 0..RetryBudget]
    /\ emitted \in [Calls -> BOOLEAN]
    /\ again \in [Calls -> BOOLEAN]
    /\ late \in [Calls -> BOOLEAN]
    /\ stream \in [Calls -> StreamState]
    /\ frees \in [Calls -> BOOLEAN]
    /\ shut \in {"no", "begun", "streams", "done"}
    /\ snap \in SUBSET Calls

Init ==
    /\ closed = FALSE
    /\ inFlight = 0
    /\ fut = [c \in Calls |-> "none"]
    /\ ahead = [c \in Calls |-> {}]
    /\ lease = [c \in Calls |-> "none"]
    /\ pc = [c \in Calls |-> "start"]
    /\ tries = [c \in Calls |-> 0]
    /\ emitted = [c \in Calls |-> FALSE]
    /\ again = [c \in Calls |-> FALSE]
    /\ late = [c \in Calls |-> FALSE]
    /\ stream = [c \in Calls |-> "none"]
    /\ frees = [c \in Calls |-> FALSE]
    /\ shut = "no"
    /\ snap = {}

Waiting == {c \in Calls : fut[c] = "pending"}

Live == {c \in Calls : lease[c] = "live"}

\* The waiter popleft returns.
First(w) == w \in Waiting /\ ahead[w] \cap Waiting = {}

--------------------------------------------------------------------------------
\* ProviderLease.release and ProviderRuntime._release: the slot goes to the
\* first waiter, or back to the pool.  A lease is released once.
Release(c) ==
    \/ /\ lease[c] # "live"
       /\ UNCHANGED slots
    \/ /\ lease[c] = "live"
       /\ closed \/ Waiting = {}
       /\ lease' = [lease EXCEPT ![c] = "released"]
       /\ inFlight' = inFlight - 1
       /\ UNCHANGED fut
    \/ /\ lease[c] = "live"
       /\ ~closed
       /\ \E w \in Waiting :
            /\ First(w)
            /\ lease' = [lease EXCEPT ![c] = "released", ![w] = "live"]
            /\ fut' = [fut EXCEPT ![w] = "granted"]
       /\ UNCHANGED inFlight

Goto(c, l) == pc' = [pc EXCEPT ![c] = l]

\* The finally clause of the adapters.
Finish(c) == Release(c) /\ Goto(c, "done")

--------------------------------------------------------------------------------
\* ProviderRuntime.acquire.

\* The code runs without a wait: refused, admitted, or queued.
Acquire(c) ==
    /\ pc[c] = "start"
    /\ \/ /\ \/ closed \/ late[c]
             \/ inFlight >= MaxInFlight /\ Cardinality(Waiting) >= MaxWaiters
          /\ Goto(c, "done")
          /\ UNCHANGED <<slots, ahead>>
       \/ /\ ~closed /\ ~late[c]
          /\ inFlight < MaxInFlight
          /\ inFlight' = inFlight + 1
          /\ lease' = [lease EXCEPT ![c] = "live"]
          /\ Goto(c, "held")
          /\ UNCHANGED <<fut, ahead>>
       \/ /\ ~closed /\ ~late[c]
          /\ inFlight >= MaxInFlight
          /\ Cardinality(Waiting) < MaxWaiters
          /\ fut' = [fut EXCEPT ![c] = "pending"]
          /\ ahead' = [ahead EXCEPT ![c] = Waiting]
          /\ Goto(c, "wait")
          /\ UNCHANGED <<inFlight, lease>>
    /\ UNCHANGED <<closed, tries, emitted, again, late, stream, frees, shut, snap>>

\* The waiter runs with the lease it was handed.
Admitted(c) ==
    /\ pc[c] = "wait"
    /\ fut[c] = "granted"
    /\ ~closed /\ ~late[c]
    /\ Goto(c, "held")
    /\ UNCHANGED <<closed, slots, ahead, tries, emitted, again, late, stream,
                   frees, shut, snap>>

\* The queue timeout, the deadline, a cancellation or the shutdown ends the
\* wait: _cancel_waiter gives back a slot that was handed over meanwhile.
LeaveQueue(c) ==
    /\ pc[c] = "wait"
    /\ \/ /\ fut[c] = "pending"
          /\ fut' = [fut EXCEPT ![c] = "cancelled"]
          /\ UNCHANGED <<inFlight, lease>>
       \/ /\ fut[c] = "granted"
          /\ Release(c)
       \/ /\ fut[c] = "closed"
          /\ UNCHANGED slots
    /\ Goto(c, "done")
    /\ UNCHANGED <<closed, ahead, tries, emitted, again, late, stream, frees,
                   shut, snap>>

--------------------------------------------------------------------------------
\* An admitted call: _post_with_retries and stream of the adapters.

\* The next attempt is sent while the runtime is open and time is left.
Send(c) ==
    /\ pc[c] = "held"
    /\ IF closed \/ late[c] THEN Finish(c)
                            ELSE Goto(c, "sent") /\ UNCHANGED slots
    /\ UNCHANGED <<closed, ahead, tries, emitted, again, late, stream, frees,
                   shut, snap>>

\* A complete answer ends the call.
PostReturns(c) ==
    /\ pc[c] = "sent"
    /\ Finish(c)
    /\ UNCHANGED <<closed, ahead, tries, emitted, again, late, stream, frees,
                   shut, snap>>

\* A failed attempt is retried after a backoff, or ends the call.
AttemptFails(c) ==
    /\ pc[c] = "sent"
    /\ \/ tries[c] < RetryBudget /\ Goto(c, "backoff") /\ UNCHANGED slots
       \/ Finish(c)
    /\ UNCHANGED <<closed, ahead, tries, emitted, again, late, stream, frees,
                   shut, snap>>

\* The head of a streamed answer: guard_stream, even if the runtime has been
\* closed since the attempt was sent.
Respond(c) ==
    /\ pc[c] = "sent"
    /\ ~late[c]
    /\ stream' = [stream EXCEPT ![c] = "open"]
    /\ frees' = [frees EXCEPT ![c] = FALSE]
    /\ Goto(c, "stream")
    /\ UNCHANGED <<closed, slots, ahead, tries, emitted, again, late, shut, snap>>

\* A token is yielded to the consumer.
Emit(c) ==
    /\ pc[c] = "stream"
    /\ ~late[c]
    /\ emitted' = [emitted EXCEPT ![c] = TRUE]
    /\ UNCHANGED <<closed, slots, ahead, pc, tries, again, late, stream, frees,
                   shut, snap>>

\* A failure is retried only before a token has escaped to the user.
MayRetry(c) == ~emitted[c] /\ tries[c] < RetryBudget

Leave(c, retry) ==
    IF retry THEN Goto(c, "backoff") /\ UNCHANGED slots ELSE Finish(c)

\* The stream is exhausted, fails, or its consumer closes or cancels it:
\* guard.aclose(release=False) starts the cleanup and waits for it, unless
\* the cleanup runs already.
StreamEnds(c) ==
    /\ pc[c] = "stream"
    /\ \E retry \in BOOLEAN :
         /\ retry => MayRetry(c)
         /\ IF stream[c] = "open"
            THEN /\ stream' = [stream EXCEPT ![c] = "closing"]
                 /\ again' = [again EXCEPT ![c] = retry]
                 /\ Goto(c, "closing")
                 /\ UNCHANGED slots
            ELSE /\ Leave(c, retry)
                 /\ UNCHANGED <<stream, again>>
    /\ UNCHANGED <<closed, ahead, tries, emitted, late, frees, shut, snap>>

StreamClosed(c) ==
    /\ pc[c] = "closing"
    /\ stream[c] = "closed"
    /\ Leave(c, again[c])
    /\ UNCHANGED <<closed, ahead, tries, emitted, again, late, stream, frees,
                   shut, snap>>

\* backoff sleeps within the deadline and looks at the runtime again.
Backoff(c) ==
    /\ pc[c] = "backoff"
    /\ \/ /\ closed \/ late[c]
          /\ Finish(c)
          /\ UNCHANGED tries
       \/ /\ ~closed /\ ~late[c]
          /\ tries' = [tries EXCEPT ![c] = @ + 1]
          /\ Goto(c, "held")
          /\ UNCHANGED slots
    /\ UNCHANGED <<closed, ahead, emitted, again, late, stream, frees, shut, snap>>

\* The caller is cancelled at an await.
Cancel(c) ==
    /\ pc[c] \in {"sent", "closing", "backoff"}
    /\ Finish(c)
    /\ UNCHANGED <<closed, ahead, tries, emitted, again, late, stream, frees,
                   shut, snap>>

--------------------------------------------------------------------------------
\* Time, the guard's own tasks, and the shutdown of the runtime.

Deadline(c) ==
    /\ pc[c] # "done" \/ stream[c] = "open"
    /\ ~late[c]
    /\ late' = [late EXCEPT ![c] = TRUE]
    /\ UNCHANGED <<closed, slots, ahead, pc, tries, emitted, again, stream,
                   frees, shut, snap>>

\* ProviderStreamGuard._expire; the timer is cancelled when cleanup starts.
Expire(c) ==
    /\ late[c]
    /\ stream[c] = "open"
    /\ frees' = [frees EXCEPT ![c] = TRUE]
    /\ stream' = [stream EXCEPT ![c] = "closing"]
    /\ Release(c)
    /\ UNCHANGED <<closed, ahead, pc, tries, emitted, again, late, shut, snap>>

\* Seeded fault: every cleanup releases the slot, a retried attempt's too.
CloseFinishedFrees(c) ==
    /\ stream[c] = "closing"
    /\ stream' = [stream EXCEPT ![c] = "closed"]
    /\ Release(c)
    /\ UNCHANGED <<closed, ahead, pc, tries, emitted, again, late, frees, shut,
                   snap>>

\* The transport is closed; _close_finished.
CloseFinished(c) ==
    /\ stream[c] = "closing"
    /\ stream' = [stream EXCEPT ![c] = "closed"]
    /\ IF frees[c] THEN Release(c) ELSE UNCHANGED slots
    /\ UNCHANGED <<closed, ahead, pc, tries, emitted, again, late, frees, shut,
                   snap>>

\* Seeded fault: aclose starts no shutdown task.
AcloseOnly ==
    /\ shut = "no"
    /\ closed' = TRUE
    /\ fut' = [c \in Calls |-> IF fut[c] = "pending" THEN "closed" ELSE fut[c]]
    /\ UNCHANGED <<inFlight, ahead, lease, pc, tries, emitted, again, late,
                   stream, frees, shut, snap>>

\* aclose refuses new calls and wakes every waiter with an exception.
Aclose ==
    /\ shut = "no"
    /\ closed' = TRUE
    /\ fut' = [c \in Calls |-> IF fut[c] = "pending" THEN "closed" ELSE fut[c]]
    /\ shut' = "begun"
    /\ UNCHANGED <<inFlight, ahead, lease, pc, tries, emitted, again, late,
                   stream, frees, snap>>

\* The shutdown task starts: the guards registered now are its business.
Snapshot ==
    /\ shut = "begun"
    /\ snap' = {c \in Calls : stream[c] \in {"open", "closing"}}
    /\ shut' = "streams"
    /\ UNCHANGED <<closed, slots, ahead, pc, tries, emitted, again, late,
                   stream, frees>>

\* ProviderStreamGuard.shutdown; an expired guard has nothing left to do.
ShutdownStream(c) ==
    /\ shut = "streams"
    /\ c \in snap
    /\ ~frees[c]
    /\ frees' = [frees EXCEPT ![c] = TRUE]
    /\ stream' = IF stream[c] = "open" THEN [stream EXCEPT ![c] = "closing"]
                                       ELSE stream
    /\ Release(c)
    /\ UNCHANGED <<closed, ahead, pc, tries, emitted, again, late, shut, snap>>

\* The cleanups of the snapshot have finished.
ShutdownDone ==
    /\ shut = "streams"
    /\ \A c \in snap : frees[c] /\ stream[c] = "closed"
    /\ shut' = "done"
    /\ UNCHANGED <<closed, slots, ahead, pc, tries, emitted, again, late,
                   stream, frees, snap>>

CallStep(c) ==
    \/ Acquire(c) \/ Admitted(c) \/ LeaveQueue(c) \/ Send(c) \/ PostReturns(c)
    \/ AttemptFails(c) \/ Respond(c) \/ Emit(c) \/ StreamEnds(c)
    \/ StreamClosed(c) \/ Backoff(c) \/ Cancel(c)

GuardStep(c) == Expire(c) \/ CloseFinished(c) \/ ShutdownStream(c)

Next ==
    \/ \E c \in Calls : CallStep(c) \/ GuardStep(c) \/ Deadline(c)
    \/ Aclose \/ Snapshot \/ ShutdownDone

Spec == Init /\ [][Next]_vars

\* The event loop runs what is ready, timers fire and transports close.
\* Nothing obliges a consumer to read its stream or to close it, and nothing
\* obliges a call or the shutdown to start.
Fairness ==
    /\ \A c \in Calls :
         /\ WF_vars(Admitted(c) \/ LeaveQueue(c))
         /\ WF_vars(Send(c))
         /\ WF_vars(PostReturns(c) \/ AttemptFails(c) \/ Respond(c))
         /\ WF_vars(StreamClosed(c))
         /\ WF_vars(Backoff(c))
         /\ WF_vars(Deadline(c))
         /\ WF_vars(GuardStep(c))
    /\ WF_vars(Snapshot)
    /\ WF_vars(ShutdownDone)

FairSpec == Spec /\ Fairness

--------------------------------------------------------------------------------
\* Every slot in use belongs to a lease that has not been released, whether
\* a call holds it or it lies in the future of a waiter that has not run yet,
\* and there are never more than max_in_flight: the call, the timer, the
\* cleanup and the shutdown that all may release a lease free one slot.
SlotsAccounted ==
    /\ inFlight = Cardinality(Live)
    /\ inFlight <= MaxInFlight

\* No slot idles while a call waits: _release hands it over, and a waiter
\* that leaves with a slot already handed to it passes it on.
NoIdleSlot == ~closed /\ Waiting # {} => inFlight = MaxInFlight

\* "A logical call owns one slot throughout its retries" (runtime.py): until
\* its deadline or the shutdown it holds the slot while it sends, streams,
\* cleans up and backs off; no guard of an earlier attempt has released it.
SlotHeld ==
    \A c \in Calls :
        pc[c] \in {"held", "sent", "stream", "closing", "backoff"}
            /\ ~late[c] /\ ~closed
        => lease[c] = "live"

\* A call that has ended, however it ended, keeps no slot.
NoLeak == \A c \in Calls : pc[c] = "done" => lease[c] # "live"

\* An answer of which the consumer has seen a token is never requested again.
NoReplay ==
    \A c \in Calls : pc[c] \in {"held", "sent", "backoff"} => ~emitted[c]

\* Slots are given in order of arrival: a call that gets one leaves no call
\* waiting that had queued before it, and no newcomer overtakes the queue.
InOrder ==
    [][\A c, d \in Calls :
         /\ lease[d] = "none" /\ lease'[d] = "live"
         /\ fut[c] = "pending" /\ fut'[c] = "pending"
         => d \in ahead[c]]_vars

\* A slot always comes back, although a consumer may stop reading for good:
\* the deadline timer of the stream frees it.
SlotReturned == \A c \in Calls : lease[c] = "live" ~> lease[c] = "released"

\* A shutdown that has begun ends.
ShutdownEnds == closed ~> shut = "done"

================================================================================
