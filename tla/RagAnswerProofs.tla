--------------------------- MODULE RagAnswerProofs ---------------------------
(***************************************************************************)
(* What is proved of the answer path and of the money it spends, for every *)
(* set of requests, price, limit and number of months.                     *)
(*                                                                         *)
(* The account (CostAccounting) is shown to implement the ledger           *)
(* (CostLedger); the answer path moves the account only by its own steps,  *)
(* so it keeps the ledger too.  Three invariants then follow the requests: *)
(* of the holds, of the chat session, and of the events and audit rows.    *)
(***************************************************************************)
EXTENDS RagAnswer, TLAPS

(* The answer path.  One step is a step of one request.                     *)
Step(r) == Advance(r) \/ Cancel(r) \/ Close(r)

Places == Ends \cup {"start", "opened", "asked", "retrieve", "ready", "cited",
            "calling", "resettle", "answered", "extracted", "query_failed", "query_error_sent",
            "query_raised", "query_done", "replying", "replied", "saved", "failing",
            "error_sent", "closing"}

ReqTypes ==
  /\ kind \in [Requests -> Kinds]
  /\ pc \in [Requests -> Places]
  /\ sent \in [Requests -> Seq(Events)]
  /\ audits \in [Requests -> SUBSET {"success", "failure"}]
  /\ prepared \in [Requests -> BOOLEAN]
  /\ verdict \in [Requests -> {"none", "success", "error"}]
  /\ ledgerErr \in [Requests -> BOOLEAN]

(* What a step of r leaves alone in every other request.                    *)
Others(r) ==
  /\ kind' = kind
  /\ \A q \in Requests \ {r} : /\ pc'[q] = pc[q] /\ sent'[q] = sent[q] /\ audits'[q] = audits[q]
                               /\ ledgerErr'[q] = ledgerErr[q]

-----------------------------------------------------------------------------
(* What a request may leave of its charge.                                  *)
(* An unsettled charge has no amount yet: what makes each hold resolvable   *)
(* exactly once.                                                            *)
CostInv == /\ CostTypeOK
           /\ \A c \in Calls : charge[c].status \in {"none", "reserved"} => charge[c].amount = Unknown

(* A hold nobody will settle is one the ledger lost.                        *)
HoldInv == \A r \in Requests : charge[r].status = "reserved" => pc[r] = "calling" \/ ledgerErr[r]

OnlyCharge(r) == \A q \in Calls \ {r} : charge'[q] = charge[q]

\* Reserving and settling touch one charge, and a settled one is not reserved.
LEMMA ChargeOf ==
  ASSUME CostInv, NEW r \in Calls
  PROVE  /\ \A f \in Forecasts : Reserve(r, f) => OnlyCharge(r)
         /\ \A t \in Settled : Finish(r, t) \/ FinishUnknown(r, t) =>
                                 OnlyCharge(r) /\ charge'[r].status # "reserved"
         /\ UNCHANGED costVars => OnlyCharge(r) /\ charge'[r] = charge[r]
<1>1. ASSUME NEW f \in Forecasts, Reserve(r, f) PROVE OnlyCharge(r)
  BY <1>1 DEF Reserve, OnlyCharge, CostInv, CostTypeOK
<1>2. ASSUME NEW t \in Settled, NEW a, Settle(r, t, a)
      PROVE  OnlyCharge(r) /\ charge'[r].status # "reserved"
  BY <1>2 DEF Settle, OnlyCharge, CostInv, CostTypeOK, Settled
<1>3. UNCHANGED costVars => OnlyCharge(r) /\ charge'[r] = charge[r]
  BY DEF costVars, OnlyCharge
<1>4. ASSUME NEW t \in Settled, Finish(r, t) PROVE OnlyCharge(r) /\ charge'[r].status # "reserved"
  BY <1>4, <1>2 DEF Finish
<1>5. ASSUME NEW t \in Settled, FinishUnknown(r, t)
      PROVE  OnlyCharge(r) /\ charge'[r].status # "reserved"
  BY <1>5, <1>2, <1>3 DEF FinishUnknown, SettleAgain, Claimable
<1> QED BY <1>1, <1>3, <1>4, <1>5

\* Each step of a request keeps the invariant of the holds.
LEMMA HoldStep ==
  ASSUME CostInv, ReqTypes, HoldInv, NEW r \in Requests, Step(r), Others(r)
  PROVE  HoldInv'
<1> DEFINE Fine == OnlyCharge(r) /\ (charge'[r].status = "reserved" => pc'[r] = "calling" \/ ledgerErr'[r])
<1>0. r \in Calls /\ Others(r)
  BY RequestsAssumption
<1> SUFFICES Fine
  BY <1>0, RequestsAssumption DEF HoldInv, OnlyCharge, Others
<1>1. ASSUME UNCHANGED costVars, ledgerErr' = ledgerErr, pc[r] # "calling" PROVE Fine
  BY Zenon, <1>0, <1>1, ChargeOf DEF HoldInv
<1>2. CASE BeginCharge(r)
  <2>1. OnlyCharge(r)
    BY <1>0, <1>2, ChargeOf DEF BeginCharge
  <2>2. pc'[r] = "calling"
    BY SMTT(30), <1>2 DEF BeginCharge, Goto, ReqTypes
  <2> QED BY SMTT(30), <2>1, <2>2
<1>3. CASE BeginFails(r)
  <2>1. CASE UNCHANGED costVars /\ ledgerErr' = ledgerErr
    BY SMTT(30), <1>1, <1>3, <2>1 DEF BeginFails
  <2>2. CASE ledgerErr' = [ledgerErr EXCEPT ![r] = TRUE] /\ \E f \in Forecasts : Reserve(r, f)
    BY SMTT(30), <1>0, <2>2, ChargeOf DEF ReqTypes
  <2> QED BY Zenon, <1>3, <2>1, <2>2 DEF BeginFails
<1>4. CASE ProviderAnswers(r)
  BY <1>0, <1>4, ChargeOf DEF ProviderAnswers, Settled
<1>5. CASE ProviderFails(r)
  BY SMTT(30), <1>0, <1>5, ChargeOf DEF ProviderFails, Settled
<1>6. CASE SettlementFails(r)
  <2>1. ledgerErr'[r]
    BY SMTT(30), <1>6 DEF SettlementFails, ReqTypes
  <2> QED BY <1>0, <1>6, <2>1, ChargeOf DEF SettlementFails, Settled
<1>7. CASE Resettle(r)
  <2>1. CASE FinishUnknown(r, "failed")
    BY <1>0, <2>1, ChargeOf DEF Settled
  <2>2. CASE UNCHANGED costVars
    BY <1>1, <1>7, <2>2 DEF Resettle, Same
  <2> QED BY <1>7, <2>1, <2>2 DEF Resettle
<1>8. ASSUME CallAbandoned(r) PROVE Fine
  <2>1. CASE FinishUnknown(r, "incomplete") \/ FinishUnknown(r, "failed")
    BY <1>0, <2>1, ChargeOf DEF Settled
  <2>2. CASE UNCHANGED costVars /\ ledgerErr' = [ledgerErr EXCEPT ![r] = TRUE]
    BY <1>0, <2>2, ChargeOf DEF ReqTypes
  <2> QED BY <1>8, <2>1, <2>2 DEF CallAbandoned
<1>9. CASE Cancel(r)
  <2>1. CASE pc[r] = "cited"
    <3>1. CASE UNCHANGED costVars /\ ledgerErr' = ledgerErr
      BY <1>1, <2>1, <3>1
    <3>2. CASE ledgerErr' = [ledgerErr EXCEPT ![r] = TRUE] /\ \E f \in Forecasts : Reserve(r, f)
      BY <1>0, <3>2, ChargeOf DEF ReqTypes
    <3> QED BY <1>9, <2>1, <3>1, <3>2 DEF Cancel, ReserveCancelled
  <2>2. CASE pc[r] \in {"calling", "resettle"}
    BY <1>8, <1>9, <2>2 DEF Cancel
  <2>3. CASE pc[r] \notin {"cited", "calling", "resettle"}
    BY <1>1, <1>9, <2>3 DEF Cancel
  <2> QED BY <2>1, <2>2, <2>3
<1>10. CASE Close(r)
  BY SMTT(30), <1>1, <1>8, <1>10 DEF Close
<1>11. CASE SendToken(r)
  BY <1>0, <1>11, ChargeOf DEF SendToken
<1>12. CASE \/ Denied(r) \/ Enter(r) \/ AppendUser(r) \/ CommitUser(r) \/ ChatFails(r)
            \/ Prepare(r) \/ PrepareFails(r) \/ SendCitation(r)
  BY Zenon, <1>1, <1>12 DEF Denied, Enter, AppendUser, CommitUser, ChatFails, Prepare, PrepareFails,
                     SendCitation, Same
<1>13. CASE \/ Extract(r) \/ RecordSuccess(r) \/ RecordFails(r) \/ RaiseQueryError(r)
            \/ SendQueryError(r) \/ RecordStreamFailure(r) \/ Respond(r)
            \/ AppendAssistant(r) \/ CommitAssistant(r) \/ Reply(r) \/ SendError(r)
            \/ SendErrorFinal(r) \/ Cleanup(r)
  BY <1>1, <1>13 DEF Extract, RecordSuccess, RecordFails, RaiseQueryError, SendQueryError,
               RecordStreamFailure, Respond, AppendAssistant, CommitAssistant, Reply, SendError,
               SendErrorFinal, Cleanup, Same
<1> QED BY Zenon, <1>2, <1>3, <1>4, <1>5, <1>6, <1>7, <1>9, <1>10, <1>11, <1>12, <1>13 DEF Step, Advance

-----------------------------------------------------------------------------
(* The chat session.  A draft is one row, numbered after the committed      *)
(* ones, and holds the lock on the session; what a request has stored       *)
(* follows from where it stands.                                            *)
Roles == {"user", "assistant"}
Rows == [req : Requests, role : Roles, seq : Nat]
ChatOnly == {"opened", "asked", "query_raised", "replying", "replied", "saved"}
Asked == {"retrieve", "ready", "cited", "calling", "resettle", "answered", "extracted",
          "query_failed", "query_error_sent", "query_raised", "query_done", "replying", "replied",
          "saved", "returned"}
Answered == {"saved", "returned"}
Drafts == {"asked", "replied", "closing"}
DraftRole(l) == IF l = "asked" THEN "user" ELSE "assistant"

Numbered == /\ messages \in Seq(Rows)
            /\ \A i \in 1 .. Len(messages) : messages[i].seq = i
Ordered == \A i \in 1 .. Len(messages) : messages[i].role = "assistant" =>
             \E j \in 1 .. i - 1 : messages[j].role = "user" /\ messages[j].req = messages[i].req
Drafted ==
  /\ lock \in Requests \cup {NoOne}
  /\ draft \in [Requests -> Seq(Rows)]
  /\ \A r \in Requests : draft[r] # <<>> =>
       /\ lock = r /\ pc[r] \in Drafts
       /\ \E role \in Roles : draft[r] = <<Row(r, role, Len(messages) + 1)>>
  /\ \A r \in Requests : lock = r => draft[r] # <<>>
Placed(r) ==
  /\ pc[r] \in {"asked", "replied"} => draft[r] = <<Row(r, DraftRole(pc[r]), Len(messages) + 1)>>
  /\ pc[r] \in ChatOnly => IsChat(r)
  /\ IsChat(r) /\ pc[r] \in Asked => Stored(r, "user")
  /\ IsChat(r) /\ pc[r] \in Answered => Stored(r, "assistant")
MemInv == Numbered /\ Ordered /\ Drafted /\ \A r \in Requests : Placed(r)

\* With the rows numbered from 1, the next number is one more than their count.
LEMMA NextNumber ==
  ASSUME Numbered
  PROVE  NextSequenceNo = Len(messages) + 1
<1> DEFINE S == {0} \cup {messages[i].seq : i \in DOMAIN messages}
<1>1. Len(messages) \in Nat /\ DOMAIN messages = 1 .. Len(messages)
  BY DEF Numbered
<1>2. \A n \in S : n \in 0 .. Len(messages)
  BY <1>1 DEF Numbered
<1>3. Len(messages) \in S
  <2>1. CASE Len(messages) = 0
    BY <2>1
  <2>2. CASE Len(messages) > 0
    BY <1>1, <2>2 DEF Numbered
  <2> QED BY <1>1, <2>1, <2>2
<1>4. (CHOOSE n \in S : \A m \in S : n >= m) = Len(messages)
  <2> HIDE DEF S
  <2>1. \A x \in S : (\A y \in S : x >= y) <=> x = Len(messages)
    BY <1>1, <1>2, <1>3
  <2>2. (CHOOSE n \in S : \A m \in S : n >= m) = CHOOSE x \in S : x = Len(messages)
    BY <2>1
  <2> QED BY <1>3, <2>2
<1> QED BY Zenon, <1>4 DEF NextSequenceNo

(* What a step that leaves the session alone must know of the move of r.    *)
QuietMove(r) ==
  /\ UNCHANGED memVars
  /\ pc'[r] \in {"asked", "replied"} => pc'[r] = pc[r]
  /\ pc'[r] \in ChatOnly => IsChat(r)
  /\ IsChat(r) /\ pc'[r] \in Asked => pc[r] \in Asked
  /\ IsChat(r) /\ pc'[r] \in Answered => pc[r] \in Answered
  /\ pc[r] \in Drafts => pc'[r] \in Drafts

\* A step that writes no message keeps the invariant of the session.
LEMMA QuietStep ==
  ASSUME ReqTypes, MemInv, NEW r \in Requests, Others(r), QuietMove(r)
  PROVE  MemInv'
<1>1. Numbered' /\ Ordered'
  BY DEF QuietMove, MemInv, Numbered, Ordered, memVars
<1>2. Drafted'
  BY DEF QuietMove, MemInv, Drafted, memVars, Others, Row
<1>3. ASSUME NEW q \in Requests PROVE Placed(q)'
  <2>1. CASE q = r
    <3>1. messages' = messages /\ draft' = draft /\ kind' = kind
      BY DEF QuietMove, memVars, Others
    <3>2. Placed(r) /\ IsChat(r)' = IsChat(r)
          /\ \A role : Stored(r, role)' = Stored(r, role)
      BY <3>1 DEF MemInv, IsChat, Stored
    <3>3. (pc[r] \in {"asked", "replied"} => draft[r] = <<Row(r, DraftRole(pc[r]), Len(messages) + 1)>>)'
      <4>1. CASE pc'[r] = pc[r]
        BY <3>1, <3>2, <4>1 DEF Placed, Row
      <4>2. CASE pc'[r] # pc[r]
        BY SMTT(30), <4>2 DEF QuietMove
      <4> QED BY <4>1, <4>2
    <3> QED BY <2>1, <3>2, <3>3 DEF QuietMove, Placed
  <2>2. CASE q # r
    BY <2>2 DEF QuietMove, MemInv, Placed, memVars, Others, Stored, IsChat, Row
  <2> QED BY SMTT(30), <2>1, <2>2
<1> QED BY <1>1, <1>2, <1>3 DEF MemInv

\* A rollback drops the draft and releases the session (ChatFails, Cleanup).
LEMMA RollbackStep ==
  ASSUME ReqTypes, MemInv, NEW r \in Requests, Others(r), Rollback(r),
         pc'[r] \in {"failing", "raised", "gone"}
  PROVE  MemInv'
<1>1. Numbered' /\ Ordered'
  BY DEF Rollback, MemInv, Numbered, Ordered
<1>2. Drafted'
  <2>1. draft' \in [Requests -> Seq(Rows)] /\ draft'[r] = <<>>
        /\ \A q \in Requests \ {r} : draft'[q] = draft[q]
    BY DEF Rollback, MemInv, Drafted
  <2>2. lock' \in Requests \cup {NoOne} /\ lock' # r /\ (lock # r => lock' = lock)
    BY RequestsAssumption DEF Rollback, MemInv, Drafted
  <2>3. \A q \in Requests : lock' = q => lock = q
    BY <2>2, RequestsAssumption DEF Rollback
  <2> QED BY SMTT(30), <2>1, <2>2, <2>3 DEF Rollback, MemInv, Drafted, Others, Row
<1>3. ASSUME NEW q \in Requests PROVE Placed(q)'
  <2>1. CASE q = r
    BY SMTT(30), <2>1 DEF Placed, ChatOnly, Asked, Answered
  <2>2. CASE q # r
    BY SMTT(30), <2>2 DEF Rollback, MemInv, Drafted, Placed, Others, Stored, IsChat, Row
  <2> QED BY <2>1, <2>2
<1> QED BY <1>1, <1>2, <1>3 DEF MemInv

\* Appending under the lock drafts the next row (append_message).
LEMMA AppendStep ==
  ASSUME ReqTypes, MemInv, NEW r \in Requests, Others(r), NEW l \in {"asked", "replied"}, pc'[r] = l,
         AppendMessage(r, DraftRole(l)), IsChat(r), l = "replied" => pc[r] \in Asked
  PROVE  MemInv'
<1> DEFINE new == Row(r, DraftRole(l), Len(messages) + 1)
<1>1. Numbered' /\ Ordered'
  BY DEF AppendMessage, MemInv, Numbered, Ordered
<1>2. draft' = [draft EXCEPT ![r] = <<new>>] /\ new \in Rows
  <2>1. NextSequenceNo = Len(messages) + 1 /\ Len(messages) \in Nat
    BY NextNumber DEF MemInv, Numbered
  <2>2. DraftRole(l) \in Roles
    BY DEF DraftRole, Roles
  <2> QED BY <2>1, <2>2 DEF AppendMessage, Row, Rows
<1>3. draft' \in [Requests -> Seq(Rows)] /\ draft'[r] = <<new>>
      /\ \A q \in Requests \ {r} : draft'[q] = draft[q]
  BY SMTT(30), <1>2 DEF MemInv, Drafted
<1>4. \A q \in Requests \ {r} : draft[q] = <<>>
  BY SMTT(30), RequestsAssumption DEF AppendMessage, SessionFree, MemInv, Drafted
<1>5. Drafted'
  <2>1. lock' = r /\ <<new>> # <<>> /\ messages' = messages
    BY Zenon DEF AppendMessage
  <2>2. \A q \in Requests : draft'[q] # <<>> => q = r
    BY Zenon, <1>3, <1>4
  <2>3. \E role \in Roles : draft'[r] = <<Row(r, role, Len(messages') + 1)>>
    BY <1>3, <2>1 DEF DraftRole, Roles
  <2> QED BY SMTT(30), <1>3, <2>1, <2>2, <2>3 DEF Drafted, Drafts
<1>6. ASSUME NEW q \in Requests PROVE Placed(q)'
  <2>1. CASE q = r
    <3>1. Stored(r, "user")' = Stored(r, "user") /\ IsChat(r)' = IsChat(r)
      BY Zenon DEF AppendMessage, Stored, IsChat, Others
    <3>2. pc[r] \in Asked => Stored(r, "user")
      BY Zenon DEF MemInv, Placed
    <3> QED BY SMTT(30), <1>3, <2>1, <3>1, <3>2 DEF AppendMessage, Placed, ChatOnly, Asked, Answered
  <2>2. CASE q # r
    <3>1. pc'[q] = pc[q] /\ draft'[q] = draft[q] /\ messages' = messages /\ kind' = kind
      BY SMTT(30), <1>3, <2>2 DEF AppendMessage, Others
    <3> QED BY SMTT(30), <3>1 DEF MemInv, Placed, Stored, IsChat, Row
  <2> QED BY SMTT(30), <2>1, <2>2
<1> QED BY <1>1, <1>5, <1>6 DEF MemInv

\* Committing makes the draft the last row and releases the session.
LEMMA CommitStep ==
  ASSUME ReqTypes, MemInv, NEW r \in Requests, Others(r), Commit(r),
         \/ pc[r] = "asked" /\ pc'[r] = "retrieve"
         \/ pc[r] = "replied" /\ pc'[r] = "saved"
  PROVE  MemInv'
<1> DEFINE n == Len(messages)
           new == Row(r, DraftRole(pc[r]), n + 1)
<1>1. n \in Nat /\ draft[r] = <<new>> /\ new \in Rows /\ lock = r
  <2>1. n \in Nat /\ draft[r] = <<new>>
    BY SMTT(30) DEF MemInv, Numbered, Placed
  <2>2. lock = r
    BY SMTT(30), <2>1 DEF MemInv, Drafted
  <2>3. new \in Rows
    BY SMTT(30), <2>1 DEF Row, Rows, Roles, DraftRole
  <2> QED BY <2>1, <2>2, <2>3
<1>2. /\ messages' \in Seq(Rows) /\ Len(messages') = n + 1 /\ messages'[n + 1] = new
      /\ \A i \in 1 .. n : messages'[i] = messages[i]
  BY SMTT(30), <1>1 DEF Commit, MemInv, Numbered
<1>3. new.req = r /\ new.role = DraftRole(pc[r]) /\ new.seq = n + 1
  BY Zenon DEF Row
<1> HIDE DEF n, new
<1>4. Numbered'
  BY SMTT(30), <1>1, <1>2, <1>3 DEF MemInv, Numbered, n
<1>5. \A q \in Requests, role \in Roles : Stored(q, role) => Stored(q, role)'
  <2> SUFFICES ASSUME NEW q \in Requests, NEW role \in Roles, Stored(q, role) PROVE Stored(q, role)'
    OBVIOUS
  <2>1. PICK i \in DOMAIN messages : messages[i].req = q /\ messages[i].role = role
    BY DEF Stored
  <2>2. i \in 1 .. n /\ i \in DOMAIN messages'
    BY SMTT(30), <1>1, <1>2, <2>1 DEF MemInv, Numbered, n
  <2> QED BY SMTT(30), <1>2, <2>1, <2>2 DEF Stored
<1>6. \A role \in Roles : role = DraftRole(pc[r]) => Stored(r, role)'
  <2>1. n + 1 \in DOMAIN messages'
    BY <1>1, <1>2
  <2> QED BY <1>2, <1>3, <2>1 DEF Stored
<1>7. Ordered'
  <2> SUFFICES ASSUME NEW i \in 1 .. n + 1, messages'[i].role = "assistant"
               PROVE  \E j \in 1 .. i - 1 : messages'[j].role = "user" /\ messages'[j].req = messages'[i].req
    BY <1>2 DEF Ordered
  <2>1. CASE i \in 1 .. n
    <3>1. PICK j \in 1 .. i - 1 : messages[j].role = "user" /\ messages[j].req = messages[i].req
      BY <1>2, <2>1 DEF MemInv, Ordered, n
    <3> QED BY <1>1, <1>2, <2>1, <3>1
  <2>2. CASE i = n + 1
    <3>1. pc[r] = "replied"
      BY <1>2, <1>3, <2>2 DEF DraftRole
    <3>2. Stored(r, "user")
      BY <3>1 DEF MemInv, Placed, Asked, ChatOnly
    <3>3. PICK j \in 1 .. n : messages[j].req = r /\ messages[j].role = "user"
      BY <1>1, <3>2 DEF Stored, MemInv, Numbered, n
    <3> QED BY <1>1, <1>2, <1>3, <2>2, <3>3
  <2> QED BY <1>1, <2>1, <2>2
<1>8. draft' \in [Requests -> Seq(Rows)] /\ \A q \in Requests : draft'[q] = <<>>
  <2>1. \A q \in Requests \ {r} : draft[q] = <<>>
    BY SMTT(30), <1>1 DEF MemInv, Drafted
  <2> QED BY SMTT(30), <2>1 DEF Commit, MemInv, Drafted
<1>9. Drafted'
  BY <1>1, <1>8, RequestsAssumption DEF Drafted, Commit
<1>10. ASSUME NEW q \in Requests PROVE Placed(q)'
  <2>0. IsChat(q)' = IsChat(q)
    BY DEF IsChat, Others
  <2>1. CASE q = r
    <3>1. CASE pc[r] = "asked"
      BY Zenon, <1>6, <2>0, <2>1, <3>1 DEF Placed, DraftRole, ChatOnly, Answered, Roles
    <3>2. CASE pc[r] = "replied"
      <4>1. IsChat(r) /\ Stored(r, "user")
        BY Zenon, <3>2 DEF MemInv, Placed, ChatOnly, Asked
      <4> QED BY Zenon, <1>5, <1>6, <2>0, <2>1, <3>2, <4>1 DEF Placed, DraftRole, Roles
    <3> QED BY Zenon, <3>1, <3>2
  <2>2. CASE q # r
    <3>1. draft[q] = <<>> /\ pc'[q] = pc[q]
      BY Zenon, <1>1, <2>2 DEF MemInv, Drafted, Others
    <3>2. Placed(q) /\ pc[q] \notin {"asked", "replied"}
      BY <3>1 DEF MemInv, Placed
    <3> QED BY Zenon, <1>5, <2>0, <3>1, <3>2 DEF Placed, Roles
  <2> QED BY <2>1, <2>2
<1> QED BY SMTT(30), <1>4, <1>7, <1>9, <1>10 DEF MemInv

\* The session starts empty and unlocked.
LEMMA MemInit == AnswerInit => MemInv
BY SMTT(30), RequestsAssumption DEF AnswerInit, MemInv, Numbered, Ordered, Drafted, Placed, ChatOnly, Asked, Answered

\* Stuttering keeps the invariant of the session.
LEMMA MemIdle ==
  ASSUME MemInv, UNCHANGED answerVars
  PROVE  MemInv'
BY SMTT(30) DEF answerVars, reqVars, memVars, MemInv, Numbered, Ordered, Drafted, Placed, Stored, IsChat, Row,
       DraftRole

-----------------------------------------------------------------------------
(* The account.                                                             *)
\* The larger of the floor and the forecast is an amount (begin).
LEMMA ReservationNat ==
  ASSUME NEW f \in Forecasts
  PROVE  Reservation(f) \in Nat
BY CostAssumption DEF Reservation

\* The account starts with its invariant.
LEMMA CostInitInv == CostInit => CostInv
BY CostAssumption DEF CostInit, CostInv, CostTypeOK, NoCharge, Unknown, Settled

\* Reserving keeps the account typed (reserve).
LEMMA ReserveInv ==
  ASSUME CostInv, NEW c \in Calls, NEW f \in Forecasts, Reserve(c, f)
  PROVE  CostInv'
<1> DEFINE n == Reservation(f)
<1>1. n \in Nat
  BY ReservationNat
<1>2. account'[month] = [account[month] EXCEPT !.reserved = @ + n]
  BY DEF Reserve, CostInv, CostTypeOK
<1>3. CostTypeOK'
  <2>1. account' \in [Periods -> [spent : Nat, reserved : Int]]
    BY <1>1 DEF Reserve, CostInv, CostTypeOK
  <2>2. charge' \in [Calls -> [status : {"none", "reserved"} \cup Settled, period : Periods,
                               reserved : Nat, amount : Nat \cup {Unknown}]]
    BY <1>1 DEF Reserve, CostInv, CostTypeOK
  <2> QED BY <2>1, <2>2 DEF Reserve, CostInv, CostTypeOK
<1>4. \A d \in Calls : charge'[d].status \in {"none", "reserved"} => charge'[d].amount = Unknown
  BY DEF Reserve, CostInv, CostTypeOK
<1> QED BY <1>3, <1>4 DEF CostInv

\* So does settling, with or without a known amount (settle).
LEMMA SettleInv ==
  ASSUME CostInv, NEW c \in Calls, NEW s \in Settled, NEW a \in Nat \cup {Unknown}, Settle(c, s, a)
  PROVE  CostInv'
<1>1. charge' \in [Calls -> [status : {"none", "reserved"} \cup Settled, period : Periods,
                             reserved : Nat, amount : Nat \cup {Unknown}]]
  BY ZenonT(30) DEF Settle, CostInv, CostTypeOK
<1>2. account' \in [Periods -> [spent : Nat, reserved : Int]]
  <2>1. CASE a = Unknown
    BY <2>1 DEF Settle, CostInv, CostTypeOK
  <2>2. CASE a # Unknown
    <3>1. a \in Nat /\ charge[c].reserved \in Nat /\ charge[c].period \in Periods
      BY <2>2 DEF CostInv, CostTypeOK
    <3> QED BY <2>2, <3>1 DEF Settle, SettledIn, CostInv, CostTypeOK
  <2> QED BY <2>1, <2>2
<1>3. \A d \in Calls : charge'[d].status \in {"none", "reserved"} => charge'[d].amount = Unknown
  BY DEF Settle, CostInv, CostTypeOK, Settled
<1> QED BY <1>1, <1>2, <1>3 DEF Settle, CostInv, CostTypeOK

\* Every step of the account keeps its invariant.
LEMMA CostStepInv == CostInv /\ [CostNext]_costVars => CostInv'
<1> SUFFICES ASSUME CostInv, [CostNext]_costVars PROVE CostInv'
  OBVIOUS
<1>1. CASE MonthEnds
  BY <1>1 DEF MonthEnds, CostInv, CostTypeOK
<1>2. ASSUME NEW c \in Calls, NEW f \in Forecasts, Reserve(c, f) PROVE CostInv'
  BY <1>2, ReserveInv
<1>3. ASSUME NEW c \in Calls, NEW s \in Settled, Finish(c, s) PROVE CostInv'
  BY <1>3, SettleInv, CostAssumption DEF Finish
<1>4. ASSUME NEW c \in Calls, NEW s \in Settled, FinishUnknown(c, s) PROVE CostInv'
  <2>1. CASE Settle(c, s, Unknown)
    BY Zenon, <2>1, SettleInv
  <2>2. CASE UNCHANGED costVars
    BY <2>2 DEF costVars, CostInv, CostTypeOK
  <2> QED BY <1>4, <2>1, <2>2 DEF FinishUnknown, SettleAgain
<1>5. CASE UNCHANGED costVars
  BY <1>5 DEF costVars, CostInv, CostTypeOK
<1> QED BY <1>1, <1>2, <1>3, <1>4, <1>5 DEF CostNext

-----------------------------------------------------------------------------
(* The refinement, step by step.                                            *)
Due == [p \in Periods |-> account[p].spent + account[p].reserved]
Hold(c) == [call |-> c, period |-> charge[c].period, held |-> charge[c].reserved]
Open == {Hold(c) : c \in Outstanding}

\* A hold that appears as admitted, or disappears as resolved, is a ledger step.
LEMMA AbstractStep ==
  ASSUME NEW h, \/ h \in Open' \ Open /\ Ledger!Admit(h)
                \/ h \in Open \ Open' /\ Ledger!Resolve(h)
  PROVE  Ledger!LedgerNext
BY Zenon DEF Ledger!LedgerNext, Open, Hold

\* Reserving admits one new hold within the limit of its month (reserve).
LEMMA ReserveAdmits ==
  ASSUME CostInv, NEW c \in Calls, NEW f \in Forecasts, Reserve(c, f)
  PROVE  Ledger!LedgerNext
<1>0. PICK h : h = [call |-> c, period |-> month, held |-> Reservation(f)]
  BY Zenon
<1>1. Reservation(f) \in Nat
  BY ReservationNat
<1>2. charge'[c] = [status |-> "reserved", period |-> month, reserved |-> Reservation(f), amount |-> Unknown]
  BY DEF Reserve, CostInv, CostTypeOK
<1>3. \A d \in Calls \ {c} : charge'[d] = charge[d]
  BY DEF Reserve, CostInv, CostTypeOK
<1>4. c \notin Outstanding /\ Outstanding' = Outstanding \cup {c}
  BY SMTT(30), <1>2, <1>3 DEF Outstanding, Reserve
<1>5. Hold(c)' = h /\ \A d \in Outstanding : Hold(d)' = Hold(d)
  BY <1>0, <1>2, <1>3, <1>4 DEF Hold, Outstanding
<1>6. Open' = Open \cup {h}
  BY <1>4, <1>5 DEF Open
<1>7. \A o \in Open : o.call # h.call
  <2> SUFFICES ASSUME NEW d \in Outstanding PROVE Hold(d).call # c
    BY <1>0 DEF Open
  <2> QED BY <1>4 DEF Hold
<1>8. month \in Periods /\ Due[month] + h.held <= Limit
  BY <1>0 DEF Due, Reserve, Fits, CostInv, CostTypeOK
<1>9. Due' = [Due EXCEPT ![h.period] = @ + h.held]
  <2>1. account'[month].spent = account[month].spent
        /\ account'[month].reserved = account[month].reserved + Reservation(f)
    BY <1>8 DEF Reserve, CostInv, CostTypeOK
  <2>2. \A p \in Periods \ {month} : account'[p] = account[p]
    BY DEF Reserve, CostInv, CostTypeOK
  <2>3. account[month].spent \in Int /\ account[month].reserved \in Int
    BY <1>8 DEF CostInv, CostTypeOK
  <2>4. h.period = month /\ h.held = Reservation(f)
    BY <1>0
  <2>5. \A p \in Periods : Due'[p] = [Due EXCEPT ![h.period] = @ + h.held][p]
    BY SMTT(30), <1>1, <1>8, <2>1, <2>2, <2>3, <2>4 DEF Due
  <2> QED BY <2>5 DEF Due
<1>10. Ledger!Admit(h)
  BY <1>0, <1>1, <1>6, <1>7, <1>8, <1>9 DEF Ledger!Admit, Ledger!Holds, Due, Open, Hold
<1>11. h \in Open' \ Open
  BY <1>6, <1>7
<1> QED BY <1>10, <1>11, AbstractStep

\* Settling a known amount resolves one hold into the month that admitted it;
\* settling an unknown one leaves the ledger as it is (settle).
LEMMA SettleResolves ==
  ASSUME CostInv, NEW c \in Calls, NEW s \in Settled, NEW a \in Nat \cup {Unknown}, Settle(c, s, a)
  PROVE  Ledger!LedgerNext \/ (Due' = Due /\ Open' = Open)
<1>1. /\ charge'[c].status = s /\ charge'[c].amount = a
      /\ charge'[c].period = charge[c].period /\ charge'[c].reserved = charge[c].reserved
  BY DEF Settle, CostInv, CostTypeOK
<1>2. \A d \in Calls \ {c} : charge'[d] = charge[d]
  BY DEF Settle, CostInv, CostTypeOK
<1>3. c \in Outstanding
  BY Zenon DEF Outstanding, Settle, Claimable, CostInv
<1>4. \A d \in Calls : Hold(d)' = Hold(d)
  BY <1>1, <1>2 DEF Hold
<1>5. CASE a = Unknown
  <2>1. Outstanding' = Outstanding
    <3>1. \A d \in Calls : d \in Outstanding' <=> d \in Outstanding
      BY <1>1, <1>2, <1>3, <1>5 DEF Outstanding, Settled
    <3> QED BY <3>1 DEF Outstanding
  <2>2. Open' = Open
    BY <2>1, <1>4 DEF Open, Outstanding
  <2>3. Due' = Due
    BY <1>5 DEF Due, Settle
  <2> QED BY <2>2, <2>3
<1>6. CASE a # Unknown
  <2>0. PICK h : h = Hold(c)
    OBVIOUS
  <2>1. Outstanding' = Outstanding \ {c}
    BY <1>1, <1>2, <1>6 DEF Outstanding
  <2>2. \A d \in Outstanding : Hold(d) = h => d = c
    BY <2>0 DEF Hold
  <2>3. h \in Open /\ Open' = Open \ {h} /\ h \notin Open'
    BY <1>3, <1>4, <2>0, <2>1, <2>2 DEF Open, Outstanding
  <2>4. /\ a \in Nat /\ charge[c].reserved \in Nat /\ charge[c].period \in Periods
        /\ account[charge[c].period].spent \in Nat /\ account[charge[c].period].reserved \in Int
    BY <1>6 DEF CostInv, CostTypeOK
  <2>5. /\ account'[h.period].spent = account[h.period].spent + a
        /\ account'[h.period].reserved = account[h.period].reserved - h.held
    BY <1>6, <2>0, <2>4 DEF Settle, SettledIn, Hold, CostInv, CostTypeOK
  <2>6. \A p \in Periods \ {h.period} : account'[p] = account[p]
    BY Zenon, <1>6, <2>0, <2>4 DEF Settle, SettledIn, Hold, CostInv, CostTypeOK
  <2>7. /\ Due'[h.period] + h.held >= Due[h.period]
        /\ Due' = [Due EXCEPT ![h.period] = Due'[h.period]]
    BY SMTT(30), <2>0, <2>4, <2>5, <2>6 DEF Due, Hold
  <2>8. Ledger!Resolve(h)
    BY Zenon, <2>3, <2>7 DEF Ledger!Resolve, Due, Open, Hold
  <2> QED BY <2>3, <2>8, AbstractStep
<1> QED BY <1>5, <1>6

\* Every step of the account is a step of the ledger or leaves it alone.
LEMMA StepKeepsLedger == CostInv /\ [CostNext]_costVars => [Ledger!LedgerNext]_(Ledger!ledgerVars)
<1> SUFFICES ASSUME CostInv, [CostNext]_costVars
             PROVE  Ledger!LedgerNext \/ (Due' = Due /\ Open' = Open)
  BY DEF Ledger!ledgerVars, Due, Open, Hold
<1>1. CASE MonthEnds
  BY <1>1 DEF MonthEnds, Due, Open, Hold, Outstanding
<1>2. ASSUME NEW c \in Calls, NEW f \in Forecasts, Reserve(c, f) PROVE Ledger!LedgerNext
  BY <1>2, ReserveAdmits
<1>3. ASSUME NEW c \in Calls, NEW s \in Settled, Finish(c, s)
      PROVE  Ledger!LedgerNext \/ (Due' = Due /\ Open' = Open)
  BY <1>3, SettleResolves, CostAssumption DEF Finish
<1>4. CASE UNCHANGED costVars
  BY <1>4 DEF costVars, Due, Open, Hold, Outstanding
<1>5. ASSUME NEW c \in Calls, NEW s \in Settled, FinishUnknown(c, s)
      PROVE  Ledger!LedgerNext \/ (Due' = Due /\ Open' = Open)
  BY Zenon, <1>4, <1>5, SettleResolves DEF FinishUnknown, SettleAgain
<1> QED BY Zenon, <1>1, <1>2, <1>3, <1>4, <1>5 DEF CostNext

\* The account stays well typed and an unsettled charge has no amount,
\* whatever is reserved, settled and settled again (reserve, settle).
THEOREM AccountTyped == CostSpec => []CostInv
BY CostInitInv, CostStepInv, PTL DEF CostSpec

\* The account implements the ledger: a hold is admitted only within the limit
\* of its month, and each hold is resolved at most once, into the month that
\* admitted it (CostRepository.reserve and settle).
THEOREM LedgerKept == CostSpec => KeepsLedger
<1>1. CostInit => Ledger!LedgerInit
  BY CostAssumption DEF CostInit, Ledger!LedgerInit, Outstanding, NoCharge
<1> QED BY <1>1, StepKeepsLedger, AccountTyped, PTL DEF CostSpec, KeepsLedger, Ledger!LedgerSpec

-----------------------------------------------------------------------------
(* The steps of a request.                                                  *)
\* What a request does to its charge is a step of the account.
LEMMA CallMoves ==
  ASSUME NEW r \in Requests
  PROVE  /\ \A f \in Forecasts : Reserve(r, f) => CostNext
         /\ \A t \in Settled : Finish(r, t) \/ FinishUnknown(r, t) => CostNext
         /\ CallAbandoned(r) => [CostNext]_costVars
BY Zenon, RequestsAssumption DEF CostNext, CallAbandoned, Settled

\* The answer path spends only by the steps of the account.
LEMMA SpendsByAccount ==
  ASSUME NEW r \in Requests, Step(r)
  PROVE  [CostNext]_costVars
<1>1. CASE BeginCharge(r)
  BY <1>1, CallMoves DEF BeginCharge
<1>2. CASE BeginFails(r)
  BY <1>2, CallMoves DEF BeginFails
<1>3. CASE ProviderAnswers(r)
  BY <1>3, CallMoves DEF ProviderAnswers, Settled
<1>4. CASE ProviderFails(r)
  BY <1>4, CallMoves DEF ProviderFails, Settled
<1>5. CASE SettlementFails(r)
  BY <1>5, CallMoves DEF SettlementFails, Settled
<1>6. CASE Resettle(r)
  BY <1>6, CallMoves DEF Resettle, Settled
<1>7. CASE Cancel(r)
  BY <1>7, CallMoves DEF Cancel, ReserveCancelled
<1>8. CASE Close(r)
  BY SMTT(30), <1>8, CallMoves DEF Close
<1>9. CASE \/ Denied(r) \/ Enter(r) \/ AppendUser(r) \/ CommitUser(r) \/ ChatFails(r)
           \/ Prepare(r) \/ PrepareFails(r) \/ SendCitation(r) \/ SendToken(r)
  BY Zenon, <1>9 DEF Denied, Enter, AppendUser, CommitUser, ChatFails, Prepare, PrepareFails, SendCitation,
              SendToken
<1>10. CASE \/ Extract(r) \/ RecordSuccess(r) \/ RecordFails(r) \/ RaiseQueryError(r)
            \/ SendQueryError(r) \/ RecordStreamFailure(r) \/ Respond(r)
            \/ AppendAssistant(r) \/ CommitAssistant(r) \/ Reply(r) \/ SendError(r)
            \/ SendErrorFinal(r) \/ Cleanup(r)
  BY <1>10 DEF Extract, RecordSuccess, RecordFails, RaiseQueryError, SendQueryError,
               RecordStreamFailure, Respond, AppendAssistant, CommitAssistant, Reply, SendError,
               SendErrorFinal, Cleanup
<1> QED BY <1>1, <1>2, <1>3, <1>4, <1>5, <1>6, <1>7, <1>8, <1>9, <1>10 DEF Step, Advance

\* Steps of the answer path, seen from the account.
LEMMA AnswerPays == [AnswerNext]_answerVars => [CostNext]_costVars
<1>1. AnswerNext => [CostNext]_costVars
  BY SpendsByAccount DEF AnswerNext, Step
<1>2. UNCHANGED answerVars => UNCHANGED costVars
  BY DEF answerVars
<1> QED BY <1>1, <1>2

\* Whatever requests run, fail, are cancelled or repeat a settlement, the
\* tenant's account keeps the ledger (AccountingLLMProvider over CostRepository).
THEOREM AnswersKeepLedger == AnswerSpec => KeepsLedger
<1>1. AnswerInit => CostInit
  BY DEF AnswerInit
<1>2. AnswerSpec => CostSpec
  BY <1>1, AnswerPays, PTL DEF AnswerSpec, CostSpec
<1> QED BY <1>2, LedgerKept

\* Under the answer path too the account stays well typed, and a charge has no
\* amount before it is settled (reserve, settle).
THEOREM AnswersAccountTyped == AnswerSpec => []CostInv
<1>1. AnswerInit => CostInit
  BY DEF AnswerInit
<1> QED BY <1>1, AnswerPays, CostInitInv, CostStepInv, PTL DEF AnswerSpec

\* Sending an event extends the events of its request only.
LEMMA Sends ==
  ASSUME ReqTypes, NEW r \in Requests, NEW e \in Events, Send(r, e)
  PROVE  /\ sent' \in [Requests -> Seq(Events)]
         /\ \A q \in Requests \ {r} : sent'[q] = sent[q]
         /\ sent'[r] = Append(sent[r], e)
BY DEF Send, ReqTypes

\* Writing audit rows touches the rows of its request only.
LEMMA Audits ==
  ASSUME ReqTypes, NEW r \in Requests, NEW S \in SUBSET {"success", "failure"},
         audits' = [audits EXCEPT ![r] = @ \cup S] \/ audits' = audits
  PROVE  /\ audits' \in [Requests -> SUBSET {"success", "failure"}]
         /\ \A q \in Requests \ {r} : audits'[q] = audits[q]
         /\ audits'[r] \subseteq audits[r] \cup S
<1>1. audits[r] \in SUBSET {"success", "failure"}
  BY DEF ReqTypes
<1>2. audits[r] \cup S \in SUBSET {"success", "failure"}
  BY Zenon, <1>1
<1>3. CASE audits' = audits
  BY <1>3 DEF ReqTypes
<1>4. CASE audits' = [audits EXCEPT ![r] = @ \cup S]
  <2>1. audits'[r] = audits[r] \cup S /\ \A q \in Requests \ {r} : audits'[q] = audits[q]
    BY <1>4 DEF ReqTypes
  <2>2. audits' \in [Requests -> SUBSET {"success", "failure"}]
    BY <1>2, <1>4 DEF ReqTypes
  <2> QED BY Zenon, <2>1, <2>2
<1> QED BY <1>3, <1>4

\* The same for one row that may be lost (_record_audit, _record_stream_audit).
LEMMA AuditsOne ==
  ASSUME ReqTypes, NEW r \in Requests, NEW t \in {"success", "failure"}, AuditOrNot(r, t)
  PROVE  /\ audits' \in [Requests -> SUBSET {"success", "failure"}]
         /\ \A q \in Requests \ {r} : audits'[q] = audits[q]
         /\ audits'[r] \subseteq audits[r] \cup {t}
<1>1. {t} \in SUBSET {"success", "failure"}
  OBVIOUS
<1> QED BY Zenon, <1>1, Audits DEF AuditOrNot, Audit

\* A ledger failure is noted for its request only.
LEMMA LedgerErrs ==
  ASSUME ReqTypes, NEW r \in Requests,
         ledgerErr' = ledgerErr \/ ledgerErr' = [ledgerErr EXCEPT ![r] = TRUE]
  PROVE  /\ ledgerErr' \in [Requests -> BOOLEAN]
         /\ \A q \in Requests \ {r} : ledgerErr'[q] = ledgerErr[q]
BY Zenon DEF ReqTypes

\* A step of a request keeps the types and leaves the other requests alone.
LEMMA StepLocal ==
  ASSUME ReqTypes, NEW r \in Requests, Step(r)
  PROVE  ReqTypes' /\ Others(r)
<1> USE DEF ReqTypes, Others, Goto, Same, Places, Ends, Events
<1>1. CASE Denied(r)
  BY Zenon, <1>1 DEF Denied
<1>2. CASE Enter(r)
  BY <1>2 DEF Enter
<1>3. CASE ChatFails(r)
  BY <1>3 DEF ChatFails
<1>4. CASE AppendUser(r)
  BY Zenon, <1>4 DEF AppendUser
<1>5. CASE CommitUser(r)
  BY <1>5 DEF CommitUser
<1>6. CASE Prepare(r)
  BY Zenon, <1>6 DEF Prepare
<1>7. CASE PrepareFails(r)
  BY Zenon, <1>7 DEF PrepareFails
<1>8. CASE SendCitation(r)
  BY <1>8 DEF SendCitation, Send
<1>9. CASE BeginCharge(r)
  BY <1>9 DEF BeginCharge
<1>10. CASE BeginFails(r)
  BY Zenon, <1>10 DEF BeginFails
<1>11. CASE SendToken(r)
  BY <1>11 DEF SendToken, Send
<1>12. CASE ProviderAnswers(r)
  BY <1>12 DEF ProviderAnswers
<1>13. CASE ProviderFails(r)
  BY <1>13 DEF ProviderFails
<1>14. CASE SettlementFails(r)
  BY <1>14 DEF SettlementFails
<1>15. CASE Resettle(r)
  BY <1>15 DEF Resettle
<1>16. CASE Extract(r)
  BY ZenonT(30), <1>16 DEF Extract
<1>17. CASE RecordSuccess(r)
  BY <1>17 DEF RecordSuccess, AuditOrNot, Audit
<1>18. CASE RecordFails(r)
  BY <1>18 DEF RecordFails
<1>19. CASE RaiseQueryError(r)
  <2>1. /\ audits' \in [Requests -> SUBSET {"success", "failure"}]
        /\ \A q \in Requests \ {r} : audits'[q] = audits[q]
    BY <1>19, AuditsOne DEF RaiseQueryError
  <2>2. verdict' \in [Requests -> {"none", "success", "error"}]
    BY <1>19 DEF RaiseQueryError
  <2> QED BY Zenon, <1>19, <2>1, <2>2 DEF RaiseQueryError
<1>20. CASE SendQueryError(r)
  BY <1>20 DEF SendQueryError, Send
<1>21. CASE RecordStreamFailure(r)
  <2>1. /\ audits' \in [Requests -> SUBSET {"success", "failure"}]
        /\ \A q \in Requests \ {r} : audits'[q] = audits[q]
    BY <1>21, AuditsOne DEF RecordStreamFailure
  <2>2. verdict' \in [Requests -> {"none", "success", "error"}]
    BY Zenon, <1>21 DEF RecordStreamFailure
  <2> QED BY Zenon, <1>21, <2>1, <2>2 DEF RecordStreamFailure
<1>22. CASE Respond(r)
  <2>1. CASE IsChat(r)
    BY Zenon, <1>22, <2>1 DEF Respond
  <2>2. CASE ~IsChat(r) /\ kind[r] = "query"
    BY Zenon, <1>22, <2>2 DEF Respond
  <2>3. CASE ~IsChat(r) /\ kind[r] # "query"
    BY Zenon, <1>22, <2>3, Sends DEF Respond
  <2> QED BY <2>1, <2>2, <2>3
<1>23. CASE AppendAssistant(r)
  BY <1>23 DEF AppendAssistant
<1>24. CASE CommitAssistant(r)
  BY Zenon, <1>24 DEF CommitAssistant
<1>25. CASE Reply(r)
  <2>1. CASE IsStream(r)
    BY Zenon, <1>25, <2>1, Sends DEF Reply
  <2>2. CASE ~IsStream(r)
    BY ZenonT(30), <1>25, <2>2 DEF Reply
  <2> QED BY <2>1, <2>2
<1>26. CASE SendError(r)
  BY <1>26 DEF SendError, Send
<1>27. CASE SendErrorFinal(r)
  BY <1>27 DEF SendErrorFinal, Send
<1>28. CASE Cleanup(r)
  BY <1>28 DEF Cleanup
<1>29. CASE Cancel(r)
  <2>1. /\ audits' \in [Requests -> SUBSET {"success", "failure"}]
        /\ \A q \in Requests \ {r} : audits'[q] = audits[q]
    <3>1. PICK rows \in SUBSET CancelRows(r) : audits' = [audits EXCEPT ![r] = @ \cup rows]
      BY Zenon, <1>29 DEF Cancel
    <3>2. rows \in SUBSET {"success", "failure"}
      BY <3>1 DEF CancelRows
    <3> QED BY Zenon, <3>1, <3>2, Audits
  <2>2. ledgerErr' = ledgerErr \/ ledgerErr' = [ledgerErr EXCEPT ![r] = TRUE]
    BY <1>29 DEF Cancel, ReserveCancelled, CallAbandoned
  <2> QED BY <1>29, <2>1, <2>2, LedgerErrs DEF Cancel
<1>30. CASE Close(r)
  <2>1. /\ audits' \in [Requests -> SUBSET {"success", "failure"}]
        /\ \A q \in Requests \ {r} : audits'[q] = audits[q]
    BY <1>30, AuditsOne DEF Close
  <2>2. ledgerErr' = ledgerErr \/ ledgerErr' = [ledgerErr EXCEPT ![r] = TRUE]
    BY <1>30 DEF Close, CallAbandoned
  <2> QED BY ZenonT(30), <1>30, <2>1, <2>2, LedgerErrs DEF Close
<1> QED
  BY ZenonT(30), <1>1, <1>2, <1>3, <1>4, <1>5, <1>6, <1>7, <1>8, <1>9, <1>10, <1>11, <1>12,
     <1>13, <1>14, <1>15, <1>16, <1>17, <1>18, <1>19, <1>20, <1>21, <1>22, <1>23,
     <1>24, <1>25, <1>26, <1>27, <1>28, <1>29, <1>30 DEF Step, Advance

\* Requests start well typed.
LEMMA AnswerInitTypes == AnswerInit => ReqTypes
BY SMTT(30) DEF AnswerInit, ReqTypes, Places, Ends

\* Stuttering changes nothing the two invariants read.
LEMMA AnswerIdle == UNCHANGED answerVars => ReqTypes' = ReqTypes /\ HoldInv' = HoldInv
BY DEF answerVars, reqVars, memVars, costVars, ReqTypes, HoldInv

\* Every request is at one of its steps, with well typed events, audit rows and
\* verdict (query, stream_query, chat, stream_chat).
THEOREM RequestsTyped == AnswerSpec => []ReqTypes
<1>1. ReqTypes /\ [AnswerNext]_answerVars => ReqTypes'
  BY Zenon, StepLocal, AnswerIdle DEF AnswerNext, Step
<1> QED BY <1>1, AnswerInitTypes, PTL DEF AnswerSpec

\* Whatever ends a request, answer, error, cancellation or a client that goes
\* away, its charge is not left reserved unless the ledger itself failed under
\* it (AccountingLLMProvider._finish and the finally of stream).
THEOREM HoldsSettled == AnswerSpec => []HoldSettled
<1>1. AnswerInit => HoldInv
  BY RequestsAssumption DEF AnswerInit, CostInit, NoCharge, HoldInv
<1>2. CostInv /\ ReqTypes /\ HoldInv /\ [AnswerNext]_answerVars => HoldInv'
  BY Zenon, HoldStep, StepLocal, AnswerIdle DEF AnswerNext, Step
<1>3. HoldInv => HoldSettled
  BY DEF HoldInv, HoldSettled, Over, Ends
<1> QED BY <1>1, <1>2, <1>3, AnswersAccountTyped, RequestsTyped, PTL DEF AnswerSpec

-----------------------------------------------------------------------------
\* Each step of a request keeps the invariant of the session.
LEMMA MemStep ==
  ASSUME ReqTypes, MemInv, NEW r \in Requests, Step(r)
  PROVE  MemInv'
<1>0. Others(r) /\ Placed(r)
  BY StepLocal DEF MemInv
<1> USE DEF Goto, ReqTypes
<1>1. CASE AppendUser(r)
  BY Zenon, <1>0, <1>1, AppendStep DEF AppendUser, DraftRole, Placed, ChatOnly
<1>2. CASE CommitUser(r)
  BY <1>0, <1>2, CommitStep DEF CommitUser
<1>3. CASE AppendAssistant(r)
  BY Zenon, <1>0, <1>3, AppendStep DEF AppendAssistant, DraftRole, Placed, ChatOnly, Asked
<1>4. CASE CommitAssistant(r)
  BY <1>0, <1>4, CommitStep DEF CommitAssistant
<1>5. CASE ChatFails(r)
  BY <1>0, <1>5, RollbackStep DEF ChatFails
<1>6. CASE Cleanup(r)
  BY <1>0, <1>6, RollbackStep DEF Cleanup
<1>7. SUFFICES ASSUME ~(\/ AppendUser(r) \/ CommitUser(r) \/ AppendAssistant(r) \/ CommitAssistant(r)
                        \/ ChatFails(r) \/ Cleanup(r))
               PROVE  QuietMove(r)
  BY Zenon, <1>0, <1>1, <1>2, <1>3, <1>4, <1>5, <1>6, QuietStep
<1> USE DEF QuietMove, ChatOnly, Asked, Answered, Drafts, IsChat, IsStream
<1>8. CASE Denied(r) \/ Enter(r) \/ Prepare(r) \/ PrepareFails(r) \/ SendCitation(r)
  BY Zenon, <1>0, <1>8 DEF Denied, Enter, Prepare, PrepareFails, SendCitation
<1>9. CASE BeginCharge(r) \/ BeginFails(r) \/ SendToken(r) \/ ProviderAnswers(r) \/ ProviderFails(r)
  BY Zenon, <1>0, <1>9 DEF BeginCharge, BeginFails, SendToken, ProviderAnswers, ProviderFails
<1>10. CASE SettlementFails(r) \/ Resettle(r) \/ Extract(r) \/ RecordSuccess(r) \/ RecordFails(r)
  BY Zenon, <1>0, <1>10 DEF SettlementFails, Resettle, Extract, RecordSuccess, RecordFails
<1>11. CASE RaiseQueryError(r) \/ SendQueryError(r) \/ RecordStreamFailure(r)
  BY Zenon, <1>0, <1>11 DEF RaiseQueryError, SendQueryError, RecordStreamFailure
<1>12. CASE Respond(r)
  <2>1. CASE IsChat(r)
    BY <1>12, <2>1 DEF Respond
  <2>2. CASE ~IsChat(r)
    BY Zenon, <1>12, <2>2 DEF Respond
  <2> QED BY <2>1, <2>2
<1>13. CASE Reply(r) \/ SendError(r) \/ SendErrorFinal(r)
  BY <1>0, <1>13 DEF Reply, SendError, SendErrorFinal
<1>14. CASE Cancel(r)
  BY <1>14 DEF Cancel
<1>15. CASE Close(r)
  BY SMTT(30), <1>15 DEF Close
<1> QED BY Zenon, <1>7, <1>8, <1>9, <1>10, <1>11, <1>12, <1>13, <1>14, <1>15 DEF Step, Advance

\* The invariant of the session always holds.
LEMMA SessionKept == AnswerSpec => []MemInv
<1>1. ReqTypes /\ MemInv /\ [AnswerNext]_answerVars => MemInv'
  BY MemStep, MemIdle DEF AnswerNext, Step
<1> QED BY <1>1, MemInit, RequestsTyped, PTL DEF AnswerSpec

\* A chat answer is handed on only when its question and the answer are both
\* committed, whatever other requests write to the session (chat, stream_chat).
THEOREM RepliesStored == AnswerSpec => []ReplyStored
<1>1. MemInv => ReplyStored
  BY DEF MemInv, Placed, ReplyStored, Asked, Answered
<1> QED BY <1>1, SessionKept, PTL

\* Committed messages are numbered 1, 2, 3 ... in commit order and every stored
\* reply follows its question: the row lock makes "largest number plus one"
\* safe (append_message, _next_sequence_no).
THEOREM TranscriptKept == AnswerSpec => []Transcript
<1>1. MemInv => Transcript
  BY DEF MemInv, Numbered, Ordered, Transcript
<1> QED BY <1>1, SessionKept, PTL

\* A request that is over, however it ended, holds neither the lock on the
\* session nor an uncommitted message (the rollbacks and the session's close).
THEOREM SessionReleased == AnswerSpec => [](\A r \in Requests : Over(r) => lock # r /\ draft[r] = <<>>)
<1>1. MemInv => \A r \in Requests : Over(r) => lock # r /\ draft[r] = <<>>
  BY DEF MemInv, Drafted, Drafts, Over, Ends
<1> QED BY <1>1, SessionKept, PTL

-----------------------------------------------------------------------------
(* The events of a stream and the audit rows of an answer.                  *)
StreamMove(r) ==
  \/ sent'[r] = sent[r] /\ (pc'[r] = "ended" <=> pc[r] = "ended")
  \/ /\ pc[r] # "ended" /\ pc'[r] # "ended"
     /\ \E e \in Events \ {"final"} : sent'[r] = Append(sent[r], e)
  \/ pc[r] # "ended" /\ pc'[r] = "ended" /\ sent'[r] = Append(sent[r], "final")

\* A step sends nothing, an event that is not final, or the final one at its end.
LEMMA StreamMoves ==
  ASSUME ReqTypes, NEW r \in Requests, Step(r)
  PROVE  StreamMove(r)
<1> USE DEF ReqTypes, Goto, StreamMove, Events
<1>1. CASE Denied(r) \/ Enter(r) \/ AppendUser(r) \/ CommitUser(r) \/ ChatFails(r)
  BY Zenon, <1>1 DEF Denied, Enter, AppendUser, CommitUser, ChatFails
<1>2. CASE Prepare(r) \/ PrepareFails(r) \/ BeginCharge(r) \/ BeginFails(r) \/ ProviderAnswers(r)
  BY Zenon, <1>2 DEF Prepare, PrepareFails, BeginCharge, BeginFails, ProviderAnswers
<1>3. CASE ProviderFails(r) \/ SettlementFails(r) \/ Resettle(r) \/ Extract(r) \/ RecordSuccess(r)
  BY Zenon, <1>3 DEF ProviderFails, SettlementFails, Resettle, Extract, RecordSuccess
<1>4. CASE RecordFails(r) \/ RaiseQueryError(r) \/ RecordStreamFailure(r) \/ AppendAssistant(r)
           \/ CommitAssistant(r) \/ Cleanup(r)
  BY <1>4 DEF RecordFails, RaiseQueryError, RecordStreamFailure, AppendAssistant, CommitAssistant,
              Cleanup
<1>5. CASE SendCitation(r)
  BY <1>5 DEF SendCitation, Send
<1>6. CASE SendToken(r)
  BY <1>6 DEF SendToken, Send
<1>7. CASE SendQueryError(r)
  BY <1>7 DEF SendQueryError, Send
<1>8. CASE SendError(r)
  BY <1>8 DEF SendError, Send
<1>9. CASE SendErrorFinal(r)
  BY Zenon, <1>9 DEF SendErrorFinal, Send
<1>10. CASE Respond(r)
  <2>1. CASE IsChat(r)
    BY <1>10, <2>1 DEF Respond
  <2>2. CASE ~IsChat(r) /\ kind[r] = "query"
    BY <1>10, <2>2 DEF Respond
  <2>3. CASE ~IsChat(r) /\ kind[r] # "query"
    BY <1>10, <2>3 DEF Respond, Send
  <2> QED BY <2>1, <2>2, <2>3
<1>11. CASE Reply(r)
  BY <1>11 DEF Reply, Send
<1>12. CASE Cancel(r)
  BY <1>12 DEF Cancel, QueryRuns
<1>13. CASE Close(r)
  BY <1>13 DEF Close, AtYield
<1> QED BY ZenonT(30), <1>1, <1>2, <1>3, <1>4, <1>5, <1>6, <1>7, <1>8, <1>9, <1>10, <1>11, <1>12, <1>13
        DEF Step, Advance

Shaped(r) ==
  /\ \A i \in 1 .. Len(sent[r]) : sent[r][i] = "final" => i = Len(sent[r]) /\ pc[r] = "ended"
  /\ pc[r] = "ended" => sent[r] # <<>> /\ sent[r][Len(sent[r])] = "final"

\* Each step keeps the shape of every stream.
LEMMA ShapeStep ==
  ASSUME ReqTypes, \A q \in Requests : Shaped(q), NEW r \in Requests, Step(r)
  PROVE  \A q \in Requests : Shaped(q)'
<1>1. Others(r) /\ StreamMove(r)
  BY StepLocal, StreamMoves
<1> SUFFICES ASSUME NEW q \in Requests PROVE Shaped(q)'
  BY Zenon
<1>2. CASE q # r
  BY SMTT(30), <1>1, <1>2 DEF Others, Shaped
<1>3. CASE q = r
  <2>1. sent[r] \in Seq(Events) /\ Shaped(r)
    BY Zenon DEF ReqTypes
  <2>2. CASE sent'[r] = sent[r] /\ (pc'[r] = "ended" <=> pc[r] = "ended")
    BY SMTT(30), <1>3, <2>1, <2>2 DEF Shaped
  <2>3. ASSUME NEW e \in Events \ {"final"}, sent'[r] = Append(sent[r], e), pc[r] # "ended", pc'[r] # "ended"
        PROVE  Shaped(r)'
    BY SMTT(30), <2>1, <2>3 DEF Shaped
  <2>4. CASE pc[r] # "ended" /\ pc'[r] = "ended" /\ sent'[r] = Append(sent[r], "final")
    <3>1. "final" \in Events
      BY Zenon DEF Events
    <3>2. /\ Len(sent'[r]) = Len(sent[r]) + 1 /\ sent'[r][Len(sent[r]) + 1] = "final"
          /\ \A i \in 1 .. Len(sent[r]) : sent'[r][i] = sent[r][i]
          /\ sent'[r] # <<>>
      BY SMTT(30), <2>1, <2>4, <3>1
    <3>3. \A i \in 1 .. Len(sent[r]) : sent[r][i] # "final"
      BY <2>1, <2>4 DEF Shaped
    <3>4. Len(sent[r]) \in Nat
      BY <2>1
    <3>5. \A i \in 1 .. Len(sent'[r]) : sent'[r][i] = "final" => i = Len(sent'[r])
      BY SMTT(30), <3>2, <3>3, <3>4
    <3> QED BY <1>3, <2>4, <3>2, <3>5 DEF Shaped
  <2> QED BY <1>1, <1>3, <2>2, <2>3, <2>4 DEF StreamMove
<1> QED BY <1>2, <1>3

\* A stream sends one final event, as its last, and a stream that ends by
\* itself has sent it (stream_query, stream_chat).
THEOREM StreamsShaped == AnswerSpec => []StreamShape
<1> DEFINE Inv == \A r \in Requests : Shaped(r)
<1>1. AnswerInit => Inv
  BY DEF AnswerInit, Shaped
<1>2. ASSUME Inv, UNCHANGED answerVars PROVE Inv'
  BY <1>2 DEF answerVars, reqVars, Shaped
<1>3. ReqTypes /\ Inv /\ [AnswerNext]_answerVars => Inv'
  BY Zenon, <1>2, ShapeStep DEF AnswerNext, Step
<1>4. ReqTypes /\ Inv => StreamShape
  <2> SUFFICES ASSUME ReqTypes, Inv, NEW r \in Requests
               PROVE  /\ \A i \in DOMAIN sent[r] : sent[r][i] = "final" => i = Len(sent[r]) /\ pc[r] = "ended"
                      /\ pc[r] = "ended" => LastSent(r) = "final"
    BY DEF StreamShape
  <2>1. sent[r] \in Seq(Events) /\ Shaped(r)
    BY DEF ReqTypes
  <2> QED BY <2>1 DEF Shaped, LastSent
<1> HIDE DEF Inv
<1> QED BY <1>1, <1>3, <1>4, RequestsTyped, PTL DEF AnswerSpec

\* What the audit rows of a request that is not a stream say of where it is.
Audited(r) ==
  /\ pc[r] = "returned" => ~IsStream(r)
  /\ pc[r] = "query_error_sent" => IsStream(r)
  /\ ~IsStream(r) /\ "failure" \in audits[r] => pc[r] \in {"query_raised", "raised", "closing", "gone"}
  /\ ~IsStream(r) /\ pc[r] \in {"query_done", "replying", "replied", "saved", "returned"} =>
       "success" \in audits[r]

\* Each step of a request keeps what its audit rows say.
LEMMA AuditStep ==
  ASSUME ReqTypes, NEW r \in Requests, Audited(r), Step(r)
  PROVE  Audited(r)'
<1> USE DEF ReqTypes, Goto, Same, IsStream, Audited
<1>1. CASE Denied(r) \/ Enter(r) \/ AppendUser(r) \/ CommitUser(r) \/ ChatFails(r)
  BY Zenon, <1>1 DEF Denied, Enter, AppendUser, CommitUser, ChatFails
<1>2. CASE Prepare(r) \/ PrepareFails(r) \/ BeginCharge(r) \/ BeginFails(r) \/ ProviderAnswers(r)
  BY Zenon, <1>2 DEF Prepare, PrepareFails, BeginCharge, BeginFails, ProviderAnswers
<1>3. CASE ProviderFails(r) \/ SettlementFails(r) \/ Resettle(r) \/ Extract(r)
  BY Zenon, <1>3 DEF ProviderFails, SettlementFails, Resettle, Extract
<1>4. CASE RecordFails(r) \/ AppendAssistant(r) \/ CommitAssistant(r) \/ Cleanup(r)
  BY Zenon, <1>4 DEF RecordFails, AppendAssistant, CommitAssistant, Cleanup
<1>5. CASE SendCitation(r) \/ SendToken(r) \/ SendQueryError(r) \/ SendError(r) \/ SendErrorFinal(r)
  BY <1>5 DEF SendCitation, SendToken, SendQueryError, SendError, SendErrorFinal
<1>6. CASE RecordSuccess(r)
  <2>1. CASE IsStream(r)
    BY Zenon, <1>6, <2>1 DEF RecordSuccess
  <2>2. CASE ~IsStream(r)
    <3>1. audits'[r] = audits[r] \cup {"success"}
      BY <1>6, <2>2 DEF RecordSuccess, Audit
    <3> QED BY Zenon, <1>6, <2>2, <3>1 DEF RecordSuccess
  <2> QED BY Zenon, <2>1, <2>2
<1>7. CASE RaiseQueryError(r)
  BY ZenonT(30), <1>7 DEF RaiseQueryError
<1>8. CASE RecordStreamFailure(r)
  BY Zenon, <1>8 DEF RecordStreamFailure
<1>9. CASE Respond(r)
  <2>1. CASE IsChat(r)
    BY <1>9, <2>1 DEF Respond
  <2>2. CASE ~IsChat(r) /\ kind[r] = "query"
    BY <1>9, <2>2 DEF Respond
  <2>3. CASE ~IsChat(r) /\ kind[r] # "query"
    BY Zenon, <1>9, <2>3 DEF Respond, IsChat
  <2> QED BY Zenon, <2>1, <2>2, <2>3
<1>10. CASE Reply(r)
  BY <1>10 DEF Reply
<1>11. CASE Cancel(r) \/ Close(r)
  BY <1>11 DEF Cancel, Close
<1> QED BY ZenonT(30), <1>1, <1>2, <1>3, <1>4, <1>5, <1>6, <1>7, <1>8, <1>9, <1>10, <1>11 DEF Step, Advance

\* An answer that query or chat returns has a success row in the audit log and
\* no failure row of the query stands against it (query's mandatory
\* _record_audit).
THEOREM AnswersAudited == AnswerSpec => []AnswerAudited
<1> DEFINE Inv == \A r \in Requests : Audited(r)
<1>1. AnswerInit => Inv
  BY Zenon DEF AnswerInit, Audited
<1>2. ASSUME Inv, UNCHANGED answerVars PROVE Inv'
  BY <1>2 DEF answerVars, reqVars, Audited, IsStream
<1>3. ASSUME ReqTypes, Inv, NEW r \in Requests, Step(r) PROVE Inv'
  <2>1. Audited(r)' /\ Others(r)
    BY Zenon, <1>3, AuditStep, StepLocal
  <2>2. ASSUME NEW q \in Requests, q # r PROVE Audited(q)'
    BY <1>3, <2>1, <2>2 DEF Audited, Others, IsStream
  <2> QED BY <2>1, <2>2
<1>4. ReqTypes /\ Inv /\ [AnswerNext]_answerVars => Inv'
  BY <1>2, <1>3 DEF AnswerNext, Step
<1>5. Inv => AnswerAudited
  BY DEF Audited, AnswerAudited
<1> HIDE DEF Inv
<1> QED BY <1>1, <1>4, <1>5, RequestsTyped, PTL DEF AnswerSpec

\* The type invariant of the answer path, one draft per request included.
THEOREM AnswersTyped == AnswerSpec => []AnswerTypeOK
<1>1. CostInv /\ ReqTypes /\ MemInv => AnswerTypeOK
  <2> SUFFICES ASSUME CostInv, ReqTypes, MemInv PROVE AnswerTypeOK
    OBVIOUS
  <2>1. ASSUME NEW r \in Requests PROVE Len(draft[r]) <= 1
    <3>1. CASE draft[r] = <<>>
      BY <3>1
    <3>2. CASE draft[r] # <<>>
      <4>1. PICK role \in Roles : draft[r] = <<Row(r, role, Len(messages) + 1)>>
        BY <3>2 DEF MemInv, Drafted
      <4> QED BY <4>1
    <3> QED BY <3>1, <3>2
  <2> QED BY Zenon, <2>1 DEF CostInv, ReqTypes, MemInv, Drafted, AnswerTypeOK, Places
<1> QED BY <1>1, AnswersAccountTyped, RequestsTyped, SessionKept, PTL
=============================================================================
