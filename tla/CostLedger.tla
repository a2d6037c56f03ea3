----------------------------- MODULE CostLedger -----------------------------
(***************************************************************************)
(* What the monthly cost account promises, without the account: a tenant's *)
(* liability in a month is the money committed by the calls admitted in    *)
(* that month.  A call is admitted only while the liability it adds keeps  *)
(* the month within its limit, and a call is resolved at most once, into   *)
(* the month that admitted it; until then its whole hold stays due.        *)
(***************************************************************************)
EXTENDS Naturals

CONSTANTS Calls,    \* provider invocations, each with an id of its own
          Periods,  \* accounting months
          Limit     \* the monthly budget

VARIABLES due,      \* [Periods -> Nat]: liability of each month
          open      \* set of [call, period, held] still due in full

ledgerVars == <<due, open>>

Holds == [call : Calls, period : Periods, held : Nat]

LedgerInit == /\ due = [p \in Periods |-> 0]
              /\ open = {}

(* A new hold h is admitted within the limit of its month.                  *)
Admit(h) == /\ h \in Holds
            /\ \A o \in open : o.call # h.call
            /\ due[h.period] + h.held <= Limit
            /\ due' = [due EXCEPT ![h.period] = @ + h.held]
            /\ open' = open \cup {h}

(* The hold h is replaced by what the call really cost, which is never      *)
(* negative: only the part h held can be given back.                        *)
Resolve(h) == /\ h \in open
              /\ due'[h.period] + h.held >= due[h.period]
              /\ due' = [due EXCEPT ![h.period] = due'[h.period]]
              /\ open' = open \ {h}

LedgerNext == \/ \E h \in open' \ open : Admit(h)
              \/ \E h \in open \ open' : Resolve(h)

LedgerSpec == LedgerInit /\ [][LedgerNext]_ledgerVars
=============================================================================
