--------------------------- MODULE CostAccounting ---------------------------
(***************************************************************************)
(* packages/billing: the monthly cost account of a tenant and the charges  *)
(* of its provider calls.  CostRepository.reserve and .settle are one      *)
(* database transaction each; CostAccountingService.begin and .finish wrap *)
(* them with a timeout, whose error may hide a commit; the calls of the    *)
(* accounting provider are the steps between them.                         *)
(***************************************************************************)
EXTENDS Integers, FiniteSets

CONSTANTS Calls,        \* invocations: a fresh uuid each (service.py: begin)
          Periods,      \* months, 1..N
          Limit,        \* _limit, in nanos
          Minimum,      \* _minimum, the reservation floor
          Forecasts,    \* what price.cost_nanos may forecast for a request
          Amounts       \* what a priced call may really cost

ASSUME CostAssumption == /\ Periods \subseteq Nat /\ 1 \in Periods
                         /\ Limit \in Nat /\ Minimum \in Nat
                         /\ Forecasts \subseteq Nat /\ Amounts \subseteq Nat

VARIABLES month,    \* the current UTC month
          account,  \* CostAccountModel of each month (a missing row is 0, 0)
          charge    \* UsageChargeModel of each call

costVars == <<month, account, charge>>

Unknown == -1       \* amount_nanos is null

NoCharge == [status |-> "none", period |-> 1, reserved |-> 0, amount |-> Unknown]

Settled == {"completed", "failed", "incomplete"}

\* An account holds what was spent and reserved in a period; a charge is
\* reserved or settled, its amount possibly unknown.
CostTypeOK ==
  /\ month \in Periods
  /\ account \in [Periods -> [spent : Nat, reserved : Int]]
  /\ charge \in [Calls -> [status : {"none", "reserved"} \cup Settled, period : Periods,
                           reserved : Nat, amount : Nat \cup {Unknown}]]

CostInit == /\ month = 1
            /\ account = [p \in Periods |-> [spent |-> 0, reserved |-> 0]]
            /\ charge = [c \in Calls |-> NoCharge]

MonthEnds == /\ month + 1 \in Periods
             /\ month' = month + 1
             /\ UNCHANGED <<account, charge>>

(* begin: the larger of the floor and the forecast.                         *)
Reservation(f) == IF f > Minimum THEN f ELSE Minimum

ForgetsHolds(p, n) == account[p].spent + n <= Limit              \* seeded fault
Fits(p, n) == account[p].spent + account[p].reserved + n <= Limit

(* reserve: the conditional UPDATE and the insert of the charge commit      *)
(* together; an absent account row is created by whichever call is first.   *)
Reserve(c, f) ==
  /\ charge[c].status = "none"
  /\ Fits(month, Reservation(f))
  /\ account' = [account EXCEPT ![month].reserved = @ + Reservation(f)]
  /\ charge' = [charge EXCEPT ![c] = [status |-> "reserved", period |-> month,
                                      reserved |-> Reservation(f), amount |-> Unknown]]
  /\ UNCHANGED month

(* settle: claims the charge once; a known amount replaces the hold in the  *)
(* month that reserved it, an unknown one leaves the hold where it is.      *)
Claimable(c) == charge[c].status = "reserved"
SettledIn(c) == charge[c].period

Settle(c, status, amount) ==
  /\ Claimable(c)
  /\ charge' = [charge EXCEPT ![c].status = status, ![c].amount = amount]
  /\ account' = IF amount = Unknown THEN account
                ELSE [account EXCEPT ![SettledIn(c)].spent = @ + amount,
                                     ![SettledIn(c)].reserved = @ - charge[c].reserved]
  /\ UNCHANGED month

(* A second settlement of the same call finds no row to claim.              *)
SettleAgain(c) == ~Claimable(c) /\ UNCHANGED costVars

(* finish: an error code makes the call failed, and only a priced, split    *)
(* and reported usage gives an amount; a call that ends without metadata    *)
(* has none.                                                                *)
Finish(c, status) == \E a \in Amounts \cup {Unknown} : Settle(c, status, a)
FinishUnknown(c, status) == Settle(c, status, Unknown) \/ SettleAgain(c)

CostNext == \/ MonthEnds
            \/ \E c \in Calls : \/ \E f \in Forecasts : Reserve(c, f)
                                \/ \E s \in Settled : Finish(c, s) \/ FinishUnknown(c, s)

CostSpec == CostInit /\ [][CostNext]_costVars

-----------------------------------------------------------------------------
Outstanding == {c \in Calls : charge[c].status # "none" /\ charge[c].amount = Unknown}

Ledger == INSTANCE CostLedger WITH
            due <- [p \in Periods |-> account[p].spent + account[p].reserved],
            open <- {[call |-> c, period |-> charge[c].period, held |-> charge[c].reserved] :
                       c \in Outstanding}

(* The account implements the ledger: it admits a call only within the      *)
(* month's limit and resolves each hold at most once (reserve and settle).  *)
KeepsLedger == Ledger!LedgerSpec
=============================================================================
