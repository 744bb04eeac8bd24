---------------------------- MODULE PayoutLedger ----------------------------
(***************************************************************************)
(* What payouts promise about the merchant's money, whatever the requests, *)
(* webhooks and polls do in between: it is reserved within the balance,    *)
(* taken only for a payout the provider paid, and given back only for one  *)
(* it did not pay.  Amounts are in units of one payout.                    *)
(***************************************************************************)
EXTENDS Naturals

CONSTANTS Payouts, Balance   \* Balance: how many payouts it can pay

VARIABLES outcome,    \* outcome[o]: "undecided", "paid", "unpaid"
          hold,       \* hold[o]: "none", "active", "debited", "released"
          available   \* what the merchant can still reserve

ledgerVars == <<outcome, hold, available>>

LedgerInit ==
  /\ outcome = [o \in Payouts |-> "undecided"]
  /\ hold = [o \in Payouts |-> "none"]
  /\ available = Balance

Decide(o) ==
  /\ outcome[o] = "undecided"
  /\ \E w \in {"paid", "unpaid"} : outcome' = [outcome EXCEPT ![o] = w]
  /\ UNCHANGED <<hold, available>>

Reserve(o) ==
  /\ hold[o] = "none" /\ available > 0
  /\ hold' = [hold EXCEPT ![o] = "active"]
  /\ available' = available - 1
  /\ UNCHANGED outcome

Take(o) ==
  /\ hold[o] = "active" /\ outcome[o] = "paid"
  /\ hold' = [hold EXCEPT ![o] = "debited"]
  /\ UNCHANGED <<outcome, available>>

GiveBack(o) ==
  /\ hold[o] = "active" /\ outcome[o] = "unpaid"
  /\ hold' = [hold EXCEPT ![o] = "released"]
  /\ available' = available + 1
  /\ UNCHANGED outcome

LedgerNext == \E o \in Payouts : Decide(o) \/ Reserve(o) \/ Take(o) \/ GiveBack(o)

LedgerSpec == LedgerInit /\ [][LedgerNext]_ledgerVars
=============================================================================
