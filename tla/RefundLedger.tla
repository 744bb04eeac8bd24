---------------------------- MODULE RefundLedger ----------------------------
(***************************************************************************)
(* What refunds promise about the merchant's money, whatever the requests, *)
(* webhooks and the hourly job do in between: it is blocked within the     *)
(* balance, each block is settled once, and it is taken only for a refund  *)
(* the provider has carried out.  A block may be given back at any time.   *)
(* Amounts are in units of one refund.                                     *)
(***************************************************************************)
EXTENDS Naturals

CONSTANTS Refunds, Balance

VARIABLES done,        \* the refunds the provider has carried out
          hold,        \* hold[r]: "none", "active", "debited", "released"
          available    \* what the merchant can still spend

ledgerVars == <<done, hold, available>>

LedgerInit ==
  /\ done = {}
  /\ hold = [r \in Refunds |-> "none"]
  /\ available = Balance

CarryOut(r) ==
  /\ r \notin done
  /\ done' = done \cup {r}
  /\ UNCHANGED <<hold, available>>

Hold(r) ==
  /\ hold[r] = "none" /\ available > 0
  /\ hold' = [hold EXCEPT ![r] = "active"]
  /\ available' = available - 1
  /\ UNCHANGED done

Take(r) ==
  /\ hold[r] = "active" /\ r \in done
  /\ hold' = [hold EXCEPT ![r] = "debited"]
  /\ UNCHANGED <<done, available>>

GiveBack(r) ==
  /\ hold[r] = "active"
  /\ hold' = [hold EXCEPT ![r] = "released"]
  /\ available' = available + 1
  /\ UNCHANGED done

LedgerNext == \E r \in Refunds : CarryOut(r) \/ Hold(r) \/ Take(r) \/ GiveBack(r)

LedgerSpec == LedgerInit /\ [][LedgerNext]_ledgerVars
=============================================================================
