-------------------------- MODULE ProviderReports --------------------------
(***************************************************************************)
(* What a payment provider says in a webhook, and what the three payment   *)
(* handlers make of it: the row status they compare with, the response     *)
(* code they pass on, the intent status they write themselves and the      *)
(* event they send the merchant.                                           *)
(*                                                                         *)
(* A report is a record: from is the provider, status the provider's word, *)
(* tag the one further field that matters ("id": Kingdom Bank names its    *)
(* own transaction id; "00": Payaza adds a raw response code).             *)
(***************************************************************************)
EXTENDS ResponseCodes

Report(from, status, tag) == [from |-> from, status |-> status, tag |-> tag]

KingdomBankReports == {Report("kingdom_bank", w, t) :
    w \in {"PROCESSED", "PENDING", "SCHEDULED", "FAILED", "CANCELLED"}, t \in {"id", "none"}}

SulifuReports == {Report("sulifu_pay", w, "none") :
    w \in {"SUCCESS", "PROCESSING", "REVIEWING", "FAILED_CREATE"}}

\* resolvePayazaStatus folds the provider's spellings into these words.
PayazaWords == {"successful", "processing", "failed", "cancelled", "timeout",
                "refunded", "reversed", "chargeback"}
PayazaReports == {Report("payaza", w, t) : w \in PayazaWords, t \in {"none", "00"}}

Reports == KingdomBankReports \cup SulifuReports \cup PayazaReports
Providers == {"kingdom_bank", "sulifu_pay", "payaza"}

----------------------------------------------------------------------------
\* The words for a payment that was made, and for one that went back to the customer.
SaysReturned(r) == r.from = "payaza" /\ r.status \in {"refunded", "reversed", "chargeback"}
SaysPaid(r)     == r.status \in {"PROCESSED", "SUCCESS", "successful"}

----------------------------------------------------------------------------
\* mapStatusToTransactionStatus / mapStatusToResponseCode of Kingdom Bank.
KingdomBankRow == [PROCESSED |-> "success", PENDING |-> "processing",
                   SCHEDULED |-> "processing", FAILED |-> "failed",
                   CANCELLED |-> "cancelled"]
KingdomBankCode == [PROCESSED |-> "0", PENDING |-> "1088", SCHEDULED |-> "1088",
                    FAILED |-> "1009", CANCELLED |-> "1030"]

\* mapDepositStatusToTransactionStatus / mapDepositStatusToResponseCode of Sulifu Pay.
SulifuRow == [SUCCESS |-> "success", PROCESSING |-> "processing",
              REVIEWING |-> "processing", FAILED_CREATE |-> "failed"]
SulifuCode == [SUCCESS |-> "0", PROCESSING |-> "1088", REVIEWING |-> "1088",
               FAILED_CREATE |-> "1009"]

\* mapPayazaStatusToTransactionStatus, and the code resolvePayazaStatus settles on
\* when the report carries none ("timeout" falls through to the processing code).
PayazaRow == [successful |-> "success", processing |-> "processing", failed |-> "failed",
              cancelled |-> "cancelled", timeout |-> "timeout", refunded |-> "refunded",
              reversed |-> "refunded", chargeback |-> "chargeback"]
PayazaCode == [successful |-> "0", processing |-> "1088", failed |-> "1000",
               cancelled |-> "1043", timeout |-> "1088", refunded |-> "0",
               reversed |-> "0", chargeback |-> "0"]

\* The row status a handler compares the stored one with.
NewStatus(r) ==
  IF r.from = "kingdom_bank" THEN KingdomBankRow[r.status]
  ELSE IF r.from = "sulifu_pay" THEN SulifuRow[r.status]
  ELSE PayazaRow[r.status]

\* The response code it hands to updateTransactionStatus; Payaza's raw code wins.
CodeOf(r) ==
  IF r.from = "kingdom_bank" THEN KingdomBankCode[r.status]
  ELSE IF r.from = "sulifu_pay" THEN SulifuCode[r.status]
  ELSE IF r.tag = "none" THEN PayazaCode[r.status]
  ELSE r.tag

\* Variant: every report that is no failure counts as a success.
OwnWriteUnlessFailed(r) ==
  IF r.status \in {"FAILED", "FAILED_CREATE", "failed", "cancelled"} THEN "canceled" ELSE "succeeded"

\* The status the handler itself writes on the intent afterwards ("unchanged": none).
OwnIntentWrite(r) ==
  IF SaysPaid(r) THEN "succeeded"
  ELSE IF r.status \in {"FAILED", "FAILED_CREATE", "cancelled"} THEN "canceled"
  ELSE IF r.status = "failed" THEN "requires_payment_method"
  ELSE "unchanged"

\* Variant: the two-valued event of Sulifu Pay and Payaza, turned the other way round.
EventUnlessFailed(r) ==
  IF r.status \in {"FAILED", "FAILED_CREATE", "failed"} THEN "payment.failed" ELSE "payment.success"

\* The event delivered to the merchant: Sulifu Pay and Payaza know only two.
MerchantEvent(r) ==
  IF SaysPaid(r) THEN "payment.success"
  ELSE IF r.status \in {"PENDING", "SCHEDULED"} THEN "payment.pending"
  ELSE "payment.failed"
============================================================================
