--------------------------- MODULE ResponseCodes ---------------------------
(***************************************************************************)
(* The table of standard response codes and the decisions taken from it    *)
(* (src/src/common/response-codes.ts).  A code decides four things: whether *)
(* the transaction is final, whether it settles, what the transaction row  *)
(* says, and what becomes of the payment intent.                           *)
(***************************************************************************)

\* ENHANCED_RESPONSE_CODE_MAPPINGS, section by section.
SuccessCodes   == {"0", "100"}
PendingCodes   == [WAITING_BANK     |-> {"1006"}, PENDING         |-> {"1088"},
                   WAITING_CUSTOMER |-> {"1200"}, REQUIRES_ACTION |-> {"1201"}]
BankDeclines   == {"1009", "1015", "1072", "1075"}
SystemErrors   == [FAILED |-> {"1000", "1050", "1051"}, TIMEOUT |-> {"1042"}]
UserActions    == [ABANDONED |-> {"1030", "1084"}, CANCELLED |-> {"1043"},
                   EXPIRED   |-> {"1090"}]
FraudCodes     == {"2000", "2001", "2010"}
RefundCodes    == {"1031", "1032"}
RuleViolations == {"3000", "3001", "3010"}
TimeoutCodes   == [TIMEOUT |-> {"4000", "4001"}, EXPIRED |-> {"4010"}]
Compliance     == {"5000", "5001"}

CodesOfType ==
  [ SUCCESS          |-> SuccessCodes,
    PENDING          |-> PendingCodes.PENDING,
    WAITING_BANK     |-> PendingCodes.WAITING_BANK,
    WAITING_CUSTOMER |-> PendingCodes.WAITING_CUSTOMER,
    REQUIRES_ACTION  |-> PendingCodes.REQUIRES_ACTION,
    FAILED           |-> BankDeclines \cup SystemErrors.FAILED \cup FraudCodes
                           \cup RuleViolations \cup Compliance,
    TIMEOUT          |-> SystemErrors.TIMEOUT \cup TimeoutCodes.TIMEOUT,
    ABANDONED        |-> UserActions.ABANDONED,
    CANCELLED        |-> UserActions.CANCELLED,
    EXPIRED          |-> UserActions.EXPIRED \cup TimeoutCodes.EXPIRED,
    REFUNDED         |-> RefundCodes ]

ResponseTypes == DOMAIN CodesOfType
KnownCodes    == UNION {CodesOfType[t] : t \in ResponseTypes}

TypeOf(code) == CHOOSE t \in ResponseTypes : code \in CodesOfType[t]

OpenTypes == {"PENDING", "WAITING_BANK", "WAITING_CUSTOMER", "REQUIRES_ACTION"}

\* The codes whose canRetry flag is off.
NoRetry == {"0", "100", "1006", "1088", "1200", "1201", "2000", "2001", "1032",
            "3000", "5000", "5001"}

IsFinal(code)           == TypeOf(code) \notin OpenTypes
AffectsSettlement(code) == TypeOf(code) \in {"SUCCESS", "REFUNDED"}

\* Variant: every final code settles.
SettlesWhenFinal(code) == IF code \in KnownCodes /\ IsFinal(code) THEN "credit" ELSE "none"

\* getSettlementEligibility: what the code asks of the merchant's wallet.
Settlement(code) ==
  IF code \notin KnownCodes THEN "none"
  ELSE IF ~AffectsSettlement(code) THEN "none"
  ELSE IF TypeOf(code) = "SUCCESS" THEN "credit"
  ELSE "debit"

\* shouldUpdatePaymentIntent: the intent status a type asks for;
\* a failure depends on canRetry.
IntentStatusOfType ==
  [ SUCCESS          |-> "succeeded",
    PENDING          |-> "processing",
    WAITING_BANK     |-> "processing",
    WAITING_CUSTOMER |-> "processing",
    REQUIRES_ACTION  |-> "processing",
    TIMEOUT          |-> "requires_payment_method",
    ABANDONED        |-> "requires_payment_method",
    CANCELLED        |-> "requires_payment_method",
    EXPIRED          |-> "canceled",
    REFUNDED         |-> "unchanged" ]

IntentStatusFor(code) ==
  IF code \notin KnownCodes THEN "requires_payment_method"
  ELSE IF TypeOf(code) # "FAILED" THEN IntentStatusOfType[TypeOf(code)]
  ELSE IF code \in NoRetry THEN "canceled"
  ELSE "requires_payment_method"

\* Variant: the status word the generic webhooks use, which the column does not know.
RowCompleted(type) == IF type = "SUCCESS" THEN "completed" ELSE "failed"

\* mapResponseTypeToTransactionStatus: the status written on the transaction row.
RowStatusOfType ==
  [ SUCCESS          |-> "success",
    PENDING          |-> "processing",
    WAITING_BANK     |-> "waiting_bank",
    WAITING_CUSTOMER |-> "waiting_customer",
    ABANDONED        |-> "abandoned",
    TIMEOUT          |-> "timeout",
    CANCELLED        |-> "cancelled",
    REFUNDED         |-> "refunded" ]

RowStatusFor(type) ==
  IF type \in DOMAIN RowStatusOfType THEN RowStatusOfType[type] ELSE "failed"

\* The response types the enum column of payment_transactions accepts; saving a
\* row with another type is refused by the database.
StorableTypes == {"SUCCESS", "FAILED", "PENDING", "WAITING_BANK", "ABANDONED", "REFUNDED"}

\* A code the row can be saved with: one in the table, of a storable type.
Storable(code) == code \in KnownCodes /\ TypeOf(code) \in StorableTypes

IntentStatuses == {"requires_payment_method", "requires_confirmation", "requires_action",
                   "processing", "requires_capture", "canceled", "succeeded"}

RowStatuses == {"initiated", "processing", "waiting_bank", "waiting_customer", "success",
                "failed", "timeout", "abandoned", "cancelled", "refunded",
                "partial_refund", "disputed"}

\* mapErrorToResponseCode: the codes an exception of processPayment turns into.
ErrorCodes == {"4000", "1051", "1015", "1009", "2000", "1072", "1075", "1050", "1000"}
============================================================================
