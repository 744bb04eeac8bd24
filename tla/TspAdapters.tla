----------------------------- MODULE TspAdapters -----------------------------
(***************************************************************************)
(* The six adapters of src/tsp/adapters: what each makes of its provider's *)
(* answers to createPayment, verifyPayment, getPaymentStatus,              *)
(* refundPayment, createPayout and checkPayoutStatus, and how Kingdom Bank *)
(* addresses a payout.  An answer is the provider's word for the order; a  *)
(* result keeps the two fields callers decide by, success and status.      *)
(* Every adapter catches what its HTTP client throws and answers failed,   *)
(* also when the provider has taken the order and only its answer is lost; *)
(* and what it calls refunded is a refund the provider has only accepted.  *)
(***************************************************************************)
EXTENDS Integers, Sequences, SequencesExt

WebhookSide == INSTANCE ProviderReports

VARIABLES order,    \* the provider's side of one order: its word, whether it was ever paid or returned, its refund
          heard,    \* what the adapter answered last, and to which word
          transfer  \* the payout request Kingdom Bank's adapter was last given, and what it sent

adapterVars == <<order, heard, transfer>>

Adapters == {"kingdom_bank", "sulifu_pay", "payaza", "paytara", "razorpay", "stripe"}

\* The words a provider has for a payment, and for a payout where its adapter makes any.
PaymentWords ==
  [kingdom_bank |-> {"PENDING", "SCHEDULED", "PROCESSED", "FAILED", "CANCELLED"},
   sulifu_pay   |-> {"PROCESSING", "REVIEWING", "SUCCESS", "FAILED_CREATE"},
   payaza       |-> {"pending", "processing", "successful", "success", "completed", "failed", "declined",
                     "cancelled", "reversed", "refunded", "chargeback"},
   paytara      |-> {"initiated", "pending", "captured", "success", "failed", "cancelled"},
   razorpay     |-> {"created", "authorized", "captured", "failed", "refunded"},
   stripe       |-> {"requires_payment_method", "requires_action", "processing", "succeeded", "canceled"}]
PayoutWords ==
  [kingdom_bank |-> PaymentWords.kingdom_bank,
   sulifu_pay   |-> {"PROCESSING", "API_AUDIT", "MANUAL_AUDIT", "SUCCESS", "FAILED_CREATE", "FAILED_PAYMENT"},
   payaza       |-> {"pending", "processing", "successful", "failed", "cancelled", "reversed"},
   paytara      |-> {"0", "1", "2"},
   razorpay     |-> {},
   stripe       |-> {}]
PaidWords     == {"PROCESSED", "SUCCESS", "successful", "success", "completed", "captured", "succeeded", "1"}
ReturnedWords == {"reversed", "refunded", "chargeback"}
DeadWords     == {"FAILED", "CANCELLED", "FAILED_CREATE", "FAILED_PAYMENT", "failed", "declined",
                  "cancelled", "canceled", "2"}

Result(ok, status) == [success |-> ok, status |-> status]
\* What every catch returns.
Broken == Result(FALSE, "failed")

----------------------------------------------------------------------------
\* mapPayazaStatus.  Variant: a payment that was reversed counts as one that was made.
MapPayazaReversed(w) ==
  CASE w \in {"successful", "success", "completed", "reversed", "refunded"} -> "completed"
    [] w \in {"failed", "declined"} -> "failed"
    [] w \in {"processing", "cancelled"} -> w
    [] OTHER -> "pending"
MapPayaza(w) ==
  CASE w \in {"successful", "success", "completed"} -> "completed"
    [] w \in {"failed", "declined"} -> "failed"
    [] w \in {"reversed", "refunded"} -> "refunded"
    [] w \in {"processing", "cancelled"} -> w
    [] OTHER -> "pending"

\* mapPayazaTransferStatus: response_status first, then transaction_status.
TransferStatus(w, code) ==
  CASE w \in {"TRANSACTION_SUCCESSFUL", "TRANSACTION_COMPLETED"} -> "completed"
    [] w \in {"TRANSACTION_FAILED", "DECLINED"} -> "failed"
    [] w = "TRANSACTION_CANCELLED" -> "cancelled"
    [] w = "TRANSACTION_REVERSED" -> "refunded"
    [] OTHER -> IF code = "00" THEN "completed" ELSE "processing"
\* isPayoutInitiated: the code of the response, of the transaction, or the word says so.
PayoutInitiated(responseCode, w, code) ==
  \/ responseCode \in {"200", "00", "09"}
  \/ code \in {"00", "09"}
  \/ w \in {"TRANSACTION_INITIATED", "TRANSACTION_PROCESSING", "TRANSACTION_PENDING",
            "TRANSACTION_SUCCESSFUL", "TRANSACTION_COMPLETED"}

\* mapTransactionStatus of Kingdom Bank.  Variant: a scheduled transaction is as good as done.
MapKingdomBankEager(w) ==
  CASE w \in {"PROCESSED", "SCHEDULED"} -> "completed"
    [] w = "FAILED"    -> "failed"
    [] w = "CANCELLED" -> "cancelled"
    [] OTHER           -> "pending"
MapKingdomBank(w) ==
  CASE w = "PROCESSED" -> "completed"
    [] w = "SCHEDULED" -> "processing"
    [] w = "FAILED"    -> "failed"
    [] w = "CANCELLED" -> "cancelled"
    [] OTHER           -> "pending"

\* mapPaymentStatus and mapPayoutStatus of Sulifu Pay.
MapSulifu(w) ==
  CASE w = "SUCCESS"    -> "completed"
    [] w = "PROCESSING" -> "processing"
    [] w \in {"REVIEWING", "API_AUDIT", "MANUAL_AUDIT"} -> "reviewing"
    [] w \in {"FAILED_CREATE", "FAILED_PAYMENT"} -> "failed"
    [] OTHER            -> "pending"

MapPaytara(w) ==
  CASE w \in {"captured", "success"} -> "completed"
    [] w \in {"failed", "cancelled"} -> w
    [] OTHER -> "pending"
MapRazorpay(w) ==
  CASE w = "captured" -> "completed"
    [] w \in {"failed", "authorized"} -> w
    [] OTHER -> "pending"
MapStripe(w) ==
  CASE w = "succeeded" -> "completed"
    [] w = "canceled"  -> "cancelled"
    [] w \in {"requires_action", "requires_payment_method", "processing"} -> w
    [] OTHER -> "pending"

----------------------------------------------------------------------------
GetPaymentStatus(p, w) ==
  LET status == CASE p = "kingdom_bank" -> MapKingdomBank(w)
                  [] p = "sulifu_pay"   -> MapSulifu(w)
                  [] p = "payaza"       -> MapPayaza(w)
                  [] p = "paytara"      -> MapPaytara(w)
                  [] p = "razorpay"     -> MapRazorpay(w)
                  [] OTHER              -> MapStripe(w)
  IN Result(status = "completed", status)

\* verifyPayment.  Paytara completes on captured only and otherwise answers the raw word, as Razorpay
\* does without a signature (no caller passes one); Payaza succeeds on two of its three spellings.
PaytaraVerify(w)  == IF w = "captured" THEN Result(TRUE, "completed") ELSE Result(FALSE, w)
RazorpayVerify(w) == Result(FALSE, w)
PayazaVerify(w)   == Result(w \in {"successful", "success"}, MapPayaza(w))
SulifuVerify(w)   == IF w = "SUCCESS" THEN Result(TRUE, "completed") ELSE Result(FALSE, MapSulifu(w))
KingdomBankVerify(w) == Result(w = "PROCESSED", MapKingdomBank(w))
VerifyPayment(p, w) ==
  CASE p = "paytara"      -> PaytaraVerify(w)
    [] p = "razorpay"     -> RazorpayVerify(w)
    [] p = "payaza"       -> PayazaVerify(w)
    [] p = "sulifu_pay"   -> SulifuVerify(w)
    [] p = "kingdom_bank" -> KingdomBankVerify(w)
    [] OTHER              -> GetPaymentStatus(p, w)

\* checkPayoutStatus, which three adapters have: Paytara's succeeds whatever it finds.
PayazaPayout(w)  == Result(MapPayaza(w) = "completed", MapPayaza(w))
SulifuPayout(w)  == Result(w = "SUCCESS", MapSulifu(w))
PaytaraPayout(w) == Result(TRUE, CASE w = "1" -> "completed" [] w = "2" -> "failed" [] OTHER -> "processing")
CheckPayoutStatus(p, w) ==
  CASE p = "payaza" -> PayazaPayout(w) [] p = "sulifu_pay" -> SulifuPayout(w) [] OTHER -> PaytaraPayout(w)

\* createPayment of an order the provider has taken; only Payaza's may complete or be challenged at once.
PaymentCreated(p, w) ==
  IF p # "payaza" THEN {Result(TRUE, "created")}
  ELSE IF w = "completed" THEN {Result(TRUE, "completed")}
  ELSE {Result(TRUE, "pending"), Result(TRUE, "requires_action")}

\* createPayout of an order the provider has taken.  Payaza tells its word in a spelling of its own, with
\* a response code and a transaction code, and an answer that does not say "initiated" counts as a refusal.
PayazaTransferWord ==
  [w \in PayoutWords.payaza |->
     CASE w = "successful" -> "TRANSACTION_SUCCESSFUL"
       [] w = "failed"     -> "TRANSACTION_FAILED"
       [] w = "cancelled"  -> "TRANSACTION_CANCELLED"
       [] w = "reversed"   -> "TRANSACTION_REVERSED"
       [] OTHER            -> "TRANSACTION_PROCESSING"]
PayazaPayoutAnswer(w, response, code) ==
  IF PayoutInitiated(response, PayazaTransferWord[w], code)
  THEN Result(TRUE, TransferStatus(PayazaTransferWord[w], code)) ELSE Broken
PayazaCodes(w) == {"none", IF w \in PaidWords THEN "00" ELSE "09"}
PayazaPayoutCreated(w) ==
  {PayazaPayoutAnswer(w, response, code) : response \in {"200", "400"}, code \in PayazaCodes(w)}
PayoutCreated(p, w) ==
  CASE p = "kingdom_bank" -> {Result(TRUE, MapKingdomBank(w))}
    [] p = "sulifu_pay"   -> {Result(TRUE, "processing")}
    [] p = "paytara"      -> {Result(TRUE, IF w = "1" THEN "completed" ELSE "processing")}
    [] OTHER              -> PayazaPayoutCreated(w)

----------------------------------------------------------------------------
\* The beneficiary fields Kingdom Bank's payouts turn on.
Fields     == {"account", "iban", "vpa", "swift", "bic", "ifsc", "bankName", "routing", "accountType", "document"}
\* A country is two letters of the request, or the two or three a merchant has put into its metadata; those
\* the adapter has no branch for ("GB", and "DEU", which stands for "IND" and "CAN" too) are treated alike.
Countries  == {"IN", "US", "DE", "BR", "CA", "GB", "USA", "BRA", "DEU"}
Currencies == {"USD", "EUR", "USDT", "XRP"}

\* validatePayoutData and buildDestination each have their own idea of what is crypto.
CheckedAsCrypto(currency) == currency \in {"BTC", "ETH", "USDT", "USDC", "BNB", "TRX"}
\* Variant: the coins the bank has under the name the engine has for them.
SentAsCryptoListed(currency) == currency \in {"BTC", "ETH", "XRP", "SOL", "DOGE", "ADA"}
SentAsCrypto(currency)    == currency \in {"BTC", "ETH", "USDT", "USDC", "XRP", "SOL", "DOGE", "ADA", "TRX", "BNB"}
\* "DE" stands for the twenty-seven countries of the list, which has them by two letters only.
European(country, currency) == country = "DE" \/ currency = "EUR"

\* validatePayoutData.  Variant: only the country tells a European transfer.
ValidByCountry(country, currency, has) ==
  /\ country \in {"BR", "BRA"} => "document" \in has
  /\ has \cap {"account", "iban", "vpa"} # {}
  /\ ~CheckedAsCrypto(currency) /\ country # "CA" =>
       /\ European(country, "any") =>
            has \cap {"iban", "account"} # {} /\ has \cap {"swift", "bic", "ifsc"} # {} /\ "bankName" \in has
       /\ country = "IN" => "ifsc" \in has
       /\ country \in {"US", "USA"} => {"routing", "accountType"} \subseteq has
ValidPayoutData(country, currency, has) ==
  /\ country \in {"BR", "BRA"} => "document" \in has
  /\ has \cap {"account", "iban", "vpa"} # {}
  /\ ~CheckedAsCrypto(currency) /\ country # "CA" =>
       IF European(country, currency)
       THEN has \cap {"iban", "account"} # {} /\ has \cap {"swift", "bic", "ifsc"} # {} /\ "bankName" \in has
       ELSE /\ country = "IN" => "ifsc" \in has
            /\ country \in {"US", "USA"} => {"routing", "accountType"} \subseteq has

\* buildDestination: the kind, and the parts that are not left undefined.  An IBAN goes out instead of the
\* account number, and to Europe only; a country of three letters is no Indian, Canadian or European one.
Destination(country, currency, has) ==
  LET Part(fields, part) == IF has \cap fields = {} THEN {} ELSE {part}
      Account     == Part({"account"}, "account")
      BicSwift    == Part({"swift", "bic", "ifsc"}, "bicSwift")
      Bank(parts) == [kind |-> "BANK_ACCOUNT", parts |-> parts]
  IN IF SentAsCrypto(currency) THEN [kind |-> "CRYPTO_WALLET", parts |-> Account]
     ELSE IF country = "BR" /\ "vpa" \in has
     THEN [kind |-> "PIX_ACCOUNT", parts |-> Account \cup {"key", "document"}]
     ELSE IF country = "CA" THEN [kind |-> "INTERAC_ACCOUNT", parts |-> {"holder"}]
     ELSE IF European(country, currency) THEN Bank((IF "iban" \in has THEN {"iban"} ELSE Account) \cup BicSwift)
     ELSE CASE country = "IN" -> Bank(Account \cup Part({"ifsc"}, "bankCode"))
            [] country \in {"US", "USA"} ->
                 Bank(Account \cup Part({"routing"}, "bankCode") \cup Part({"swift", "bic"}, "bicSwift"))
            [] OTHER ->
                 Bank(Account \cup BicSwift
                        \cup Part(IF "swift" \in has THEN {"routing"} ELSE {"routing", "ifsc"}, "bankCode"))

\* resolveAccountReference of Payaza: the first source that has one.
ReferenceSources == <<"metadata", "payout", "credentials", "cache", "accounts", "enquiry">>
AccountReference(available) ==
  LET found == SelectSeq(ReferenceSources, LAMBDA source : source \in available)
  IN IF found = << >> THEN "none" ELSE found[1]
\* The guards of Payaza's createPayout, and validatePayoutRequest of Sulifu Pay.
PayoutAccepted(p, available, pin, bankCode, account) ==
  CASE p = "payaza"     -> AccountReference(available) # "none" /\ pin /\ bankCode /\ account
    [] p = "sulifu_pay" -> bankCode /\ account
    [] OTHER            -> TRUE

----------------------------------------------------------------------------
NoOrder    == [by |-> "none"]
NoTransfer == [sent |-> FALSE]
AdaptersInit ==
  /\ order = NoOrder
  /\ heard = [op |-> "none"]
  /\ transfer = NoTransfer

Order(p, kind, w) ==
  [by |-> p, kind |-> kind, word |-> w, paid |-> w \in PaidWords, returned |-> w \in ReturnedWords, refund |-> "none"]
Hear(op, w, r) == heard' = [op |-> op, word |-> w, answered |-> TRUE, success |-> r.success, status |-> r.status]
HearNothing(op) ==
  heard' = [op |-> op, word |-> "none", answered |-> FALSE, success |-> Broken.success, status |-> Broken.status]

CreatePayment(p) ==
  /\ order = NoOrder /\ transfer = NoTransfer
  /\ \/ order' = NoOrder /\ HearNothing("createPayment")
     \/ \E w \in PaymentWords[p] \ (ReturnedWords \cup DeadWords) :
          /\ order' = Order(p, "payment", w)
          /\ HearNothing("createPayment")
             \/ \E r \in PaymentCreated(p, w) : Hear("createPayment", w, r)
  /\ UNCHANGED transfer

CreatePayout(p) ==
  /\ order = NoOrder /\ transfer = NoTransfer
  /\ PayoutWords[p] # {}
  /\ \E available \in SUBSET {"credentials", "cache", "accounts"}, pin, bankCode, account \in BOOLEAN :
       IF PayoutAccepted(p, available, pin, bankCode, account)
       THEN \E w \in PayoutWords[p] :
              /\ order' = Order(p, "payout", w)
              /\ HearNothing("createPayout")
                 \/ \E r \in PayoutCreated(p, w) : Hear("createPayout", w, r)
       ELSE order' = NoOrder /\ HearNothing("createPayout")
  /\ UNCHANGED transfer

\* The provider moves the order on: what is open may end, what is paid may come back.
Progress ==
  /\ order # NoOrder
  /\ \E w \in IF order.kind = "payout" THEN PayoutWords[order.by] ELSE PaymentWords[order.by] :
       /\ w # order.word
       /\ order.word \notin DeadWords \cup ReturnedWords
       /\ order.word \in PaidWords => w \in PaidWords \cup ReturnedWords
       /\ w \in ReturnedWords => order.word \in PaidWords
       /\ order' = [order EXCEPT !.word = w, !.paid = @ \/ w \in PaidWords,
                                 !.returned = @ \/ w \in ReturnedWords]
  /\ UNCHANGED <<heard, transfer>>

Ask ==
  /\ order # NoOrder
  /\ \/ /\ order.kind = "payment"
        /\ \/ Hear("verifyPayment", order.word, VerifyPayment(order.by, order.word))
           \/ Hear("getPaymentStatus", order.word, GetPaymentStatus(order.by, order.word))
           \/ HearNothing("verifyPayment")
     \/ /\ order.kind = "payout"
        /\ order.by # "kingdom_bank"
        /\ \/ Hear("checkPayoutStatus", order.word, CheckPayoutStatus(order.by, order.word))
           \/ HearNothing("checkPayoutStatus")
  /\ UNCHANGED <<order, transfer>>

\* refundPayment; Sulifu Pay has no refunds, Kingdom Bank takes only a numeric id.  The provider has taken
\* the refund on, and whatever word it has for it the adapter answers refunded.
CanRefund(p, numericId) == p # "sulifu_pay" /\ (p = "kingdom_bank" => numericId)
RefundPayment(numericId) ==
  /\ order # NoOrder /\ order.kind = "payment" /\ order.paid
  /\ CanRefund(order.by, numericId)
  /\ order' = [order EXCEPT !.refund = "accepted"]
  /\ Hear("refundPayment", "none", Result(TRUE, "refunded")) \/ HearNothing("refundPayment")
  /\ UNCHANGED transfer
\* The provider carries an accepted refund out, or does not after all.
RefundEnds ==
  /\ order # NoOrder /\ order.refund = "accepted"
  /\ \/ order' = [order EXCEPT !.refund = "made", !.returned = TRUE]
     \/ order' = [order EXCEPT !.refund = "declined"]
  /\ UNCHANGED <<heard, transfer>>
RefundRefused ==
  /\ order # NoOrder /\ order.kind = "payment"
  /\ HearNothing("refundPayment")
  /\ UNCHANGED <<order, transfer>>

\* Kingdom Bank's createPayout up to the request it sends.
Address ==
  /\ order = NoOrder /\ transfer = NoTransfer
  /\ \E country \in Countries, currency \in Currencies, has \in SUBSET Fields :
       /\ ValidPayoutData(country, currency, has)
       /\ transfer' = [sent |-> TRUE, country |-> country, currency |-> currency, has |-> has,
                       to |-> Destination(country, currency, has)]
  /\ UNCHANGED <<order, heard>>

AdaptersNext ==
  \/ \E p \in Adapters : CreatePayment(p) \/ CreatePayout(p)
  \/ Progress \/ Ask \/ RefundEnds \/ RefundRefused \/ Address
  \/ \E numericId \in BOOLEAN : RefundPayment(numericId)

AdaptersSpec == AdaptersInit /\ [][AdaptersNext]_adapterVars

----------------------------------------------------------------------------
\* What an adapter hears from its provider is true of the order: completed only what was paid, whichever
\* call was answered and whatever answers were lost before; refunded by a poll only what went back.  The
\* same word from refundPayment says less, that the provider has taken the refund on; and failed may be a
\* lost answer, so it says nothing at all (the catch of every call).
HeardHappened ==
  heard.op # "none" =>
    /\ heard.status = "completed" => order.paid
    /\ heard.status = "refunded"  => IF heard.op = "refundPayment" THEN order.refund # "none" ELSE order.returned

\* A poll and a webhook that tell the same word agree (verifyPayment and getPaymentStatus against the
\* tables of webhooks/handlers): paid is heard as paid, and a failure or a refund never the other way.
PollsAgreeWithReports ==
  heard.op \in {"verifyPayment", "getPaymentStatus"} /\ heard.answered =>
    \A r \in WebhookSide!Reports :
      r.from = order.by /\ r.status = heard.word =>
        LET told == WebhookSide!NewStatus(r) IN
          /\ (heard.status = "completed") = (told = "success")
          /\ heard.status \in {"failed", "cancelled"} => told \in {"failed", "cancelled"}
          /\ heard.status = "refunded" => told = "refunded"

\* The part of a destination that tells the beneficiary: the account, in Europe the IBAN where there is one.
Beneficiary(country, currency, has, to) ==
  IF to.kind = "BANK_ACCOUNT" /\ European(country, currency) /\ "iban" \in has THEN "iban" ELSE "account"

\* A transfer Kingdom Bank's adapter lets through for a beneficiary with an account number, which every
\* request has (payout.dto.ts:33), names that account or its IBAN, and the bank it is at where the country
\* or the currency asks for one: validatePayoutData and buildDestination branch on country and currency
\* separately and must agree.  India, Canada and Europe are so only by two letters: what three letters
\* of metadata name goes out as "other" countries do, with an account and perhaps no bank.
TransfersAddressed ==
  transfer.sent /\ "account" \in transfer.has =>
    LET to       == transfer.to
        european == European(transfer.country, transfer.currency)
    IN /\ to.kind # "INTERAC_ACCOUNT" =>
            Beneficiary(transfer.country, transfer.currency, transfer.has, to) \in to.parts
       /\ to.kind = "BANK_ACCOUNT" =>
            /\ european => "bicSwift" \in to.parts
            /\ transfer.country \in {"IN", "US", "USA"} /\ ~european => "bankCode" \in to.parts

\* What the engine hears of a provider is true when it says that money moved, and the same by a poll as by a
\* webhook (the mapping tables of the adapters against those of the handlers, with answers lost on the way).
AnswersAgree == HeardHappened /\ PollsAgreeWithReports
=============================================================================
