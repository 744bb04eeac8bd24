---------------------------- MODULE Instructions ----------------------------
(***************************************************************************)
(* What providers are told to collect and to pay out, from what customers  *)
(* and merchants have filled in: Kingdom Bank's checkouts of fiat and      *)
(* crypto intents, the payout forms PayoutService offers, and the          *)
(* transfers Kingdom Bank and Payaza are given for them.  A form is the    *)
(* country it names ("none": left out), a currency, a payout type and the  *)
(* set of beneficiary fields that are filled in.                           *)
(***************************************************************************)
EXTENDS TspAdapters

VARIABLE instruction   \* the last thing a provider was told, or refused to be

NoInstruction == [to |-> "nobody"]
Refused       == [to |-> "refused"]

InstructionsInit == instruction = NoInstruction

----------------------------------------------------------------------------
\* mapToKingdomBankCurrency: the coin, and the network where the bank has it on two.
Coins        == {"BTC", "ETH", "USDT", "USDC", "BNB", "XRP", "SOL", "DOGE", "ADA", "TRX"}
Stable       == {"USDT", "USDC"}
BanksCoins   == {<<c, "own">> : c \in {"BTC", "ETH", "XRP", "SOL", "DOGE", "ADA"}}
                  \cup (Stable \X {"ERC20", "TRC20"})
Unsupported  == {"BNB", "TRX"}
\* Variant: only the payout side knows which coins the bank does not take.
MappableAll(currency) == TRUE
Mappable(currency)    == currency \notin Unsupported
ToKingdomBank(currency, network) ==
  <<currency, IF currency \in Stable THEN (IF network = "none" THEN "TRC20" ELSE network) ELSE "own">>

CryptoCheckout(currency, asset) ==
  [to |-> "kingdom_bank", flow |-> "CRYPTO", method |-> "crypto", of |-> currency, asset |-> asset]
PlainCheckout(method, currency, asset) ==
  [to |-> "kingdom_bank", flow |-> "CHECKOUT", method |-> method, of |-> currency, asset |-> asset]

\* createPayment of Kingdom Bank: coins for coins, fiat for coins (on-ramping), and all else as it is,
\* coins for fiat (off-ramping) among it.  The method is whatever word the customer's device sends, fiat
\* when it sends none; a coin under any other word is mapped by nobody.  Confirmations name no network;
\* the request could.
Charge(currency, method, network) ==
  instruction' =
    IF SentAsCrypto(currency) /\ method \in {"fiat", "crypto"}
    THEN IF ~Mappable(currency) THEN Refused
         ELSE IF method = "crypto" THEN CryptoCheckout(currency, ToKingdomBank(currency, network))
         ELSE PlainCheckout(method, currency, ToKingdomBank(currency, network))
    ELSE PlainCheckout(method, currency, <<currency, "own">>)

\* mapCountryCode: three letters stay as they are; a country the table does not list becomes India, fifteen
\* of the European ones among them, though buildDestination pays them as European.  The table is as long
\* as the countries of this module need.
Listed3    == [IN |-> "IND", US |-> "USA", GB |-> "GBR", CA |-> "CAN", AU |-> "AUS", SG |-> "SGP",
               AE |-> "ARE", DE |-> "DEU", FR |-> "FRA", BR |-> "BRA", NG |-> "NGA", KE |-> "KEN",
               GH |-> "GHA", TZ |-> "TZA", UG |-> "UGA", CM |-> "CMR", ZA |-> "ZAF"]
ThreeLetters == {Listed3[c] : c \in DOMAIN Listed3}
Country3(country) ==
  IF country \in ThreeLetters THEN country
  ELSE IF country \in DOMAIN Listed3 THEN Listed3[country] ELSE "IND"

----------------------------------------------------------------------------
\* getAvailablePayoutMethods: the required fields, with the account the request must have anyway.
Method(currencies, countries, type, has) ==
  [currencies |-> currencies, countries |-> countries, type |-> type, has |-> has]
BankAccountInr == Method({"INR"}, {"IN"}, "neft", {"account", "ifsc", "mobile"})
Upi            == Method({"INR"}, {"IN"}, "upi", {"account", "vpa"})
BankAccountInternational ==
  Method({"USD", "EUR", "GBP", "AED"}, {"US", "GB", "AE", "SG", "AU", "CA"}, "bank_transfer",
         {"account", "swift", "bankName"})
CryptoWallet   == Method({"BTC", "ETH", "USDT", "USDC"}, {}, "crypto", {"account"})
OfferedMethods ==
  [bank_account_inr |-> BankAccountInr, upi |-> Upi,
   bank_account_international |-> BankAccountInternational, crypto_wallet |-> CryptoWallet]
Form(method, country, currency, has) ==
  [method |-> method, country |-> country, currency |-> currency, has |-> has]
Filled(m, country, currency, more) == Form(m, country, currency, OfferedMethods[m].has \cup more)
Optional == SUBSET {"iban", "routing", "accountType"}
\* The request names a country by two letters; the form's metadata may by three.
Namings(countries) == {"none"} \cup countries \cup {Listed3[c] : c \in countries \cap DOMAIN Listed3}
FormsOf(m) ==
  LET offered == OfferedMethods[m]
  IN {Filled(m, country, currency, more) :
        country \in Namings(offered.countries), currency \in offered.currencies, more \in Optional}
OfferedForms == UNION {FormsOf(m) : m \in DOMAIN OfferedMethods}

\* extractCountryFromPayoutDetails: the country named, else the currency's, else the United States.
CountryOfCurrency ==
  [INR |-> "IN", USD |-> "US", EUR |-> "DE", GBP |-> "GB", AED |-> "AE", SGD |-> "SG", AUD |-> "AU",
   CAD |-> "CA", NGN |-> "NG", GHS |-> "GH", KES |-> "KE", TZS |-> "TZ", UGX |-> "UG", XAF |-> "CM",
   XOF |-> "BJ", ZAR |-> "ZA"]
CountryOf(form) ==
  IF form.country # "none" THEN form.country
  ELSE IF form.currency \in DOMAIN CountryOfCurrency THEN CountryOfCurrency[form.currency] ELSE "US"

\* createPayout of Kingdom Bank.
TransferByBank(form) ==
  LET country == CountryOf(form)
  IN instruction' =
       IF ValidPayoutData(country, form.currency, form.has)
            /\ (SentAsCrypto(form.currency) => Mappable(form.currency))
       THEN [to |-> "kingdom_bank", form |-> form,
             destination |-> Destination(country, form.currency, form.has), country |-> Country3(country)]
       ELSE Refused

----------------------------------------------------------------------------
\* resolveTransactionType of Payaza: the type that is given, in the payout or its metadata, else the account
\* type decides, else the payout type, which is any word over gRPC, else the currency.
PayazaTypes ==
  [NGN |-> "nuban", GHS |-> "ghipps", KES |-> "kepss", TZS |-> "tiss", UGX |-> "mobile_money",
   XOF |-> "mobile_money", XAF |-> "mobile_money", ZAR |-> "RTC"]
Wallets == {"mobile", "wallet"}
TransactionType(currency, accountType, payoutType, given) ==
  CASE given # "none" -> given
    [] given = "none" /\ accountType \in Wallets -> "mobile_money"
    [] given = "none" /\ accountType \in {"ghipps", "kepss", "tiss"} -> accountType
    [] given = "none" /\ accountType = "rtc" -> "RTC"
    [] OTHER -> IF payoutType \in Wallets THEN "mobile_money"
                ELSE IF currency \in DOMAIN PayazaTypes THEN PayazaTypes[currency] ELSE "nuban"

FirstOf(candidates, has) ==
  LET First(i) == candidates[i] \in has /\ \A j \in 1 .. i - 1 : candidates[j] \notin has
  IN IF \E i \in DOMAIN candidates : First(i) THEN candidates[CHOOSE i \in DOMAIN candidates : First(i)] ELSE "none"
BankCode(has) == FirstOf(<<"bankCode", "ifsc", "bic", "metadata">>, has)
\* resolveAccountNumber: wallets by their mobile number, accounts by their own; and when there is none,
\* whatever number there is.  Variant: a mobile number first, whatever the type.
AccountNumberMobile(type, has) == FirstOf(<<"mobile", "account", "metadata", "phone">>, has)
AccountNumber(type, has) ==
  FirstOf(IF type = "mobile_money" THEN <<"mobile", "account", "metadata", "phone">>
          ELSE <<"account", "mobile", "metadata", "phone">>, has)

\* performAccountNameEnquiry: the name the bank has for the account replaces the merchant's, unchecked.
NameSent(type, has, answered) ==
  IF type = "nuban" /\ "account" \in has /\ answered THEN "banks" ELSE "merchants"
\* resolveCountryAlpha3: three letters stay as they are, of two letters only the listed ones are sent at all.
\* The currency's own country is never asked for, since PayoutService always names one.
Alpha3 == [NG |-> "NGA", GH |-> "GHA", KE |-> "KEN", TZ |-> "TZA", UG |-> "UGA", CM |-> "CMR",
           BJ |-> "BEN", BF |-> "BFA", CI |-> "CIV", SN |-> "SEN", ML |-> "MLI", NE |-> "NER", TG |-> "TGO",
           ZA |-> "ZAF", RW |-> "RWA", BW |-> "BWA", CD |-> "COD"]
PayazaCountry(country) ==
  IF country \in ThreeLetters THEN country
  ELSE IF country \in DOMAIN Alpha3 THEN Alpha3[country] ELSE "none"

\* Requests over gRPC are not validated, and may leave the account out.
PayazaForms ==
  {Form("api", country, currency, has) :
     country \in {"none", "NG", "NGA", "US"}, currency \in {"NGN", "UGX", "KES", "USD"},
     has \in SUBSET {"account", "mobile", "phone", "bankCode", "bic"}}
\* createPayout of Payaza.
TransferByPayaza(form, accountType, payoutType, given, answered) ==
  LET type    == TransactionType(form.currency, accountType, payoutType, given)
      code    == BankCode(form.has)
      account == AccountNumber(type, form.has)
  IN instruction' =
       IF code = "none" \/ account = "none" THEN Refused
       ELSE [to |-> "payaza", form |-> form, type |-> type, bank |-> code, account |-> account,
             name |-> NameSent(type, form.has, answered), country |-> PayazaCountry(CountryOf(form))]

\* Every instruction is one request of its own: nothing is kept between them.
InstructionsNext ==
  /\ instruction = NoInstruction
  /\ \/ \E currency \in Coins \cup {"EUR", "INR"}, method \in {"fiat", "crypto", "card"},
           network \in {"none", "ERC20", "TRC20"} : Charge(currency, method, network)
     \/ \E form \in OfferedForms : TransferByBank(form)
     \/ \E form \in PayazaForms, accountType \in {"none", "wallet", "ghipps"}, payoutType \in {"none", "wallet"},
           given \in {"none", "nuban", "mobile_money"}, answered \in BOOLEAN :
          TransferByPayaza(form, accountType, payoutType, given, answered)

\* Instructions and the adapters' other answers, in any order.
TellingNext ==
  \/ InstructionsNext /\ UNCHANGED adapterVars
  \/ AdaptersNext /\ UNCHANGED instruction
InstructionsSpec == InstructionsInit /\ AdaptersInit /\ [][TellingNext]_<<instruction, adapterVars>>

----------------------------------------------------------------------------
\* What Kingdom Bank is asked to collect is the intent's own currency, and a coin, when the customer pays by
\* fiat or by crypto, only as one of those the bank takes, on a network: three lists of coins (the
\* routing's, the mapping's, the bank's) agree.  Under any other word a coin goes out unmapped, one the
\* bank does not take among them, and nothing is said of it here (kingdom-bank.adapter.ts:117).
CollectedInItsAsset ==
  instruction.to = "kingdom_bank" /\ "asset" \in DOMAIN instruction =>
    /\ instruction.asset[1] = instruction.of
    /\ SentAsCrypto(instruction.of) /\ instruction.method \in {"fiat", "crypto"} => instruction.asset \in BanksCoins

\* A form the engine offers, filled in as it asks and however its country is spelled, is turned down or sent
\* to the account it names, in Europe to its IBAN, in the kind of transfer it was offered as: wallets for
\* coins, bank accounts for the rest.  Canada by its two letters apart, where every transfer that is not
\* of coins goes by Interac to the holder.
OfferedFormsArrive ==
  instruction.to = "kingdom_bank" /\ "form" \in DOMAIN instruction =>
    LET form  == instruction.form
        to    == instruction.destination
        coins == form.method = "crypto_wallet"
    IN /\ coins = (to.kind = "CRYPTO_WALLET")
       /\ CountryOf(form) # "CA" \/ coins =>
            /\ to.kind \in {"CRYPTO_WALLET", "BANK_ACCOUNT"}
            /\ Beneficiary(CountryOf(form), form.currency, form.has, to) \in to.parts

\* Payaza pays into the account the merchant named, never to a phone number beside it, except into a
\* mobile wallet, which is its mobile number where there is one.
PaidWhereAsked ==
  instruction.to = "payaza" =>
    LET has    == instruction.form.has
        wallet == instruction.type = "mobile_money" /\ "mobile" \in has
    IN /\ wallet => instruction.account = "mobile"
       /\ ~wallet /\ "account" \in has => instruction.account = "account"

\* What leaves the engine for a provider, whichever of the tables of intents, forms, validation and adapters
\* it went through, is meant for the account that was named and for no other, in the asset that was meant.
\* Whether it leaves at all is not said: a refusal satisfies it.
InstructionsArrive == CollectedInItsAsset /\ OfferedFormsArrive /\ PaidWhereAsked /\ TransfersAddressed
=============================================================================
