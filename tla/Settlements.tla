----------------------------- MODULE Settlements -----------------------------
(***************************************************************************)
(* Money paid out to merchants: settlement.service.ts chooses the provider *)
(* by the balances its caller lists and sends the transfer;                *)
(* webhooks/settlement forwards the provider's reports to the wallet.      *)
(* A settlement is one unit of money.  Nothing is kept of a request, so    *)
(* one for a settlement made before transfers again: two of the model's    *)
(* may be for the same settlement.  No adapter passes the settlement's id  *)
(* on, so a report may quote a reference the wallet does not know.         *)
(***************************************************************************)
EXTENDS Integers, Sequences, SequencesExt, Selections

CONSTANTS Settlements,  \* the requests for settlements, repeated ones included
          SettleTsps,   \* the providers with a balance
          Chains,       \* the fallback chains smart routing may answer
          ReportWords,  \* the words a report may use
          MaxFunds      \* bound of a provider's balance

ASSUME FundsAssumption  == MaxFunds \in Nat
ASSUME ChainsAssumption == \A chain \in Chains : chain \in Seq(Range(chain))

VARIABLES funds,   \* funds[t]: the balance the provider really has
          demand,  \* demand[i]: where request i is; a refused one leaves nothing and may be made again
          said,    \* said[i]: the words the provider has had for the transfer
          told,    \* told[i]: the statuses the wallet has taken for i
          acked    \* acked[i]: the words whose report was answered with success

settlementVars == <<funds, demand, said, told, acked>>

OpenWords == ReportWords \cap {"PENDING", "IN_PROGRESS", "INITIATED", "TIMEOUT"}
DoneWords == ReportWords \cap {"SUCCESS", "COMPLETED", "SETTLED"}
LostWords == ReportWords \cap {"FAILED", "REJECTED", "DECLINED", "CANCELLED"}

\* mapPaytaraStatus and mapKingdomBankStatus.  Variant: what is not lost is made.
SettlementStatusEager(tsp, w) == IF w \in LostWords THEN "FAILED" ELSE "COMPLETED"
SettlementStatus(tsp, w) ==
  CASE w \in {"SUCCESS", "COMPLETED"} -> "COMPLETED"
    [] w = "FAILED" -> "FAILED"
    [] tsp = "paytara" /\ w = "SETTLED"   -> "COMPLETED"
    [] tsp = "paytara" /\ w = "REJECTED"  -> "FAILED"
    [] tsp = "paytara" /\ w = "CANCELLED" -> "CANCELLED"
    [] tsp = "kingdom_bank" /\ w \in {"DECLINED", "TIMEOUT"} -> "FAILED"
    [] OTHER -> "PROCESSING"

\* A listed balance is enough.  Variant: it is enough to be listed.
HasBalanceListed(balances, t) == t \in DOMAIN balances
HasBalance(balances, t) == t \in DOMAIN balances /\ balances[t] >= 1

WithBalance(balances) == {t \in DOMAIN balances : HasBalance(balances, t)}

\* getSettlementRouting: the sort by adjusted score is stable, all scores being the decision's.
Reranked(chain, balances) ==
  Among(chain, WithBalance(balances)) \o Among(chain, Range(chain) \ WithBalance(balances))
\* selectFallbackTSP.
FallbackTsp(chain, balances) ==
  LET enough == Among(chain, WithBalance(balances))
  IN IF enough = << >> THEN "none" ELSE enough[1]
\* The provider createMerchantSettlement settles on; an empty chain is a TypeError.
SelectedTsp(chain, balances) ==
  LET reranked == Reranked(chain, balances)
  IN IF chain = << >> THEN "none"
     ELSE IF HasBalance(balances, reranked[1]) THEN reranked[1] ELSE FallbackTsp(reranked, balances)

PaysOut(t) == t \in {"paytara", "kingdom_bank", "sulifu_pay", "payaza"}

----------------------------------------------------------------------------
SettlementsInit ==
  /\ funds \in [SettleTsps -> 0 .. MaxFunds]
  /\ demand = [i \in Settlements |-> [at |-> "idle"]]
  /\ said = [i \in Settlements |-> {}]
  /\ told = [i \in Settlements |-> {}]
  /\ acked = [i \in Settlements |-> {}]

\* The request, up to the provider: the caller lists the balances it knows, not all of them.
SettleBegin(i) ==
  /\ demand[i].at \in {"idle", "refused"}
  /\ \E chain \in Chains, known \in SUBSET SettleTsps :
       LET balances == [t \in known |-> funds[t]]
           tsp == SelectedTsp(chain, balances)
       IN demand' = [demand EXCEPT ![i] =
            [at |-> IF tsp # "none" /\ PaysOut(tsp) THEN "chosen" ELSE "refused", tsp |-> tsp,
             chain |-> chain, balances |-> balances, raced |-> FALSE]]
  /\ UNCHANGED <<funds, said, told, acked>>

\* createPayout.  What the provider refuses is answered like what it takes: success, PROCESSING.
Transfer(i) ==
  /\ demand[i].at = "chosen"
  /\ LET t == demand[i].tsp
         Raced(j) == demand[j].at = "chosen" /\ demand[j].tsp = t
     IN IF funds[t] >= 1
        THEN /\ funds' = [funds EXCEPT ![t] = @ - 1]
             /\ demand' = [j \in Settlements |->
                  IF j = i THEN [at |-> "sent", tsp |-> t]
                  ELSE IF Raced(j) THEN [demand[j] EXCEPT !.raced = TRUE] ELSE demand[j]]
             /\ \E w \in OpenWords : said' = [said EXCEPT ![i] = {w}]
        ELSE /\ demand' = [demand EXCEPT ![i].at = "short"]
             /\ UNCHANGED <<funds, said>>
  /\ UNCHANGED <<told, acked>>

\* The provider carries the transfer out, or gives the money back.
SettleProgress(i) ==
  /\ said[i] # {} /\ said[i] \cap (DoneWords \cup LostWords) = {}
  /\ \E w \in DoneWords \cup LostWords :
       /\ said' = [said EXCEPT ![i] = @ \cup {w}]
       /\ funds' = IF w \in LostWords THEN [funds EXCEPT ![demand[i].tsp] = @ + 1] ELSE funds
  /\ UNCHANGED <<demand, told, acked>>

\* handlePaytaraWebhook and handleKingdomBankWebhook: any report, again and late; the wallet takes the
\* status, refuses it (the reference is unknown), or takes it and its answer is lost.
\* Variant: the wallet's refusal is logged only.
SettleReportSwallowed(i) ==
  /\ demand[i].at = "sent" /\ demand[i].tsp \in {"paytara", "kingdom_bank"}
  /\ \E w \in said[i] :
       /\ acked' = [acked EXCEPT ![i] = @ \cup {w}]
       /\ told' = told \/ told' = [told EXCEPT ![i] = @ \cup {SettlementStatus(demand[i].tsp, w)}]
  /\ UNCHANGED <<funds, demand, said>>
SettleReport(i) ==
  /\ demand[i].at = "sent" /\ demand[i].tsp \in {"paytara", "kingdom_bank"}
  /\ \E w \in said[i] :
       /\ told' = [told EXCEPT ![i] = @ \cup {SettlementStatus(demand[i].tsp, w)}]
       /\ acked' = acked \/ acked' = [acked EXCEPT ![i] = @ \cup {w}]
  /\ UNCHANGED <<funds, demand, said>>

\* The generic handler answers success and does nothing else.
SettleReportGeneric(i) ==
  /\ demand[i].at = "sent" /\ demand[i].tsp \notin {"paytara", "kingdom_bank"}
  /\ acked' = [acked EXCEPT ![i] = @ \cup said[i]]
  /\ UNCHANGED <<funds, demand, said, told>>

SettlementsNext ==
  \E i \in Settlements :
    SettleBegin(i) \/ Transfer(i) \/ SettleProgress(i) \/ SettleReport(i) \/ SettleReportGeneric(i)

SettlementsSpec == SettlementsInit /\ [][SettlementsNext]_settlementVars
----------------------------------------------------------------------------
\* A provider runs short of a transfer only when another settlement took the money after the balances
\* were listed: createMerchantSettlement's three looks at the balances (the re-ranking, the check of the
\* selected provider, the choice of a fallback) never let an uncovered provider through ...
ShortOnlyIfRaced == \A i \in Settlements : demand[i].at = "short" => demand[i].raced

\* ... and never pass over the first provider of the routing's chain that is covered.
FirstCoveredChosen ==
  \A i \in Settlements :
    LET d == demand[i]
        Covered(n) == d.chain[n] \in DOMAIN d.balances /\ d.balances[d.chain[n]] > 0
    IN d.at \in {"chosen", "refused"} /\ d.tsp # "none" =>
         \E n \in DOMAIN d.chain : d.chain[n] = d.tsp /\ Covered(n) /\ \A m \in 1 .. n - 1 : ~Covered(m)

\* A report of a transfer is answered with success only once the wallet has taken it, whatever was
\* refused, repeated or lost before (the two providers with a handler of their own).
AckedIsTold ==
  \A i \in Settlements :
    demand[i].at = "sent" /\ demand[i].tsp \in {"paytara", "kingdom_bank"} =>
      \A w \in acked[i] : SettlementStatus(demand[i].tsp, w) \in told[i]

\* The wallet is told COMPLETED only of a transfer that was made, and FAILED of one that was made only
\* where Kingdom Bank timed out first.
ToldIsSo ==
  \A i \in Settlements :
    /\ "COMPLETED" \in told[i] => said[i] \cap DoneWords # {}
    /\ "FAILED" \in told[i] /\ said[i] \cap DoneWords # {} => "TIMEOUT" \in said[i]

\* A settlement goes to the first provider listed as having the money, and fails there only if another took
\* it first; and the wallet hears every report that is acknowledged, and nothing untrue but of a timeout.
SettlementsAreSound == FirstCoveredChosen /\ ShortOnlyIfRaced /\ AckedIsTold /\ ToldIsSo
=============================================================================
