------------------------- MODULE MCMerchantServices -------------------------
\* The services around payments that face the merchant, on small instances.  They share no state:
\* a behaviour of the model is one of a single part, the one in focus.
EXTENDS FraudScreening, Settlements, Dashboards, Batches, Monitoring, Announcements, StatusPages

VARIABLE focus

vars == <<focus, fraudVars, settlementVars, dashboardVars, batchVars, monitorVars, announceVars, pageVars>>

ScreeningOnly ==
  focus = "screening" /\
  UNCHANGED <<focus, settlementVars, dashboardVars, batchVars, monitorVars, announceVars, pageVars>>
SettlementsOnly ==
  focus = "settlements" /\
  UNCHANGED <<focus, fraudVars, dashboardVars, batchVars, monitorVars, announceVars, pageVars>>
DashboardsOnly ==
  focus = "dashboards" /\
  UNCHANGED <<focus, fraudVars, settlementVars, batchVars, monitorVars, announceVars, pageVars>>
BatchesOnly ==
  focus = "batches" /\
  UNCHANGED <<focus, fraudVars, settlementVars, dashboardVars, monitorVars, announceVars, pageVars>>
MonitoringOnly ==
  focus = "monitoring" /\
  UNCHANGED <<focus, fraudVars, settlementVars, dashboardVars, batchVars, announceVars, pageVars>>
AnnouncementsOnly ==
  focus = "announcements" /\
  UNCHANGED <<focus, fraudVars, settlementVars, dashboardVars, batchVars, monitorVars, pageVars>>
PagesOnly ==
  focus = "pages" /\
  UNCHANGED <<focus, fraudVars, settlementVars, dashboardVars, batchVars, monitorVars, announceVars>>

\* Nothing is said of a listing or of figures under which a row changed: TLC does not follow such a reading on.
\* Statistics are counted from rows that were read once.
Outdated == reading.kind \notin {"none", "stats"} /\ reading.changed

\* The balances of the providers and the broker differ from one behaviour to the next only where
\* the part in focus looks at them.
Init ==
  /\ focus \in {"screening", "settlements", "dashboards", "batches", "monitoring", "announcements", "pages"}
  /\ ScreeningInit /\ SettlementsInit /\ DashboardsInit /\ BatchesInit
  /\ MonitoringInit /\ AnnounceInit /\ PagesInit
  /\ focus # "settlements"   => funds = [t \in SettleTsps |-> 0]
  /\ focus # "announcements" => ~broker

Next ==
  \/ ScreeningOnly /\ ScreeningNext
  \/ SettlementsOnly /\ SettlementsNext
  \/ DashboardsOnly /\ ~Outdated /\ DashboardsNext
  \/ BatchesOnly /\ BatchesNext
  \/ MonitoringOnly /\ MonitoringNext
  \/ AnnouncementsOnly /\ AnnounceNext
  \/ PagesOnly /\ PagesNext

Spec == Init /\ [][Next]_vars

\* Customers at their first payment behind a proxy, far above their habit on a weekend's night, blacklisted.
FlaggedPayments == {{}, {"firstTime", "proxyIp"}, {"tenfold", "weekendNight"}, {"blacklisted"}}
\* What smart routing answers.
RoutedChains == {<<"stripe", "paytara", "kingdom_bank">>, <<"kingdom_bank", "sulifu_pay">>, << >>}
\* The monitored provider has a row for each environment.
TwoEnvironments == <<"paytara", "paytara">>
\* The id of the second merchant is read as that of the first.
IdsAsRead == [m \in {"m1", "m2"} |-> "m1"]
\* Late and early reports of two providers.
ReportsOfProviders ==
  {Words!Report("kingdom_bank", "PROCESSED", "none"), Words!Report("kingdom_bank", "PENDING", "none"),
   Words!Report("payaza", "failed", "none")}

Row(email, amount, written, type, currency, country, has) ==
  [email |-> email, amount |-> amount, written |-> written, type |-> type, currency |-> currency,
   country |-> country, has |-> has, account |-> "acc", vpa |-> "vpa"]
Inr(email, amount, written) == Row(email, amount, written, "imps", "INR", "none", {"account", "ifsc"})
\* Rows that pass and rows with each kind of error, the same amount written in two ways.
RowsOfFiles ==
  {Inr("e1", 100, "1"), Inr("e1", 100, "1.00"), Inr("e2", 100, "1"),
   Row("e1", 100, "1", "upi", "INR", "none", {"vpa"}),
   Row("e1", 0, "0", "imps", "INR", "none", {"account", "ifsc"}),
   Row("e1", 100, "1", "neft", "INR", "IN", {"account", "ifsc"}),
   Row("e1", 200000, "2000", "bank_transfer", "EUR", "AE", {"account", "iban", "swift", "document"}),
   Row("e1", 200000, "2000", "bank_transfer", "USD", "AE", {"account", "swift"}),
   Row("e2", 100, "1", "crypto", "USD", "none", {})}
=============================================================================
