--------------------------- MODULE MCProviderAccess ---------------------------
\* The parts between a payment and its provider, on small instances.  They share no state:
\* a behaviour of the model is one of a single part, the one in focus.
EXTENDS ParallelTsp, ProviderSettings, CacheTiers, Routing, Instructions, CustomerResolution

VARIABLE focus

vars == <<focus, callVars, settingVars, cacheVars, routeVars, adapterVars, instruction, customerVars>>

CallsOnly ==
  focus = "calls" /\ UNCHANGED <<focus, settingVars, cacheVars, routeVars, adapterVars, instruction, customerVars>>
SettingsOnly ==
  focus = "settings" /\ UNCHANGED <<focus, callVars, cacheVars, routeVars, adapterVars, instruction, customerVars>>
CacheOnly ==
  focus = "cache" /\ UNCHANGED <<focus, callVars, settingVars, routeVars, adapterVars, instruction, customerVars>>
RoutingOnly ==
  focus = "routing" /\ UNCHANGED <<focus, callVars, settingVars, cacheVars, adapterVars, instruction, customerVars>>
AdaptersOnly ==
  focus = "adapters" /\ UNCHANGED <<focus, callVars, settingVars, cacheVars, routeVars, instruction, customerVars>>
InstructionsOnly ==
  focus = "instructions" /\ UNCHANGED <<focus, callVars, settingVars, cacheVars, routeVars, adapterVars, customerVars>>
CustomersOnly ==
  focus = "customers" /\ UNCHANGED <<focus, callVars, settingVars, cacheVars, routeVars, adapterVars, instruction>>

Init ==
  /\ focus \in {"calls", "settings", "cache", "routing", "adapters", "instructions", "customers"}
  /\ CallsInit /\ SettingsInit /\ CacheInit /\ RoutingInit
  /\ AdaptersInit /\ InstructionsInit /\ CustomersInit

Next ==
  \/ CallsOnly /\ CallsNext
  \/ SettingsOnly /\ SettingsNext
  \/ CacheOnly /\ CacheNext
  \/ RoutingOnly /\ RoutingNext
  \/ AdaptersOnly /\ AdaptersNext
  \/ InstructionsOnly /\ InstructionsNext
  \/ CustomersOnly /\ CustomersNext

Spec == Init /\ [][Next]_vars /\ CallsFairness /\ CustomersFairness

\* What smart routing hands over; the bank has a breaker, but no adapter in the processor.
RoutedLists == {Candidates(Decision(<<"stripe", "kingdom_bank", "paytara">>))}

\* Whoever waits is answered: the processor's payments by their timers, the resolutions of customers by the
\* timeouts and the bounded retries of every call to the merchant service.
EveryoneIsAnswered == CallsEnd /\ ResolutionEnds
=============================================================================
