-------------------------- MODULE ProviderSettings --------------------------
(***************************************************************************)
(* The providers' configurations (tsp-management.service.ts) and the       *)
(* adapters made of them (tsp-factory.service.ts).  Every edit reads a     *)
(* row, changes its copy and saves all of it; an adapter is made from the  *)
(* active row and kept under provider_environment for as long as the       *)
(* process runs: nothing calls clearCache.                                 *)
(*                                                                         *)
(* Of a row the model keeps provider, environment, activity and the        *)
(* credentials, numbered as they are entered; 0 stands for credentials     *)
(* that validateConfig refuses.                                            *)
(***************************************************************************)
EXTENDS Naturals

CONSTANTS ConfigIds, ConfiguredTsps, Environments, Editors, MaxCredentials

VARIABLES config,   \* config[i]: the row with id i
          edit,     \* edit[s]: what request s is in the middle of
          adapter,  \* adapter[k]: the row the adapter under cache key k was made of
          entered,  \* how many credentials have been entered
          wasActive \* history: the active rows with valid credentials since the process started

settingVars == <<config, edit, adapter, entered, wasActive>>

Config   == [provider : ConfiguredTsps, env : Environments, active : BOOLEAN, creds : Nat]
NoConfig == [provider |-> "none"]
NoEdit   == [at |-> "idle"]
\* getTSPAdapter's cacheKey.  Variant: the provider alone.
CacheKeyProvider(p, e) == <<p, "any">>
CacheKey(p, e) == <<p, e>>
CacheKeys == ConfiguredTsps \X (Environments \cup {"any"})

\* validateConfig: all the credentials the provider needs are there.
Valid(creds) == creds > 0
ActiveRows ==
  {config[i] : i \in {j \in ConfigIds : config[j] # NoConfig /\ config[j].active /\ Valid(config[j].creds)}}

SettingsInit ==
  /\ config = [i \in ConfigIds |-> NoConfig]
  /\ edit = [s \in Editors |-> NoEdit]
  /\ adapter = [k \in CacheKeys |-> NoConfig]
  /\ entered = 0
  /\ wasActive = {}

FreshCredentials == IF entered < MaxCredentials THEN {0, entered + 1} ELSE {0}
Begin(s, e) == edit[s] = NoEdit /\ edit' = [edit EXCEPT ![s] = e]
Finish(s)   == edit' = [edit EXCEPT ![s] = NoEdit]

\* The database keeps one row for a provider and an environment.
Taken(i, row) == \E j \in ConfigIds \ {i} :
  config[j] # NoConfig /\ config[j].provider = row.provider /\ config[j].env = row.env

\* createConfiguration looks for the pair and inserts later.
CreateConfigLook(s, i) ==
  /\ config[i] = NoConfig
  /\ \E p \in ConfiguredTsps, e \in Environments, active \in BOOLEAN, c \in FreshCredentials :
       LET row == [provider |-> p, env |-> e, active |-> active, creds |-> c]
       IN /\ ~Taken(i, row)
          /\ Begin(s, [at |-> "save", id |-> i, row |-> row])
          /\ entered' = IF c > 0 THEN c ELSE entered
  /\ UNCHANGED <<config, adapter, wasActive>>

\* activateConfiguration and deactivateConfiguration.
SetActive(s, i, active) ==
  /\ config[i] # NoConfig
  /\ Begin(s, [at |-> "save", id |-> i, row |-> [config[i] EXCEPT !.active = active]])
  /\ UNCHANGED <<config, adapter, entered, wasActive>>

\* updateConfiguration: new credentials are merged over the old ones, which leaves valid
\* ones valid; a new environment is looked up first.
UpdateRead(s, i) ==
  /\ config[i] # NoConfig
  /\ \/ \E c \in FreshCredentials \ {0} :
          /\ Begin(s, [at |-> "save", id |-> i, row |-> [config[i] EXCEPT !.creds = c]])
          /\ entered' = c
     \/ \E e \in Environments \ {config[i].env} :
          /\ Begin(s, [at |-> "look", id |-> i, row |-> [config[i] EXCEPT !.env = e]])
          /\ UNCHANGED entered
  /\ UNCHANGED <<config, adapter, wasActive>>

UpdateLook(s) ==
  /\ edit[s].at = "look"
  /\ IF Taken(edit[s].id, edit[s].row) THEN Finish(s) ELSE edit' = [edit EXCEPT ![s].at = "save"]
  /\ UNCHANGED <<config, adapter, entered, wasActive>>

SettingSave(s) ==
  /\ edit[s].at = "save"
  /\ IF Taken(edit[s].id, edit[s].row) THEN UNCHANGED config
     ELSE config' = [config EXCEPT ![edit[s].id] = edit[s].row]
  /\ wasActive' = wasActive \cup ActiveRows'
  /\ Finish(s)
  /\ UNCHANGED <<adapter, entered>>

\* getTSPAdapter without a kept adapter reads the active row asked for ...
AdapterRead(s, p, e) ==
  /\ adapter[CacheKey(p, e)] = NoConfig
  /\ \E i \in ConfigIds :
       /\ config[i] # NoConfig /\ config[i].provider = p /\ config[i].env = e /\ config[i].active
       /\ Begin(s, [at |-> "keep", id |-> i, row |-> config[i], key |-> CacheKey(p, e)])
  /\ UNCHANGED <<config, adapter, entered, wasActive>>

\* ... and keeps what it makes of it under the key of the request, over what another call
\* has kept meanwhile; the row may have been changed, moved or deactivated since.
AdapterKeep(s) ==
  /\ edit[s].at = "keep"
  /\ adapter' = IF Valid(edit[s].row.creds)
                  THEN [adapter EXCEPT ![edit[s].key] = edit[s].row] ELSE adapter
  /\ Finish(s)
  /\ UNCHANGED <<config, entered, wasActive>>

\* The process restarts.
SettingsRestart ==
  /\ edit' = [s \in Editors |-> NoEdit]
  /\ adapter' = [k \in CacheKeys |-> NoConfig]
  /\ wasActive' = ActiveRows
  /\ UNCHANGED <<config, entered>>

SettingsNext ==
  \/ SettingsRestart
  \/ \E s \in Editors :
       \/ UpdateLook(s) \/ SettingSave(s) \/ AdapterKeep(s)
       \/ \E i \in ConfigIds : \/ CreateConfigLook(s, i) \/ UpdateRead(s, i)
                               \/ \E active \in BOOLEAN : SetActive(s, i, active)
       \/ \E p \in ConfiguredTsps, e \in Environments : AdapterRead(s, p, e)

SettingsSpec == SettingsInit /\ [][SettingsNext]_settingVars

----------------------------------------------------------------------------
\* An adapter handed out for a provider and an environment was made of a row that was in
\* the table for just that pair, active and with credentials its provider accepts, at some
\* moment since the process started: two requests on their way at once, and edits that move,
\* change or deactivate the row meanwhile, mix up neither pairs nor halves of rows.  It need
\* not be what the table holds now: adapters are never made again.
AdapterOfItsEnvironment ==
  \A p \in ConfiguredTsps, e \in Environments :
    LET row == adapter[CacheKey(p, e)]
    IN row # NoConfig =>
         /\ row.provider = p /\ row.env = e /\ Valid(row.creds)
         /\ row.active /\ row \in wasActive
=============================================================================
