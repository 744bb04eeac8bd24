-------------------------- MODULE ProviderAccessProofs --------------------------
(***************************************************************************)
(* Theorems about the parts between the services and what they call: the   *)
(* adapters that are kept, the values that are cached, the customers that  *)
(* are created, the routes that are chosen, for all values of the          *)
(* constants, and the answers and instructions of the adapters.            *)
(***************************************************************************)
EXTENDS ProviderSettings, CacheTiers, CustomerResolution, Routing, Instructions, DataTheorems,
        FiniteSetTheorems, SequenceTheorems, TLAPS

(***************************************************************************)
(* The adapters the factory keeps, for any number of configurations,       *)
(* providers, environments and concurrent edits.                           *)
(*                                                                         *)
(* A configuration may change its environment while an adapter is being    *)
(* made of it.  The adapter is right all the same, because the row was     *)
(* looked up by the pair the request asks for and was active when it was   *)
(* read (EditsOK), however many edits have been saved since, and because   *)
(* a restart forgets requests and adapters together (KeptAsRead).          *)
(***************************************************************************)
RowsOK  == \A i \in ConfigIds : config[i] # NoConfig => config[i] \in Config
Edits   == [at : {"look", "save"}, id : ConfigIds, row : Config]
KeepEdits   == [at : {"keep"}, id : ConfigIds, row : Config, key : CacheKeys]
ReadFor(row, key) == row.active /\ (Valid(row.creds) => row \in wasActive) /\ key = <<row.provider, row.env>>
EditOK(ed) == ed \in Edits \/ (ed \in KeepEdits /\ ReadFor(ed.row, ed.key))
EditsOK    == \A s \in Editors : edit[s] # NoEdit => EditOK(edit[s])
KeptAsRead ==
  \A k \in CacheKeys : adapter[k] # NoConfig =>
    adapter[k] \in Config /\ Valid(adapter[k].creds) /\ ReadFor(adapter[k], k)
ActiveOnRecord == ActiveRows \subseteq wasActive
SettingDomains ==
  /\ config = [i \in ConfigIds |-> config[i]]
  /\ edit = [s \in Editors |-> edit[s]]
  /\ adapter = [k \in CacheKeys |-> adapter[k]]
  /\ entered \in Nat
SettingsInv == SettingDomains /\ RowsOK /\ EditsOK /\ KeptAsRead /\ ActiveOnRecord

\* Nothing is configured, edited or kept at the start.
LEMMA SettingsStart == SettingsInit => SettingsInv
BY SMT DEF SettingsInit, SettingsInv, SettingDomains, RowsOK, EditsOK, KeptAsRead, ActiveOnRecord, ActiveRows,
           NoEdit, NoConfig

\* A request that begins carries a row of the table with one field changed, or a row that is active for the
\* pair it was asked for.
LEMMA EditBegins ==
  ASSUME SettingsInv, NEW s \in Editors, NEW e, EditOK(e), Begin(s, e),
         UNCHANGED <<config, adapter, wasActive>>, entered' \in Nat
  PROVE  SettingsInv'
<1>1. EditsOK' /\ edit' = [t \in Editors |-> edit'[t]]
  <2>1. edit = [t \in Editors |-> edit[t]]
    BY DEF SettingsInv, SettingDomains
  <2>2. \A t \in Editors : edit'[t] = IF t = s THEN e ELSE edit[t]
    BY <2>1 DEF Begin
  <2>3. \A ed : EditOK(ed)' <=> EditOK(ed)
    BY DEF EditOK, ReadFor
  <2>4. \A t \in Editors : edit[t] # NoEdit => EditOK(edit[t])
    BY DEF SettingsInv, EditsOK
  <2> QED
    BY <2>1, <2>2, <2>3, <2>4 DEF EditsOK, Begin
<1> QED
  BY <1>1 DEF SettingsInv, SettingDomains, RowsOK, KeptAsRead, ReadFor, ActiveOnRecord, ActiveRows

\* A request that ends leaves the others as they are.
LEMMA EditEnds ==
  ASSUME SettingsInv, NEW s \in Editors, Finish(s), wasActive \subseteq wasActive'
  PROVE  EditsOK' /\ edit' = [t \in Editors |-> edit'[t]]
<1>1. edit = [t \in Editors |-> edit[t]] /\ EditsOK
  BY DEF SettingsInv, SettingDomains
<1>2. \A t \in Editors : edit'[t] = IF t = s THEN NoEdit ELSE edit[t]
  BY <1>1 DEF Finish
<1>3. \A ed : EditOK(ed) => EditOK(ed)'
  BY DEF EditOK, ReadFor
<1> QED
  BY <1>1, <1>2, <1>3 DEF EditsOK, Finish

\* Each operation of the management service and of the factory keeps rows, edits and adapters in order.
LEMMA SettingsStep == SettingsInv /\ [SettingsNext]_settingVars => SettingsInv'
<1> SUFFICES ASSUME SettingsInv, [SettingsNext]_settingVars PROVE SettingsInv'
  OBVIOUS
<1>a. SettingDomains /\ RowsOK /\ EditsOK /\ KeptAsRead /\ ActiveOnRecord
  BY DEF SettingsInv
<1>b. \A c \in FreshCredentials : c \in Nat
  BY <1>a, SMT DEF FreshCredentials, SettingDomains
<1>1. CASE UNCHANGED settingVars
  BY <1>1 DEF settingVars, SettingsInv, SettingDomains, RowsOK, EditsOK, EditOK, KeptAsRead, ReadFor,
              ActiveOnRecord, ActiveRows
<1>2. CASE SettingsRestart
  <2>1. SettingDomains' /\ RowsOK' /\ EditsOK'
    BY <1>2, <1>a DEF SettingsRestart, SettingDomains, RowsOK, EditsOK
  <2>2. KeptAsRead' /\ ActiveOnRecord'
    BY <1>2 DEF SettingsRestart, KeptAsRead, ActiveOnRecord, ActiveRows
  <2> QED
    BY <2>1, <2>2 DEF SettingsInv
<1>3. ASSUME NEW s \in Editors, NEW i \in ConfigIds, CreateConfigLook(s, i) PROVE SettingsInv'
  <2>1. PICK p \in ConfiguredTsps, e \in Environments, active \in BOOLEAN, c \in FreshCredentials :
          /\ Begin(s, [at |-> "save", id |-> i,
                       row |-> [provider |-> p, env |-> e, active |-> active, creds |-> c]])
          /\ entered' = IF c > 0 THEN c ELSE entered
    BY <1>3 DEF CreateConfigLook
  <2>2. [provider |-> p, env |-> e, active |-> active, creds |-> c] \in Config /\ entered' \in Nat
    BY <1>a, <1>b, <2>1, SMT DEF Config, SettingDomains
  <2> QED
    BY <1>3, <2>1, <2>2, EditBegins DEF CreateConfigLook, Edits, EditOK
<1>4. ASSUME NEW s \in Editors, NEW i \in ConfigIds, UpdateRead(s, i) PROVE SettingsInv'
  <2>1. config[i] \in Config
    BY <1>4, <1>a DEF UpdateRead, RowsOK
  <2>2. PICK e \in Edits : Begin(s, e) /\ entered' \in Nat
    <3>1. ASSUME NEW c \in FreshCredentials \ {0},
                 Begin(s, [at |-> "save", id |-> i, row |-> [config[i] EXCEPT !.creds = c]]), entered' = c
          PROVE  \E e \in Edits : Begin(s, e) /\ entered' \in Nat
      <4>1. [config[i] EXCEPT !.creds = c] \in Config /\ entered' \in Nat
        BY <1>b, <2>1, <3>1, SMT DEF Config
      <4> QED
        BY <3>1, <4>1 DEF Edits
    <3>2. ASSUME NEW v \in Environments,
                 Begin(s, [at |-> "look", id |-> i, row |-> [config[i] EXCEPT !.env = v]]), UNCHANGED entered
          PROVE  \E e \in Edits : Begin(s, e) /\ entered' \in Nat
      <4>1. [config[i] EXCEPT !.env = v] \in Config /\ entered' \in Nat
        BY <1>a, <2>1, <3>2, SMT DEF Config, SettingDomains
      <4> QED
        BY <3>2, <4>1 DEF Edits
    <3> QED
      BY <1>4, <3>1, <3>2 DEF UpdateRead
  <2> QED
    BY <1>4, <2>2, EditBegins DEF UpdateRead, EditOK
<1>5. ASSUME NEW s \in Editors, NEW i \in ConfigIds, NEW active \in BOOLEAN, SetActive(s, i, active)
      PROVE  SettingsInv'
  <2>1. [config[i] EXCEPT !.active = active] \in Config /\ entered' \in Nat
    BY <1>5, <1>a, SMT DEF SetActive, RowsOK, Config, SettingDomains
  <2> QED
    BY <1>5, <2>1, EditBegins DEF SetActive, Edits, EditOK
<1>6. ASSUME NEW s \in Editors, UpdateLook(s) PROVE SettingsInv'
  <2>1. EditsOK' /\ edit' = [t \in Editors |-> edit'[t]]
    <3>1. CASE Finish(s)
      BY <1>6, <3>1, EditEnds DEF UpdateLook
    <3>2. CASE edit' = [edit EXCEPT ![s].at = "save"]
      <4>1. \A t \in Editors : edit'[t] = IF t = s THEN [edit[s] EXCEPT !.at = "save"] ELSE edit[t]
        BY <1>a, <3>2 DEF SettingDomains
      <4>2. edit[s] \in Edits
        BY <1>6, <1>a, SMT DEF UpdateLook, EditsOK, EditOK, KeepEdits, NoEdit
      <4>3. edit'[s] \in Edits
        BY <4>1, <4>2, SMT DEF Edits
      <4>4. \A ed : EditOK(ed)' <=> EditOK(ed)
        BY <1>6 DEF EditOK, ReadFor, UpdateLook
      <4>5. EditOK(edit'[s])
        BY <4>3 DEF EditOK
      <4> QED
        BY <1>a, <3>2, <4>1, <4>4, <4>5 DEF SettingDomains, EditsOK
    <3> QED
      BY <1>6, <3>1, <3>2 DEF UpdateLook
  <2> QED
    BY <1>6, <1>a, <2>1 DEF UpdateLook, SettingsInv, SettingDomains, RowsOK, KeptAsRead, ReadFor,
                            ActiveOnRecord, ActiveRows
<1>7. ASSUME NEW s \in Editors, SettingSave(s) PROVE SettingsInv'
  <2>1. EditsOK' /\ edit' = [t \in Editors |-> edit'[t]]
    BY <1>7, EditEnds DEF SettingSave
  <2>2. RowsOK' /\ config' = [i \in ConfigIds |-> config'[i]]
    <3>1. edit[s].row \in Config
      BY <1>7, <1>a, SMT DEF SettingSave, EditsOK, EditOK, Edits, KeepEdits, NoEdit
    <3> QED
      BY <1>7, <1>a, <3>1, SMT DEF SettingSave, SettingDomains, RowsOK
  <2>3. KeptAsRead' /\ ActiveOnRecord'
    BY <1>7, <1>a DEF SettingSave, KeptAsRead, ReadFor, ActiveOnRecord
  <2> QED
    BY <1>7, <1>a, <2>1, <2>2, <2>3 DEF SettingSave, SettingsInv, SettingDomains
<1>8. ASSUME NEW s \in Editors, NEW p \in ConfiguredTsps, NEW e \in Environments, AdapterRead(s, p, e)
      PROVE  SettingsInv'
  <2>1. PICK i \in ConfigIds :
          /\ config[i] # NoConfig /\ config[i].provider = p /\ config[i].env = e /\ config[i].active
          /\ Begin(s, [at |-> "keep", id |-> i, row |-> config[i], key |-> CacheKey(p, e)])
    BY <1>8 DEF AdapterRead
  <2>2. config[i] \in Config /\ entered' \in Nat
    BY <1>8, <1>a, <2>1 DEF AdapterRead, RowsOK, SettingDomains
  <2>3. CacheKey(p, e) \in CacheKeys /\ ReadFor(config[i], CacheKey(p, e))
    BY <1>a, <2>1 DEF CacheKey, CacheKeys, ReadFor, ActiveOnRecord, ActiveRows
  <2>4. EditOK([at |-> "keep", id |-> i, row |-> config[i], key |-> CacheKey(p, e)])
    BY <2>2, <2>3 DEF EditOK, KeepEdits
  <2> QED
    BY <1>8, <2>1, <2>2, <2>4, EditBegins DEF AdapterRead
<1>9. ASSUME NEW s \in Editors, AdapterKeep(s) PROVE SettingsInv'
  <2>1. EditsOK' /\ edit' = [t \in Editors |-> edit'[t]]
    BY <1>9, EditEnds DEF AdapterKeep
  <2>2. edit[s].row \in Config /\ edit[s].key \in CacheKeys /\ ReadFor(edit[s].row, edit[s].key)
    BY <1>9, <1>a, SMT DEF AdapterKeep, EditsOK, EditOK, Edits, KeepEdits, NoEdit
  <2>3. /\ adapter' = [k \in CacheKeys |-> adapter'[k]]
        /\ \A k \in CacheKeys :
             adapter'[k] = IF k = edit[s].key /\ Valid(edit[s].row.creds) THEN edit[s].row ELSE adapter[k]
    BY <1>9, <1>a DEF AdapterKeep, SettingDomains
  <2>4. KeptAsRead'
    BY <1>9, <1>a, <2>2, <2>3 DEF AdapterKeep, KeptAsRead, ReadFor
  <2> QED
    BY <1>9, <1>a, <2>1, <2>3, <2>4 DEF AdapterKeep, SettingsInv, SettingDomains, RowsOK, ActiveOnRecord, ActiveRows
<1> QED
  BY <1>1, <1>2, <1>3, <1>4, <1>5, <1>6, <1>7, <1>8, <1>9 DEF SettingsNext

\* Whatever edits and requests overlap, the adapter of a provider and an environment is made of a row the table
\* held for just that pair since the process started, active and with credentials that pass validation
\* (getTSPAdapter and the edits of configurations).
THEOREM AdaptersFit == SettingsSpec => []AdapterOfItsEnvironment
<1>1. SettingsInv => AdapterOfItsEnvironment
  <2> SUFFICES ASSUME SettingsInv, NEW p \in ConfiguredTsps, NEW e \in Environments,
                      adapter[CacheKey(p, e)] # NoConfig
               PROVE  LET row == adapter[CacheKey(p, e)]
                      IN /\ row.provider = p /\ row.env = e /\ Valid(row.creds)
                         /\ row.active /\ row \in wasActive
    BY DEF AdapterOfItsEnvironment
  <2>1. CacheKey(p, e) \in CacheKeys /\ CacheKey(p, e) = <<p, e>>
    BY SMT DEF CacheKey, CacheKeys
  <2> QED
    BY <2>1, SMT DEF SettingsInv, KeptAsRead, ReadFor
<1> QED
  BY SettingsStart, SettingsStep, <1>1, PTL DEF SettingsSpec

----------------------------------------------------------------------------
(***************************************************************************)
(* How old a cached value can get, for any number of processes, any lives  *)
(* of entries and any number of values set.                                *)
(*                                                                         *)
(* The property speaks of what was returned only; what makes it so is how  *)
(* much life is left wherever the value can come from: an entry in Redis   *)
(* has lived no longer than its share of CacheTtl, one in memory is at     *)
(* most one MemoryTtl behind that, and a value on its way to Redis is as   *)
(* young as when it was set, since commands take no time.                  *)
(***************************************************************************)
Known == 1 .. versions

MemoryOK ==
  \A p \in CacheProcesses : memory[p] # NoEntry =>
    /\ memory[p] \in [val : Known, left : Nat \ {0}]
    /\ age[memory[p].val] + memory[p].left <= TooOld
RedisOK ==
  redis # NoEntry =>
    /\ redis \in [val : Known, left : Nat \ {0}]
    /\ age[redis.val] + redis.left <= CacheTtl
CommandsOK ==
  \A p \in CacheProcesses :
    /\ command[p].at = "set" => command[p].val \in Known /\ age[command[p].val] = 0
    /\ command[p].at = "get" => command[p].val \in Known /\ age[command[p].val] < CacheTtl
CacheTypeOK ==
  /\ versions \in 0 .. MaxVersion
  /\ age \in [Versions -> Nat]
  /\ got \in [CacheProcesses -> Nat]
  /\ memory \in [CacheProcesses -> [val : Nat, left : Nat]]
  /\ command \in [CacheProcesses -> [at : {"none", "set", "get", "del"}, val : Nat]]
CacheInv == CacheTypeOK /\ MemoryOK /\ RedisOK /\ CommandsOK /\ NothingReadTooLate

\* An entry that has left to live has one unit less of it, or is gone.
LEMMA ShorterLives ==
  ASSUME NEW e, e \in [val : Known, left : Nat \ {0}]
  PROVE  Shorter(e) # NoEntry =>
           Shorter(e) \in [val : Known, left : Nat \ {0}] /\ Shorter(e).val = e.val /\ Shorter(e).left = e.left - 1
BY SMT DEF Shorter, NoEntry

\* Every value that can be returned or kept is young enough at the start, when there is none.
LEMMA CacheStarts == CacheInit => CacheInv
BY CacheTtlAssumption, VersionAssumption, SMTT(30)
   DEF CacheInit, CacheInv, CacheTypeOK, MemoryOK, RedisOK, CommandsOK, NothingReadTooLate, NoEntry, NoWait,
       Versions, Known, TooOld

\* An entry put into memory lives there for MemoryTtl at most.
LEMMA KeptInMemory ==
  ASSUME CacheInv, NEW p \in CacheProcesses, NEW v \in Versions, NEW ttl \in Nat \ {0}, Keep(p, v, ttl)
  PROVE  /\ memory'[p] \in [val : {v}, left : Nat \ {0}] /\ memory'[p].left <= MemoryTtl /\ memory'[p].left <= ttl
         /\ \A q \in CacheProcesses \ {p} : memory'[q] = memory[q]
         /\ memory' \in [CacheProcesses -> [val : Nat, left : Nat]]
BY CacheTtlAssumption, SMTT(30) DEF CacheInv, CacheTypeOK, Keep, Versions

\* What is promoted while it still lived in Redis stays young in memory.
LEMMA PromotedIsYoung ==
  ASSUME CacheInv, NEW p \in CacheProcesses, NEW v \in Known, v \in Versions,
         age[v] \in Nat, age[v] < CacheTtl, Keep(p, v, MemoryTtl)
  PROVE  memory'[p] \in [val : Known, left : Nat \ {0}] /\ age[memory'[p].val] + memory'[p].left <= TooOld
<1> DEFINE m == memory'[p]
<1>1. CacheTtl \in Nat /\ MemoryTtl \in Nat \ {0}
  BY CacheTtlAssumption
<1>2. m \in [val : {v}, left : Nat \ {0}] /\ m.left <= MemoryTtl
  BY <1>1, KeptInMemory
<1> HIDE DEF m
<1>3. m \in [val : Known, left : Nat \ {0}] /\ m.val = v /\ m.left \in Nat
  BY <1>2
<1>4. age[v] + m.left <= TooOld
  BY <1>1, <1>2, <1>3 DEF TooOld
<1> QED
  BY <1>3, <1>4 DEF m

\* No command, expiry, eviction, failure of Redis or tick of time makes a value in any tier too old.
LEMMA CacheStep == CacheInv /\ [CacheNext]_cacheVars => CacheInv'
<1> SUFFICES ASSUME CacheInv, [CacheNext]_cacheVars PROVE CacheInv'
  OBVIOUS
<1> USE CacheTtlAssumption, VersionAssumption
<1> USE DEF CacheInv, CacheTypeOK, MemoryOK, RedisOK, CommandsOK, NothingReadTooLate, Known, Versions, TooOld,
            NoEntry, NoWait
<1>1. CASE UNCHANGED cacheVars
  BY <1>1, SMTT(30) DEF cacheVars
<1>2. CASE RedisGoes
  BY <1>2, SMTT(30) DEF RedisGoes
<1>3. CASE CacheTick
  <2>1. \A v \in Versions : age'[v] <= age[v] + 1 /\ age'[v] \in Nat
    BY <1>3, SMTT(30) DEF CacheTick
  <2>2. MemoryOK'
    <3> SUFFICES ASSUME NEW p \in CacheProcesses, memory'[p] # NoEntry
                 PROVE  /\ memory'[p] \in [val : Known, left : Nat \ {0}]
                        /\ age'[memory'[p].val] + memory'[p].left <= TooOld
      BY <1>3 DEF CacheTick
    <3>1. memory'[p] = Shorter(memory[p]) /\ memory[p] # NoEntry
      BY <1>3, SMTT(30) DEF CacheTick, Shorter
    <3> QED
      BY <1>3, <2>1, <3>1, ShorterLives, SMTT(30) DEF CacheTick
  <2>3. RedisOK'
    <3>1. redis' = Shorter(redis) /\ (redis' # NoEntry => redis # NoEntry)
      BY <1>3, SMTT(30) DEF CacheTick, Shorter
    <3> QED
      BY <1>3, <2>1, <3>1, ShorterLives, SMTT(30) DEF CacheTick
  <2> QED
    BY <1>3, <2>1, <2>2, <2>3, SMTT(30) DEF CacheTick
<1>4. ASSUME NEW p \in CacheProcesses, CacheSet(p) PROVE CacheInv'
  <2>1. versions + 1 \in Versions /\ CacheTtl \in Nat \ {0}
    BY <1>4, SMTT(30) DEF CacheSet
  <2>2. Keep(p, versions + 1, CacheTtl)
    BY <1>4 DEF CacheSet
  <2>3. \A v \in Known : age'[v] = age[v]
    BY <1>4, <2>1, SMTT(30) DEF CacheSet
  <2>4. age'[versions + 1] = 0 /\ versions' = versions + 1 /\ age' \in [Versions -> Nat]
    BY <1>4, <2>1, SMTT(30) DEF CacheSet
  <2>5. MemoryOK'
    <3> SUFFICES ASSUME NEW q \in CacheProcesses, memory'[q] # NoEntry
                 PROVE  /\ memory'[q] \in [val : 1 .. versions', left : Nat \ {0}]
                        /\ age'[memory'[q].val] + memory'[q].left <= TooOld
      OBVIOUS
    <3>1. CASE q = p
      <4>1. memory'[p] \in [val : {versions + 1}, left : Nat \ {0}] /\ memory'[p].left <= MemoryTtl
        BY <2>1, <2>2, KeptInMemory
      <4> QED
        BY <2>4, <3>1, <4>1, SMTT(30)
    <3>2. CASE q # p
      <4>1. memory'[q] = memory[q]
        BY <2>1, <2>2, <3>2, KeptInMemory
      <4> QED
        BY <2>3, <2>4, <4>1, SMTT(30)
    <3> QED
      BY <3>1, <3>2
  <2>6. RedisOK'
    BY <1>4, <2>3, <2>4, SMTT(30) DEF CacheSet
  <2>7. CommandsOK'
    BY <1>4, <2>1, <2>3, <2>4, SMTT(30) DEF CacheSet
  <2>8. CacheTypeOK'
    <3>1. memory' \in [CacheProcesses -> [val : Nat, left : Nat]]
      BY <2>1, <2>2, KeptInMemory
    <3> QED
      BY <1>4, <2>1, <2>4, <3>1, SMTT(30) DEF CacheSet
  <2>9. NothingReadTooLate'
    BY <1>4, SMTT(30) DEF CacheSet
  <2> QED
    BY <2>5, <2>6, <2>7, <2>8, <2>9
<1>5. ASSUME NEW p \in CacheProcesses, memory' = [memory EXCEPT ![p] = NoEntry],
             UNCHANGED <<redis, redisUp, command, versions, age, got>>
      PROVE  CacheInv'
  <2>1. \A q \in CacheProcesses : memory'[q] = memory[q] \/ memory'[q] = NoEntry
    BY <1>5, SMTT(30)
  <2>2. memory' \in [CacheProcesses -> [val : Nat, left : Nat]]
    BY <1>5, SMTT(30)
  <2>3. MemoryOK'
    BY <1>5, <2>1, SMTT(30)
  <2> QED
    BY <1>5, <2>2, <2>3, SMTT(30)
<1>6. ASSUME NEW p \in CacheProcesses, CacheGet(p) PROVE CacheInv'
  <2>1. CASE memory[p] # NoEntry
    <3>1. got' = [got EXCEPT ![p] = age[memory[p].val]] /\ UNCHANGED <<memory, redis, redisUp, command, versions, age>>
      BY <1>6, <2>1 DEF CacheGet, Return
    <3>2. age[memory[p].val] \in Nat /\ age[memory[p].val] < TooOld
      BY <2>1, SMTT(30)
    <3> QED
      BY <3>1, <3>2, SMTT(30)
  <2>2. CASE memory[p] = NoEntry
    <3>1. /\ redis # NoEntry /\ command' = [command EXCEPT ![p] = [at |-> "get", val |-> redis.val]]
          /\ UNCHANGED <<memory, redis, redisUp, versions, age, got>>
      BY <1>6, <2>2 DEF CacheGet
    <3>2. redis.val \in Known /\ redis.val \in Nat /\ age[redis.val] < CacheTtl
      BY <3>1, SMTT(30)
    <3>3. command' \in [CacheProcesses -> [at : {"none", "set", "get", "del"}, val : Nat]]
      BY <3>1, <3>2, SMTT(30)
    <3>4. CommandsOK'
      BY <3>1, <3>2, SMTT(30)
    <3> QED
      BY <3>1, <3>3, <3>4, SMTT(30)
  <2> QED
    BY <2>1, <2>2
<1>7. ASSUME NEW p \in CacheProcesses, CachePromote(p) PROVE CacheInv'
  <2>1. command[p].val \in Versions /\ Keep(p, command[p].val, MemoryTtl) /\ MemoryTtl \in Nat \ {0}
    BY <1>7, SMTT(30) DEF CachePromote, Promote
  <2>a. command[p].val \in Known /\ age[command[p].val] \in Nat /\ age[command[p].val] < CacheTtl
    BY <1>7, <2>1, SMTT(30) DEF CachePromote
  <2>b. UNCHANGED <<redis, redisUp, versions, age>>
    BY <1>7 DEF CachePromote
  <2>2. MemoryOK'
    <3> SUFFICES ASSUME NEW q \in CacheProcesses, memory'[q] # NoEntry
                 PROVE  /\ memory'[q] \in [val : Known, left : Nat \ {0}]
                        /\ age[memory'[q].val] + memory'[q].left <= TooOld
      BY <2>b
    <3>1. CASE q = p
      BY <2>1, <2>a, <3>1, PromotedIsYoung
    <3>2. CASE q # p
      <4>1. memory'[q] = memory[q]
        BY <2>1, <3>2, KeptInMemory
      <4> QED
        BY <4>1, SMTT(30)
    <3> QED
      BY <3>1, <3>2
  <2>c. memory' \in [CacheProcesses -> [val : Nat, left : Nat]]
    BY <2>1, KeptInMemory
  <2> QED
    <3>1. got' \in [CacheProcesses -> Nat] /\ NothingReadTooLate'
      BY <1>7, <2>a, SMTT(30) DEF CachePromote, Return
    <3>2. command' \in [CacheProcesses -> [at : {"none", "set", "get", "del"}, val : Nat]] /\ CommandsOK'
      BY <1>7, <2>b, SMTT(30) DEF CachePromote
    <3>3. CacheTypeOK' /\ RedisOK'
      BY <2>b, <2>c, <3>1, <3>2, SMTT(30)
    <3> QED
      BY <2>2, <3>1, <3>2, <3>3
<1>8. ASSUME NEW p \in CacheProcesses, CacheSetArrives(p) PROVE CacheInv'
  <2>1. CacheTypeOK'
    BY <1>8, SMTT(30) DEF CacheSetArrives
  <2>2. MemoryOK'
    BY <1>8, SMTT(30) DEF CacheSetArrives
  <2>3. RedisOK'
    BY <1>8, SMTT(30) DEF CacheSetArrives
  <2>4. CommandsOK'
    BY <1>8, SMTT(30) DEF CacheSetArrives
  <2>5. NothingReadTooLate'
    BY <1>8, SMTT(30) DEF CacheSetArrives
  <2> QED
    BY <2>1, <2>2, <2>3, <2>4, <2>5
<1>9. ASSUME NEW p \in CacheProcesses, CacheDelete(p) PROVE CacheInv'
  <2>1. CacheTypeOK'
    BY <1>9, SMTT(30) DEF CacheDelete
  <2>2. MemoryOK'
    BY <1>9, SMTT(30) DEF CacheDelete
  <2>3. RedisOK'
    BY <1>9, SMTT(30) DEF CacheDelete
  <2>4. CommandsOK'
    BY <1>9, SMTT(30) DEF CacheDelete
  <2>5. NothingReadTooLate'
    BY <1>9, SMTT(30) DEF CacheDelete
  <2> QED
    BY <2>1, <2>2, <2>3, <2>4, <2>5
<1>10. ASSUME NEW p \in CacheProcesses, CacheReadBeforeDelete(p) PROVE CacheInv'
  <2>1. redis.val \in Versions /\ Keep(p, redis.val, MemoryTtl) /\ MemoryTtl \in Nat \ {0}
    BY <1>10, SMTT(30) DEF CacheReadBeforeDelete, Promote
  <2>a. redis.val \in Known /\ age[redis.val] \in Nat /\ age[redis.val] < CacheTtl
    BY <1>10, <2>1, SMTT(30) DEF CacheReadBeforeDelete
  <2>b. UNCHANGED <<redis, redisUp, versions, age>>
    BY <1>10 DEF CacheReadBeforeDelete
  <2>2. MemoryOK'
    <3> SUFFICES ASSUME NEW q \in CacheProcesses, memory'[q] # NoEntry
                 PROVE  /\ memory'[q] \in [val : Known, left : Nat \ {0}]
                        /\ age[memory'[q].val] + memory'[q].left <= TooOld
      BY <2>b
    <3>1. CASE q = p
      BY <2>1, <2>a, <3>1, PromotedIsYoung
    <3>2. CASE q # p
      <4>1. memory'[q] = memory[q]
        BY <2>1, <3>2, KeptInMemory
      <4> QED
        BY <4>1, SMTT(30)
    <3> QED
      BY <3>1, <3>2
  <2>c. memory' \in [CacheProcesses -> [val : Nat, left : Nat]]
    BY <2>1, KeptInMemory
  <2> QED
    <3>1. got' \in [CacheProcesses -> Nat] /\ NothingReadTooLate'
      BY <1>10, <2>a, SMTT(30) DEF CacheReadBeforeDelete, Return
    <3>2. command' \in [CacheProcesses -> [at : {"none", "set", "get", "del"}, val : Nat]] /\ CommandsOK'
      BY <1>10, <2>b, SMTT(30) DEF CacheReadBeforeDelete
    <3>3. CacheTypeOK' /\ RedisOK'
      BY <2>b, <2>c, <3>1, <3>2, SMTT(30)
    <3> QED
      BY <2>2, <3>1, <3>2, <3>3
<1>11. ASSUME NEW p \in CacheProcesses, CacheDeleteArrives(p) PROVE CacheInv'
  <2>1. CacheTypeOK'
    BY <1>11, SMTT(30) DEF CacheDeleteArrives
  <2>2. MemoryOK'
    BY <1>11, SMTT(30) DEF CacheDeleteArrives
  <2>3. RedisOK'
    BY <1>11, SMTT(30) DEF CacheDeleteArrives
  <2>4. CommandsOK'
    BY <1>11, SMTT(30) DEF CacheDeleteArrives
  <2>5. NothingReadTooLate'
    BY <1>11, SMTT(30) DEF CacheDeleteArrives
  <2> QED
    BY <2>1, <2>2, <2>3, <2>4, <2>5
<1> QED
  BY <1>1, <1>2, <1>3, <1>4, <1>5, <1>6, <1>7, <1>8, <1>9, <1>10, <1>11 DEF CacheNext, CacheSetExpired, CacheEvict

\* What get returns was set less than the life in Redis and one life in memory ago, whatever the lives, the
\* processes and the order of their commands (promotion to memory in cache.service.ts does not accumulate).
THEOREM ReadsAreYoung == CacheSpec => []NothingReadTooLate
<1>1. CacheInv => NothingReadTooLate
  BY DEF CacheInv
<1> QED
  BY CacheStarts, CacheStep, <1>1, PTL DEF CacheSpec

----------------------------------------------------------------------------
(***************************************************************************)
(* The customers of one email, for any number of resolutions, retries and  *)
(* failures of the merchant service.                                       *)
(*                                                                         *)
(* The excuses are counted where they arise, the duplicates much later: in *)
(* between a resolution that will create a customer is under way.  So it   *)
(* is counted as well, and, while the email has no customer yet, so is one *)
(* that is still looking (Sure).  Excuses stop counting at MaxCustomers,   *)
(* which the customers never exceed.                                       *)
(***************************************************************************)
Listing(e)  == {s \in Resolvers : resolving[s].at = "list" /\ resolving[s].email = e}
Creating(e) == {s \in Resolvers : resolving[s].at = "create" /\ resolving[s].email = e}

ResolvingOK ==
  /\ resolving = [s \in Resolvers |-> resolving[s]]
  /\ \A s \in Resolvers :
       /\ resolving[s].at = "list"   => resolving[s] \in [at : {"list"}, email : Emails, create : BOOLEAN]
       /\ resolving[s].at = "create" => resolving[s] \in [at : {"create"}, email : Emails, tries : Nat]
CustomersOK ==
  /\ IsFiniteSet(customers) /\ Cardinality(customers) <= MaxCustomers
  /\ excuses \in [Emails -> Nat] /\ \A e \in Emails : excuses[e] <= MaxCustomers

\* The customers an email has or will surely have, as far as nothing more goes wrong.
Sure(e) ==
  IF Owned(e) = {} THEN Cardinality(Creating(e)) + Cardinality(Listing(e))
  ELSE Cardinality(Owned(e)) + Cardinality(Creating(e))
SureExcused == \A e \in Emails : excuses[e] = MaxCustomers \/ Sure(e) <= 1 + excuses[e]

CustomersInv == ResolvingOK /\ CustomersOK /\ SureExcused

----------------------------------------------------------------------------
LEMMA Finite ==
  ASSUME CustomersInv, NEW e
  PROVE  /\ IsFiniteSet(Owned(e)) /\ IsFiniteSet(Listing(e)) /\ IsFiniteSet(Creating(e))
         /\ Cardinality(Owned(e)) \in Nat /\ Cardinality(Listing(e)) \in Nat /\ Cardinality(Creating(e)) \in Nat
         /\ Cardinality(Owned(e)) <= Cardinality(customers) /\ Cardinality(customers) \in Nat
         /\ Owned(e) # {} => Cardinality(Owned(e)) >= 1
         /\ Owned(e) = {} => Cardinality(Owned(e)) = 0
<1>1. /\ Owned(e) \subseteq customers /\ Listing(e) \subseteq Resolvers /\ Creating(e) \subseteq Resolvers
      /\ IsFiniteSet(customers) /\ IsFiniteSet(Resolvers)
  BY CustomersAssumption DEF Owned, Listing, Creating, CustomersInv, CustomersOK
<1>2. /\ IsFiniteSet(Owned(e)) /\ IsFiniteSet(Listing(e)) /\ IsFiniteSet(Creating(e))
      /\ Cardinality(Owned(e)) <= Cardinality(customers)
  BY <1>1, FS_Subset
<1>3. /\ Cardinality(Owned(e)) \in Nat /\ Cardinality(Listing(e)) \in Nat /\ Cardinality(Creating(e)) \in Nat
      /\ Cardinality(customers) \in Nat
  BY <1>1, <1>2, FS_CardinalityType
<1>4. Cardinality(Owned(e)) = 0 <=> Owned(e) = {}
  BY <1>2, FS_EmptySet
<1> QED
  BY <1>2, <1>3, <1>4

\* One member more or less.
LEMMA OneMore ==
  ASSUME NEW S, IsFiniteSet(S), NEW x
  PROVE  /\ Cardinality(S) \in Nat
         /\ x \notin S => Cardinality(S \cup {x}) = Cardinality(S) + 1
         /\ x \in S => Cardinality(S \ {x}) = Cardinality(S) - 1 /\ Cardinality(S) >= 1
<1>1. Cardinality(S) \in Nat
  BY FS_CardinalityType
<1>2. x \notin S => Cardinality(S \cup {x}) = Cardinality(S) + 1
  BY FS_AddElement
<1>3. x \in S => Cardinality(S \ {x}) = Cardinality(S) - 1 /\ IsFiniteSet(S \ {x})
  BY FS_RemoveElement, FS_Subset
<1>4. x \in S => Cardinality(S \ {x}) \in Nat
  BY <1>3, FS_CardinalityType
<1> QED
  BY <1>1, <1>2, <1>3, <1>4

\* The customers grow by one, which may be of the email.
LEMMA CustomerAdded ==
  ASSUME CustomersInv, NEW c, customers' = customers \cup {c}, Cardinality(customers) < MaxCustomers
  PROVE  /\ IsFiniteSet(customers') /\ Cardinality(customers') <= MaxCustomers
         /\ \A e : /\ c.email = e => Owned(e)' = Owned(e) \cup {c}
                                       /\ Cardinality(Owned(e)') <= Cardinality(Owned(e)) + 1
                                       /\ Cardinality(Owned(e)') \in Nat
                   /\ c.email # e => Owned(e)' = Owned(e)
<1>1. IsFiniteSet(customers) /\ MaxCustomers \in Nat
  BY CustomersAssumption DEF CustomersInv, CustomersOK
<1>2. ASSUME NEW S, IsFiniteSet(S)
      PROVE  IsFiniteSet(S \cup {c}) /\ Cardinality(S \cup {c}) <= Cardinality(S) + 1
             /\ Cardinality(S \cup {c}) \in Nat
  <2>1. IsFiniteSet(S \cup {c}) /\ Cardinality(S) \in Nat
    BY <1>2, FS_AddElement, FS_CardinalityType
  <2>2. CASE c \in S
    <3>1. S \cup {c} = S
      BY <2>2
    <3> QED
      BY <2>1, <3>1
  <2>3. CASE c \notin S
    BY <1>2, <2>1, <2>3, FS_AddElement
  <2> QED
    BY <2>2, <2>3
<1>3. IsFiniteSet(customers') /\ Cardinality(customers') <= Cardinality(customers) + 1
      /\ Cardinality(customers) \in Nat /\ Cardinality(customers') \in Nat
  BY <1>1, <1>2, FS_CardinalityType
<1>4. \A e : /\ c.email = e => Owned(e)' = Owned(e) \cup {c}
             /\ c.email # e => Owned(e)' = Owned(e)
  BY DEF Owned
<1> QED
  BY <1>1, <1>2, <1>3, <1>4, Finite

----------------------------------------------------------------------------
\* Nobody has a customer, and nobody asks.
LEMMA CustomersStart == CustomersInit => CustomersInv
<1> SUFFICES ASSUME CustomersInit PROVE CustomersInv
  OBVIOUS
<1>1. ResolvingOK
  BY DEF CustomersInit, ResolvingOK, Resting
<1>2. CustomersOK
  BY CustomersAssumption, FS_EmptySet DEF CustomersInit, CustomersOK
<1>3. ASSUME NEW e \in Emails PROVE Sure(e) <= 1 + excuses[e]
  <2>1. Owned(e) = {} /\ Creating(e) = {} /\ Listing(e) = {} /\ excuses[e] = 0
    BY DEF CustomersInit, Owned, Creating, Listing, Resting
  <2> QED
    BY <2>1, FS_EmptySet, SMT DEF Sure
<1> QED
  BY <1>1, <1>2, <1>3 DEF CustomersInv, SureExcused

\* One resolution moves: it counts among those that look, or create, or no more.
LEMMA Moved ==
  ASSUME CustomersInv, NEW s \in Resolvers, NEW r, Go(s, r), NEW e
  PROVE  /\ s \in Listing(e)'  <=> r.at = "list" /\ r.email = e
         /\ s \in Creating(e)' <=> r.at = "create" /\ r.email = e
         /\ (s \in Listing(e)' <=> s \in Listing(e)) => Cardinality(Listing(e)') = Cardinality(Listing(e))
         /\ s \in Listing(e)' /\ s \notin Listing(e) => Cardinality(Listing(e)') = Cardinality(Listing(e)) + 1
         /\ s \notin Listing(e)' /\ s \in Listing(e) => /\ Cardinality(Listing(e)') = Cardinality(Listing(e)) - 1
                                                      /\ Cardinality(Listing(e)) >= 1
         /\ (s \in Creating(e)' <=> s \in Creating(e)) => Cardinality(Creating(e)') = Cardinality(Creating(e))
         /\ s \in Creating(e)' /\ s \notin Creating(e) => Cardinality(Creating(e)') = Cardinality(Creating(e)) + 1
         /\ s \notin Creating(e)' /\ s \in Creating(e) => /\ Cardinality(Creating(e)') = Cardinality(Creating(e)) - 1
                                                        /\ Cardinality(Creating(e)) >= 1
<1>1. resolving' = [t \in Resolvers |-> IF t = s THEN r ELSE resolving[t]]
  BY Zenon DEF CustomersInv, ResolvingOK, Go
<1>2. /\ s \in Listing(e)'  <=> r.at = "list" /\ r.email = e
      /\ s \in Creating(e)' <=> r.at = "create" /\ r.email = e
      /\ Listing(e)'  = IF s \in Listing(e)' THEN Listing(e) \cup {s} ELSE Listing(e) \ {s}
      /\ Creating(e)' = IF s \in Creating(e)' THEN Creating(e) \cup {s} ELSE Creating(e) \ {s}
  BY <1>1 DEF Listing, Creating
<1>3. IsFiniteSet(Listing(e)) /\ IsFiniteSet(Creating(e))
  BY Finite
<1> DEFINE L == Listing(e)
           C == Creating(e)
<1>4. /\ s \notin L => Cardinality(L \cup {s}) = Cardinality(L) + 1
      /\ s \in L => Cardinality(L \ {s}) = Cardinality(L) - 1 /\ Cardinality(L) >= 1
      /\ s \notin C => Cardinality(C \cup {s}) = Cardinality(C) + 1
      /\ s \in C => Cardinality(C \ {s}) = Cardinality(C) - 1 /\ Cardinality(C) >= 1
  BY <1>3, OneMore
<1>5. /\ s \in L => L \cup {s} = L
      /\ s \notin L => L \ {s} = L
      /\ s \in C => C \cup {s} = C
      /\ s \notin C => C \ {s} = C
  OBVIOUS
<1> HIDE DEF Listing, Creating
<1> QED
  BY <1>2, <1>4, <1>5, Zenon

\* The record a resolution moves to keeps the table in order.
LEMMA MovesInOrder ==
  ASSUME CustomersInv, NEW s \in Resolvers, NEW r, Go(s, r),
         r.at = "list"   => r \in [at : {"list"}, email : Emails, create : BOOLEAN],
         r.at = "create" => r \in [at : {"create"}, email : Emails, tries : Nat]
  PROVE  ResolvingOK'
<1>1. resolving' = [t \in Resolvers |-> IF t = s THEN r ELSE resolving[t]]
  BY Zenon DEF CustomersInv, ResolvingOK, Go
<1>2. /\ resolving' = [t \in Resolvers |-> resolving'[t]] /\ resolving'[s] = r
      /\ \A t \in Resolvers \ {s} : resolving'[t] = resolving[t]
  BY <1>1
<1> QED
  BY <1>2, Zenon DEF CustomersInv, ResolvingOK

\* An excuse is counted, unless as many are as there can be customers.
LEMMA Excused ==
  ASSUME CustomersInv, NEW e \in Emails, Excuse(e)
  PROVE  /\ excuses' \in [Emails -> Nat] /\ \A f \in Emails : excuses'[f] <= MaxCustomers
         /\ \A f \in Emails \ {e} : excuses'[f] = excuses[f]
         /\ excuses'[e] = MaxCustomers \/ (excuses[e] # MaxCustomers /\ excuses'[e] = excuses[e] + 1)
<1>1. excuses \in [Emails -> Nat] /\ MaxCustomers \in Nat /\ \A f \in Emails : excuses[f] <= MaxCustomers
  BY CustomersAssumption DEF CustomersInv, CustomersOK
<1>2. excuses' = [excuses EXCEPT ![e] = IF @ < MaxCustomers THEN @ + 1 ELSE @]
  BY DEF Excuse
<1> QED
  BY <1>1, <1>2, SMT

LEMMA BeginStep ==
  ASSUME CustomersInv, NEW s \in Resolvers, NEW m \in Emails, NEW create \in BOOLEAN, ResolveBegin(s, m, create)
  PROVE  CustomersInv'
<1> DEFINE r == [at |-> "list", email |-> m, create |-> create]
<1>1. /\ resolving[s].at \in {"idle", "done"} /\ Go(s, r) /\ UNCHANGED customers
      /\ IF Overlapping(s, m) THEN Excuse(m) ELSE UNCHANGED excuses
  BY DEF ResolveBegin
<1>2. /\ r \in [at : {"list"}, email : Emails, create : BOOLEAN] /\ r.at = "list" /\ r.email = m
  OBVIOUS
<1> HIDE DEF r
<1>3. ResolvingOK'
  BY <1>1, <1>2, MovesInOrder
<1>4. CustomersOK'
  BY <1>1, Excused DEF CustomersInv, CustomersOK
<1>5. ASSUME NEW e \in Emails PROVE (excuses[e] = MaxCustomers \/ Sure(e) <= 1 + excuses[e])'
  <2>1. /\ Owned(e)' = Owned(e) /\ s \notin Listing(e) /\ s \notin Creating(e) /\ s \notin Creating(e)'
        /\ s \in Listing(e)' <=> e = m
    <3>1. Owned(e)' = Owned(e) /\ s \notin Listing(e) /\ s \notin Creating(e)
      BY <1>1 DEF Owned, Listing, Creating
    <3>2. s \notin Creating(e)' /\ (s \in Listing(e)' <=> e = m)
      BY <1>1, <1>2, Moved
    <3> QED
      BY <3>1, <3>2
  <2>2. /\ Cardinality(Creating(e)') = Cardinality(Creating(e))
        /\ e # m => Cardinality(Listing(e)') = Cardinality(Listing(e))
        /\ e = m => Cardinality(Listing(e)') = Cardinality(Listing(e)) + 1
    BY <1>1, <2>1, Moved
  <2>3. excuses[e] = MaxCustomers \/ Sure(e) <= 1 + excuses[e]
    BY DEF CustomersInv, SureExcused
  <2>4. /\ Cardinality(Owned(e)) \in Nat /\ Cardinality(Listing(e)) \in Nat /\ Cardinality(Creating(e)) \in Nat
        /\ excuses[e] \in Nat
    BY Finite DEF CustomersInv, CustomersOK
  <2>5. CASE e # m
    <3>1. excuses'[e] = excuses[e]
      BY <1>1, <2>5, Excused
    <3> QED
      BY <2>1, <2>2, <2>3, <2>5, <3>1 DEF Sure
  <2>6. CASE e = m /\ Overlapping(s, m)
    <3>1. excuses'[e] = MaxCustomers \/ (excuses[e] # MaxCustomers /\ excuses'[e] = excuses[e] + 1)
      BY <1>1, <2>6, Excused
    <3> QED
      BY <2>1, <2>2, <2>3, <2>4, <2>6, <3>1, SMT DEF Sure
  <2>7. CASE e = m /\ ~Overlapping(s, m)
    <3>1. Listing(e) = {} /\ Creating(e) = {}
      BY <2>1, <2>7 DEF Overlapping, Listing, Creating
    <3>2. Cardinality(Listing(e)) = 0 /\ Cardinality(Creating(e)) = 0
      BY <3>1, FS_EmptySet
    <3>3. excuses'[e] = excuses[e]
      BY <1>1, <2>7
    <3> QED
      BY <2>1, <2>2, <2>3, <2>4, <2>7, <3>2, <3>3, SMT DEF Sure
  <2> QED
    BY <2>5, <2>6, <2>7
<1> QED
  BY <1>3, <1>4, <1>5 DEF CustomersInv, SureExcused

\* A lookup that finds a customer ends the resolution; one that finds nobody, or fails, may lead to a creation.
LEMMA LookUpStep ==
  ASSUME CustomersInv, NEW s \in Resolvers, LookUp(s) \/ LookUpFails(s)
  PROVE  CustomersInv'
<1> DEFINE m == resolving[s].email
           failed == LookUpFails(s)
<1>1. /\ resolving[s].at = "list" /\ UNCHANGED customers
      /\ resolving[s] \in [at : {"list"}, email : Emails, create : BOOLEAN]
      /\ IF failed THEN Excuse(m) ELSE UNCHANGED excuses
  BY DEF LookUp, LookUpFails, CustomersInv, ResolvingOK
<1>2. m \in Emails
  BY <1>1, Zenon
<1>3. PICK r :
        /\ Go(s, r)
        /\ \/ r.at = "done"
           \/ /\ r \in [at : {"create"}, email : Emails, tries : Nat] /\ r.at = "create" /\ r.email = m
              /\ failed \/ Owned(m) = {}
  <2>1. Unresolved.at = "done" /\ \A c : Resolved(c).at = "done"
    BY DEF Unresolved, Resolved
  <2> DEFINE n == [at |-> "create", email |-> m, tries |-> 0]
  <2>2. n \in [at : {"create"}, email : Emails, tries : Nat] /\ n.at = "create" /\ n.email = m
    BY <1>2
  <2>3. Missing(resolving[s]) \in {n, Unresolved}
    BY DEF Missing
  <2> HIDE DEF n, m
  <2>4. \/ failed /\ Go(s, Missing(resolving[s]))
        \/ Owned(m) = {} /\ Go(s, Missing(resolving[s]))
        \/ \E c : Go(s, Resolved(c))
    BY Zenon DEF LookUp, LookUpFails, m
  <2> QED
    BY <2>1, <2>2, <2>3, <2>4, Zenon
<1> HIDE DEF m, failed
<1>4. ResolvingOK'
  BY <1>3, MovesInOrder
<1>5. CustomersOK'
  BY <1>1, <1>2, Excused DEF CustomersInv, CustomersOK
<1>6. ASSUME NEW e \in Emails PROVE (excuses[e] = MaxCustomers \/ Sure(e) <= 1 + excuses[e])'
  <2>1. /\ Owned(e)' = Owned(e) /\ (s \in Listing(e) <=> e = m) /\ s \notin Creating(e)
    BY <1>1 DEF Owned, Listing, Creating, m
  <2>2. /\ s \notin Listing(e)' /\ (s \in Creating(e)' => e = m /\ (failed \/ Owned(m) = {}))
    BY <1>3, Moved, Zenon
  <2>3. /\ e = m => /\ Cardinality(Listing(e)') = Cardinality(Listing(e)) - 1 /\ Cardinality(Listing(e)) >= 1
                    /\ \/ Cardinality(Creating(e)') = Cardinality(Creating(e))
                       \/ /\ Cardinality(Creating(e)') = Cardinality(Creating(e)) + 1
                          /\ failed \/ Owned(e) = {}
        /\ e # m => /\ Cardinality(Listing(e)') = Cardinality(Listing(e))
                    /\ Cardinality(Creating(e)') = Cardinality(Creating(e))
    BY <1>3, <2>1, <2>2, Moved
  <2>4. excuses[e] = MaxCustomers \/ Sure(e) <= 1 + excuses[e]
    BY DEF CustomersInv, SureExcused
  <2>5. /\ Cardinality(Owned(e)) \in Nat /\ Cardinality(Listing(e)) \in Nat /\ Cardinality(Creating(e)) \in Nat
        /\ excuses[e] \in Nat
    BY Finite DEF CustomersInv, CustomersOK
  <2>6. \/ excuses'[e] = excuses[e] /\ (e = m => ~failed)
        \/ excuses'[e] = MaxCustomers
        \/ e = m /\ failed /\ excuses[e] # MaxCustomers /\ excuses'[e] = excuses[e] + 1
    BY <1>1, <1>2, Excused
  <2> QED
    BY <2>1, <2>3, <2>4, <2>5, <2>6, SMT DEF Sure
<1> QED
  BY <1>4, <1>5, <1>6 DEF CustomersInv, SureExcused

\* A resolution that creates has created, or has given up, or tries again; the service may have created unheard.
LEMMA CreateStep ==
  ASSUME CustomersInv, NEW s \in Resolvers, Create(s) \/ CreateTimesOut(s) \/ CreateRefused(s)
  PROVE  CustomersInv'
<1> DEFINE m == resolving[s].email
<1>1. /\ resolving[s].at = "create"
      /\ resolving[s] \in [at : {"create"}, email : Emails, tries : Nat]
  BY DEF Create, CreateTimesOut, CreateRefused, CustomersInv, ResolvingOK
<1>2. m \in Emails /\ resolving[s].tries + 1 \in Nat
  <2>1. m \in Emails /\ resolving[s].tries \in Nat
    BY <1>1, Zenon
  <2> QED
    BY <2>1
<1>3. PICK r, c :
        /\ Go(s, r) /\ c.email = m
        /\ \/ r.at = "done"
           \/ r \in [at : {"create"}, email : Emails, tries : Nat] /\ r.at = "create" /\ r.email = m
        /\ \/ /\ customers' = customers \cup {c} /\ Cardinality(customers) < MaxCustomers
              /\ r.at = "done" /\ UNCHANGED excuses
           \/ /\ customers' = customers \cup {c} /\ Cardinality(customers) < MaxCustomers
              /\ Excuse(m)
           \/ UNCHANGED <<customers, excuses>>
  <2> DEFINE c == Insert(s, m)
             n == [resolving[s] EXCEPT !.tries = @ + 1]
  <2>1. Unresolved.at = "done" /\ Resolved(c).at = "done" /\ c.email = m
    BY DEF Unresolved, Resolved, Insert
  <2>2. n \in [at : {"create"}, email : Emails, tries : Nat] /\ n.at = "create" /\ n.email = m
    BY <1>1, <1>2, Zenon
  <2>3. Again(resolving[s]) \in {n, Unresolved}
    BY Zenon DEF Again
  <2>4. \/ /\ Go(s, Resolved(c)) /\ UNCHANGED excuses
           /\ customers' = customers \cup {c} /\ Cardinality(customers) < MaxCustomers
        \/ /\ Go(s, Again(resolving[s]))
           /\ \/ UNCHANGED <<customers, excuses>>
              \/ customers' = customers \cup {c} /\ Cardinality(customers) < MaxCustomers /\ Excuse(m)
        \/ Go(s, Unresolved) /\ UNCHANGED <<customers, excuses>>
    BY Zenon DEF Create, CreateTimesOut, CreateRefused
  <2> HIDE DEF n, m, c
  <2> QED
    BY <2>1, <2>2, <2>3, <2>4, Zenon
<1> HIDE DEF m
<1>4. ResolvingOK'
  BY <1>3, MovesInOrder
<1>5. CustomersOK'
  BY <1>2, <1>3, Excused, CustomerAdded DEF CustomersInv, CustomersOK
<1>6. ASSUME NEW e \in Emails PROVE (excuses[e] = MaxCustomers \/ Sure(e) <= 1 + excuses[e])'
  <2>1. s \notin Listing(e) /\ (s \in Creating(e) <=> e = m)
    BY <1>1 DEF Listing, Creating, m
  <2>2. s \notin Listing(e)' /\ (s \in Creating(e)' => e = m /\ r.at = "create")
    BY <1>3, Moved, Zenon
  <2>3. /\ Cardinality(Listing(e)') = Cardinality(Listing(e))
        /\ \/ Cardinality(Creating(e)') = Cardinality(Creating(e)) /\ (e = m => r.at # "done")
           \/ /\ Cardinality(Creating(e)') = Cardinality(Creating(e)) - 1 /\ Cardinality(Creating(e)) >= 1
              /\ e = m
    BY <1>3, <2>1, <2>2, Moved
  <2>4. excuses[e] = MaxCustomers \/ Sure(e) <= 1 + excuses[e]
    BY DEF CustomersInv, SureExcused
  <2>5. /\ Cardinality(Owned(e)) \in Nat /\ Cardinality(Listing(e)) \in Nat /\ Cardinality(Creating(e)) \in Nat
        /\ excuses[e] \in Nat /\ (Owned(e) = {} => Cardinality(Owned(e)) = 0)
    BY Finite DEF CustomersInv, CustomersOK
  <2>6. \/ /\ Owned(e)' = Owned(e) /\ excuses'[e] = excuses[e]
        \/ /\ e = m /\ Owned(e)' # {} /\ Cardinality(Owned(e)') <= Cardinality(Owned(e)) + 1
           /\ Cardinality(Owned(e)') \in Nat
           /\ \/ r.at = "done" /\ excuses'[e] = excuses[e]
              \/ excuses'[e] = MaxCustomers
              \/ excuses[e] # MaxCustomers /\ excuses'[e] = excuses[e] + 1
    <3>1. CASE UNCHANGED <<customers, excuses>>
      BY <3>1 DEF Owned
    <3>2. CASE customers' = customers \cup {c} /\ Cardinality(customers) < MaxCustomers
      <4>1. /\ e = m => Owned(e)' = Owned(e) \cup {c} /\ Cardinality(Owned(e)') <= Cardinality(Owned(e)) + 1
                        /\ Cardinality(Owned(e)') \in Nat
            /\ e # m => Owned(e)' = Owned(e)
        BY <1>3, <3>2, CustomerAdded
      <4>2. (UNCHANGED excuses /\ r.at = "done") \/ Excuse(m) \/ UNCHANGED <<customers, excuses>>
        BY <1>3
      <4>3. CASE UNCHANGED excuses /\ r.at = "done"
        BY <4>1, <4>3
      <4>4. CASE Excuse(m)
        BY <1>2, <4>1, <4>4, Excused
      <4> QED
        BY <3>1, <4>2, <4>3, <4>4
    <3> QED
      BY <1>3, <3>1, <3>2
  <2> QED
    BY <2>3, <2>4, <2>5, <2>6, SMT DEF Sure
<1> QED
  BY <1>4, <1>5, <1>6 DEF CustomersInv, SureExcused

LEMMA CustomersStep == CustomersInv /\ [CustomersNext]_customerVars => CustomersInv'
<1> SUFFICES ASSUME CustomersInv, [CustomersNext]_customerVars PROVE CustomersInv'
  OBVIOUS
<1>1. CASE UNCHANGED customerVars
  BY <1>1 DEF customerVars, CustomersInv, ResolvingOK, CustomersOK, SureExcused, Sure, Owned, Listing, Creating
<1> QED
  BY <1>1, BeginStep, LookUpStep, CreateStep DEF CustomersNext, ResolveStep

\* A customer is created twice for one email only for a cause, each of its own, for any number of concurrent
\* resolutions, retries and lost answers (resolveCustomer, createCustomerFromDetails).
THEOREM DuplicatesHaveCauses == CustomersSpec => []DuplicatesExcused
<1>1. CustomersInv => DuplicatesExcused
  <2> SUFFICES ASSUME CustomersInv, NEW e \in Emails PROVE Cardinality(Owned(e)) <= 1 + excuses[e]
    BY DEF DuplicatesExcused
  <2>1. excuses[e] = MaxCustomers \/ Sure(e) <= 1 + excuses[e]
    BY DEF CustomersInv, SureExcused
  <2>2. /\ Cardinality(Owned(e)) \in Nat /\ Cardinality(Listing(e)) \in Nat /\ Cardinality(Creating(e)) \in Nat
        /\ excuses[e] \in Nat /\ (Owned(e) = {} => Cardinality(Owned(e)) = 0)
        /\ Cardinality(Owned(e)) <= MaxCustomers /\ MaxCustomers \in Nat
    <3>1. Cardinality(customers) <= MaxCustomers /\ Cardinality(customers) \in Nat
      BY Finite DEF CustomersInv, CustomersOK
    <3> QED
      BY <3>1, CustomersAssumption, Finite DEF CustomersInv, CustomersOK
  <2> QED
    BY <2>1, <2>2, SMT DEF Sure
<1> QED
  BY CustomersStart, CustomersStep, <1>1, PTL DEF CustomersSpec

(***************************************************************************)
(* The routes payments are sent along, for any number of providers,        *)
(* requests and keys and any length of a decision's life.                  *)
(*                                                                         *)
(* A decision names only providers of the list it was computed with.  They *)
(* were all listed at that moment (ListedAreHere: a request computes with  *)
(* its copy of the list, and no time passes meanwhile), and none has been  *)
(* gone for longer than the decision is old (KeptAreYoung): that makes     *)
(* "gone for less than one life" hold whenever it is taken from the cache. *)
(***************************************************************************)
\* The names of a decision that is handed on: no undefined one, each once, the selected one first.
LEMMA CandidatesFrom ==
  ASSUME NEW S, NEW d, d.selected \in S, d.fallback \in Seq(S), d.alternatives \in Seq(S)
  PROVE  /\ Candidates(d) \in Seq(S) /\ Distinct(Candidates(d))
         /\ \A i \in DOMAIN Candidates(d) :
              /\ Candidates(d)[i] # "undefined"
              /\ \/ Candidates(d)[i] = d.selected \/ \E j \in DOMAIN d.fallback : Candidates(d)[i] = d.fallback[j]
                 \/ \E j \in DOMAIN d.alternatives : Candidates(d)[i] = d.alternatives[j]
         /\ d.selected # "undefined" => Candidates(d) # << >> /\ Candidates(d)[1] = d.selected
<1> DEFINE head  == InFront(d.selected, d.fallback)
           named == head \o d.alternatives
           G     == ToSet(named) \ {"undefined"}
           all   == Among(named, G)
           idx   == [i \in DOMAIN all |-> i]
           firsts == Among(idx, FirstsOf(all))
           c     == [n \in DOMAIN firsts |-> all[firsts[n]]]
           From(x) == \/ x = d.selected \/ \E j \in DOMAIN d.fallback : x = d.fallback[j]
                      \/ \E j \in DOMAIN d.alternatives : x = d.alternatives[j]
<1>1. NamesOf(d) = all /\ Candidates(d) = c
  <2>1. head = <<d.selected>> \o d.fallback
    BY DEF InFront
  <2>2. NamesOf(d) = all
    BY <2>1 DEF NamesOf
  <2> HIDE DEF all
  <2> QED
    BY <2>2 DEF Candidates
<1>2. /\ head \in Seq(S) /\ Len(head) = Len(d.fallback) + 1 /\ Len(d.fallback) \in Nat
      /\ \A i \in DOMAIN head : head[i] = d.selected \/ \E j \in DOMAIN d.fallback : head[i] = d.fallback[j]
      /\ head[1] = d.selected
  <2>1. \A e \in S, q \in Seq(S) :
          /\ InFront(e, q) \in Seq(S) /\ Len(InFront(e, q)) = Len(q) + 1
          /\ \A i \in DOMAIN InFront(e, q) : InFront(e, q)[i] = e \/ \E j \in DOMAIN q : InFront(e, q)[i] = q[j]
          /\ InFront(e, q)[1] = e
    BY RowInFront
  <2>2. Len(d.fallback) \in Nat
    OBVIOUS
  <2> QED
    BY <2>1, <2>2
<1> HIDE DEF head
<1>3. /\ named \in Seq(S) /\ 1 \in DOMAIN named /\ named[1] = d.selected /\ DOMAIN named = 1 .. Len(named)
      /\ \A i \in DOMAIN named : From(named[i])
  <2> DEFINE alt == d.alternatives
  <2>0. alt \in Seq(S) /\ DOMAIN alt = 1 .. Len(alt) /\ \A i \in 1 .. Len(alt) : From(alt[i])
    OBVIOUS
  <2>1. /\ named \in Seq(S) /\ Len(named) = Len(head) + Len(alt) /\ Len(head) \in Nat /\ Len(alt) \in Nat
        /\ \A i \in 1 .. Len(head) : named[i] = head[i]
        /\ \A i \in 1 .. Len(alt) : named[Len(head) + i] = alt[i]
    <3>1. head \in Seq(S) /\ alt \in Seq(S) /\ named = head \o alt
      BY <1>2
    <3> HIDE DEF named, alt
    <3>2. /\ head \o alt \in Seq(S) /\ Len(head \o alt) = Len(head) + Len(alt) /\ Len(head) \in Nat /\ Len(alt) \in Nat
          /\ \A i \in 1 .. Len(head) : (head \o alt)[i] = head[i]
          /\ \A i \in 1 .. Len(alt) : (head \o alt)[Len(head) + i] = alt[i]
      BY ONLY <3>1, OneThenOther
    <3> QED
      BY <3>1, <3>2, Zenon
  <2>2. \A i \in 1 .. Len(head) : From(head[i])
    BY <1>2
  <2> HIDE DEF named, alt, From
  <2>3. DOMAIN named = 1 .. Len(head) + Len(alt)
    BY <2>1
  <2>4. ASSUME NEW i \in DOMAIN named PROVE From(named[i])
    <3>1. CASE i <= Len(head)
      BY <2>1, <2>2, <2>3, <3>1
    <3>2. CASE i > Len(head)
      <4> DEFINE j == i - Len(head)
      <4>1. j \in 1 .. Len(alt) /\ i = Len(head) + j
        BY <2>1, <2>3, <3>2
      <4> HIDE DEF j
      <4>2. named[Len(head) + j] = alt[j] /\ From(alt[j])
        BY <2>0, <2>1, <4>1
      <4> QED
        BY <4>1, <4>2
    <3> QED
      BY <2>1, <2>3, <3>1, <3>2
  <2> QED
    BY <1>2, <2>1, <2>3, <2>4
<1>4. \A i \in DOMAIN named : named[i] \in G <=> named[i] # "undefined"
  BY DEF ToSet
<1>5. \A x \in G : x # "undefined"
  OBVIOUS
<1> HIDE DEF named, G, From
<1>6. /\ all \in Seq(S) /\ DOMAIN all = 1 .. Len(all) /\ Len(all) \in Nat
      /\ \A i \in DOMAIN all : all[i] # "undefined" /\ From(all[i])
      /\ d.selected # "undefined" => all # << >> /\ all[1] = d.selected
  <2>1. /\ all \in Seq(S) /\ \A i \in DOMAIN all : all[i] \in G /\ \E j \in DOMAIN named : all[i] = named[j]
        /\ \A j \in DOMAIN named : named[j] \in G /\ (\A m \in 1 .. j - 1 : named[m] \notin G) =>
             all # << >> /\ all[1] = named[j]
    BY <1>3, AmongIs
  <2>2. d.selected # "undefined" => all # << >> /\ all[1] = d.selected
    <3>1. d.selected # "undefined" => named[1] \in G
      BY <1>3, <1>4
    <3>2. \A m \in 1 .. 1 - 1 : named[m] \notin G
      OBVIOUS
    <3> QED
      BY <1>3, <2>1, <3>1, <3>2
  <2>3. \A i \in DOMAIN all : all[i] # "undefined" /\ From(all[i])
    BY <1>3, <1>5, <2>1
  <2> QED
    BY <2>1, <2>2, <2>3
<1> HIDE DEF all
<1>7. idx \in Seq(DOMAIN all) /\ Distinct(idx) /\ DOMAIN idx = DOMAIN all /\ \A i \in DOMAIN idx : idx[i] = i
  BY <1>6 DEF Distinct
<1> HIDE DEF idx
<1>8. /\ firsts \in Seq(DOMAIN all) /\ \A n \in DOMAIN firsts : firsts[n] \in FirstsOf(all) /\ firsts[n] \in DOMAIN all
      /\ all # << >> => firsts # << >> /\ firsts[1] = 1
  <2>1. /\ firsts \in Seq(DOMAIN all) /\ \A n \in DOMAIN firsts : firsts[n] \in FirstsOf(all)
        /\ \A j \in DOMAIN idx : idx[j] \in FirstsOf(all) /\ (\A m \in 1 .. j - 1 : idx[m] \notin FirstsOf(all)) =>
             firsts # << >> /\ firsts[1] = idx[j]
    <3> DEFINE F == FirstsOf(all)
    <3> HIDE DEF F
    <3>1. Among(idx, F) \in Seq(DOMAIN all) /\ (\A n \in DOMAIN Among(idx, F) : Among(idx, F)[n] \in F)
      BY <1>7, AmongIs
    <3>2. \A j \in DOMAIN idx : idx[j] \in F /\ (\A m \in 1 .. j - 1 : idx[m] \notin F) =>
             Among(idx, F) # << >> /\ Among(idx, F)[1] = idx[j]
      BY <1>7, AmongIs, SMTT(30)
    <3> QED
      BY <3>1, <3>2 DEF F
  <2> HIDE DEF firsts
  <2>2. all # << >> => 1 \in DOMAIN all /\ 1 \in FirstsOf(all)
    BY <1>6 DEF FirstsOf
  <2>3. \A m \in 1 .. 1 - 1 : idx[m] \notin FirstsOf(all)
    OBVIOUS
  <2> QED
    BY <1>7, <2>1, <2>2, <2>3
<1>9. Distinct(firsts)
  BY <1>7, AmongDistinct
<1> HIDE DEF firsts
<1>10. /\ c \in Seq(S) /\ DOMAIN c = DOMAIN firsts /\ \A n \in DOMAIN c : c[n] = all[firsts[n]]
       /\ firsts # << >> => c # << >> /\ 1 \in DOMAIN c
  <2>1. DOMAIN firsts = 1 .. Len(firsts) /\ Len(firsts) \in Nat /\ (firsts # << >> => Len(firsts) # 0)
    BY <1>8
  <2>2. \A n \in DOMAIN firsts : all[firsts[n]] \in S
    BY <1>6, <1>8
  <2>3. c \in [1 .. Len(firsts) -> S]
    BY <2>1, <2>2
  <2>4. c \in Seq(S) /\ Len(c) = Len(firsts)
    BY <2>1, <2>3
  <2>5. firsts # << >> => Len(c) # 0 /\ 1 \in DOMAIN firsts
    BY <2>1, <2>4
  <2>6. DOMAIN c = DOMAIN firsts /\ \A n \in DOMAIN c : c[n] = all[firsts[n]]
    OBVIOUS
  <2> HIDE DEF c
  <2>7. Len(c) # 0 => c # << >>
    OBVIOUS
  <2> QED
    BY <2>4, <2>5, <2>6, <2>7
<1> HIDE DEF c
<1>11. Distinct(c)
  <2>1. ASSUME NEW i \in FirstsOf(all), NEW j \in FirstsOf(all), all[i] = all[j] PROVE i = j
    <3>1. i \in 1 .. Len(all) /\ j \in 1 .. Len(all)
      BY <1>6 DEF FirstsOf
    <3>2. ~(i < j) /\ ~(j < i)
      <4>1. (i < j => i \in 1 .. j - 1) /\ (j < i => j \in 1 .. i - 1)
        BY <1>6, <3>1
      <4> QED
        BY <2>1, <4>1 DEF FirstsOf
    <3> QED
      BY <1>6, <3>1, <3>2
  <2>2. ASSUME NEW m \in DOMAIN c, NEW n \in DOMAIN c, c[m] = c[n] PROVE m = n
    <3>1. firsts[m] = firsts[n]
      BY <1>8, <1>10, <2>1, <2>2
    <3> QED
      BY <1>9, <1>10, <3>1 DEF Distinct
  <2> QED
    BY <2>2 DEF Distinct
<1>12. \A n \in DOMAIN c : c[n] # "undefined" /\ From(c[n])
  BY <1>6, <1>8, <1>10
<1>13. d.selected # "undefined" => c # << >> /\ c[1] = d.selected
  BY <1>6, <1>8, <1>10
<1> QED
  BY <1>1, <1>10, <1>11, <1>12, <1>13 DEF From

----------------------------------------------------------------------------
\* What the rankings of providers come to: the one placed first leads, and only the first four are named.
Rankings == {ranked \in Seq(RoutedTsps) : ranked # << >>}
RouteDecisions ==
  {Decision(ranked) : ranked \in Rankings} \cup {EmergencyDecision(ranked) : ranked \in Rankings}
    \cup {OverrideDecision, LastResortDecision}

LEMMA UpToIs ==
  ASSUME NEW S, NEW s \in Seq(S), s # << >>, NEW n \in 1 .. 4
  PROVE  /\ UpTo(s, n) \in Seq(S) /\ UpTo(s, n) # << >> /\ Tail(UpTo(s, n)) \in Seq(S)
         /\ \A i \in DOMAIN UpTo(s, n) : i \in DOMAIN s /\ i <= 4 /\ UpTo(s, n)[i] = s[i]
         /\ \A i \in DOMAIN Tail(UpTo(s, n)) : i + 1 \in DOMAIN s /\ i + 1 <= 4 /\ Tail(UpTo(s, n))[i] = s[i + 1]
<1> DEFINE m == AtMost(Len(s), n)
           u == SubSeq(s, 1, m)
<1>1. m \in 1 .. Len(s) /\ m <= 4 /\ Len(s) \in Nat /\ DOMAIN s = 1 .. Len(s)
  BY DEF AtMost
<1>2. u = UpTo(s, n)
  BY DEF UpTo
<1> HIDE DEF m
<1>3. u \in Seq(S) /\ Len(u) = m /\ DOMAIN u = 1 .. m /\ \A i \in 1 .. m : u[i] = s[i]
  BY <1>1
<1> HIDE DEF u
<1>4. u # << >>
  BY <1>1, <1>3
<1>5. Tail(u) \in Seq(S) /\ DOMAIN Tail(u) = 1 .. m - 1 /\ \A i \in 1 .. m - 1 : Tail(u)[i] = u[i + 1]
  BY <1>1, <1>3, <1>4
<1>6. \A i \in 1 .. m - 1 : i + 1 \in 1 .. m /\ i + 1 <= 4 /\ i + 1 \in DOMAIN s
  BY <1>1
<1>7. \A i \in 1 .. m : i <= 4 /\ i \in DOMAIN s
  BY <1>1
<1> QED
  BY <1>2, <1>3, <1>4, <1>5, <1>6, <1>7

\* Candidates named by a ranking are of its first four, and begin with its first.
LEMMA RankingNames ==
  ASSUME NEW ranked \in Rankings, NEW d \in {Decision(ranked), EmergencyDecision(ranked)}
  PROVE  /\ Candidates(d) \in Seq(RoutedTsps) /\ Distinct(Candidates(d))
         /\ \A i \in DOMAIN Candidates(d) : \E j \in DOMAIN ranked : j <= 4 /\ Candidates(d)[i] = ranked[j]
         /\ Candidates(d) # << >> /\ Candidates(d)[1] = ranked[1]
<1>1. ranked \in Seq(RoutedTsps) /\ ranked # << >> /\ 1 \in DOMAIN ranked /\ ranked[1] \in RoutedTsps
  BY DEF Rankings
<1>2. PICK n \in {3, 4} :
        d = [selected |-> ranked[1], fallback |-> UpTo(ranked, 3), alternatives |-> Tail(UpTo(ranked, n))]
  BY DEF Decision, EmergencyDecision
<1> DEFINE c == Candidates(d)
<1>3. d.selected = ranked[1] /\ d.fallback = UpTo(ranked, 3) /\ d.alternatives = Tail(UpTo(ranked, n))
  BY <1>2
<1>4. /\ d.fallback \in Seq(RoutedTsps)
      /\ \A i \in DOMAIN d.fallback : i \in DOMAIN ranked /\ i <= 4 /\ d.fallback[i] = ranked[i]
  <2> DEFINE u == UpTo(ranked, 3)
  <2>1. u \in Seq(RoutedTsps) /\ \A i \in DOMAIN u : i \in DOMAIN ranked /\ i <= 4 /\ u[i] = ranked[i]
    BY <1>1, UpToIs
  <2> HIDE DEF u
  <2> QED
    BY <1>3, <2>1 DEF u
<1>5. /\ d.alternatives \in Seq(RoutedTsps)
      /\ \A i \in DOMAIN d.alternatives : i + 1 \in DOMAIN ranked /\ i + 1 <= 4 /\ d.alternatives[i] = ranked[i + 1]
  <2>1. n \in 1 .. 4
    OBVIOUS
  <2> DEFINE u == UpTo(ranked, n)
  <2>2. /\ Tail(u) \in Seq(RoutedTsps)
        /\ \A i \in DOMAIN Tail(u) : i + 1 \in DOMAIN ranked /\ i + 1 <= 4 /\ Tail(u)[i] = ranked[i + 1]
    BY <1>1, <2>1, UpToIs
  <2> HIDE DEF u
  <2> QED
    BY <1>3, <2>2 DEF u
<1>6. d.selected # "undefined" /\ d.selected \in RoutedTsps
  BY <1>1, <1>3, RoutedTspsAssumption
<1>7. /\ c \in Seq(RoutedTsps) /\ Distinct(c) /\ c # << >> /\ c[1] = d.selected
      /\ \A i \in DOMAIN c : \/ c[i] = d.selected \/ \E j \in DOMAIN d.fallback : c[i] = d.fallback[j]
                             \/ \E j \in DOMAIN d.alternatives : c[i] = d.alternatives[j]
  BY <1>4, <1>5, <1>6, CandidatesFrom
<1> HIDE DEF c
<1>8. ASSUME NEW i \in DOMAIN c PROVE \E j \in DOMAIN ranked : j <= 4 /\ c[i] = ranked[j]
  BY <1>1, <1>3, <1>4, <1>5, <1>7
<1> QED
  BY <1>3, <1>7, <1>8 DEF c

LEMMA OtherNames ==
  /\ Candidates(OverrideDecision) = << >>
  /\ Candidates(LastResortDecision) = <<"kingdom_bank">>
<1>1. /\ OverrideDecision.selected = "undefined" /\ OverrideDecision.fallback = <<"undefined">>
      /\ OverrideDecision.alternatives = << >>
  BY DEF OverrideDecision
<1>2. /\ LastResortDecision.selected = "kingdom_bank" /\ LastResortDecision.fallback = <<"kingdom_bank">>
      /\ LastResortDecision.alternatives = << >>
  BY DEF LastResortDecision
<1> DEFINE o == Candidates(OverrideDecision)
           l == Candidates(LastResortDecision)
<1>3. o \in Seq({"undefined"}) /\ \A i \in DOMAIN o : o[i] # "undefined"
  <2> DEFINE d == OverrideDecision
             S == {"undefined"}
  <2>1. d.selected \in S /\ d.fallback \in Seq(S) /\ d.alternatives \in Seq(S)
    BY <1>1
  <2> HIDE DEF d, S
  <2>2. Candidates(d) \in Seq(S) /\ \A i \in DOMAIN Candidates(d) : Candidates(d)[i] # "undefined"
    BY <2>1, CandidatesFrom
  <2> QED
    BY <2>2 DEF d, S
<1>4. l \in Seq({"kingdom_bank"}) /\ Distinct(l) /\ l # << >>
  <2> DEFINE d == LastResortDecision
             S == {"kingdom_bank"}
  <2>1. d.selected \in S /\ d.fallback \in Seq(S) /\ d.alternatives \in Seq(S) /\ d.selected # "undefined"
    BY <1>2
  <2> HIDE DEF d, S
  <2>2. Candidates(d) \in Seq(S) /\ Distinct(Candidates(d)) /\ Candidates(d) # << >>
    BY <2>1, CandidatesFrom
  <2> QED
    BY <2>2 DEF d, S
<1> HIDE DEF o, l
<1>5. o = << >>
  <2>1. \A i \in DOMAIN o : o[i] = "undefined"
    BY <1>3
  <2>2. DOMAIN o = {} /\ Len(o) = 0
    BY <1>3, <2>1
  <2> QED
    BY <1>3, <2>2
<1>6. l = <<"kingdom_bank">>
  <2>1. Len(l) \in Nat /\ DOMAIN l = 1 .. Len(l) /\ Len(l) # 0 /\ \A i \in 1 .. Len(l) : l[i] = "kingdom_bank"
    BY <1>4
  <2>2. ~(Len(l) >= 2)
    BY <1>4, <2>1 DEF Distinct
  <2>3. Len(l) = 1 /\ l[1] = "kingdom_bank"
    BY <2>1, <2>2
  <2>4. <<"kingdom_bank">> \in Seq({"kingdom_bank"}) /\ Len(<<"kingdom_bank">>) = 1
    OBVIOUS
  <2> QED
    BY <1>4, <2>3, <2>4, SameSequence
<1> QED
  BY <1>5, <1>6 DEF o, l

\* Whatever was decided, no provider is named twice and at most four are.
LEMMA NamedOnce ==
  ASSUME NEW d \in RouteDecisions
  PROVE  Len(Candidates(d)) <= 4 /\ Cardinality(ToSet(Candidates(d))) = Len(Candidates(d))
<1> DEFINE c == Candidates(d)
<1>1. CASE \E ranked \in Rankings : d \in {Decision(ranked), EmergencyDecision(ranked)}
  <2>1. PICK ranked \in Rankings : d \in {Decision(ranked), EmergencyDecision(ranked)}
    BY <1>1
  <2>2. /\ c \in Seq(RoutedTsps) /\ Distinct(c)
        /\ \A i \in DOMAIN c : \E j \in DOMAIN ranked : j <= 4 /\ c[i] = ranked[j]
    BY <2>1, RankingNames
  <2> HIDE DEF c
  <2>3. Cardinality(ToSet(c)) = Len(c) /\ IsFiniteSet(ToSet(c)) /\ Len(c) \in Nat
    BY <2>2, DistinctLength
  <2> DEFINE m    == AtMost(Len(ranked), 4)
             four == {ranked[j] : j \in 1 .. m}
             f    == [j \in 1 .. m |-> ranked[j]]
  <2>4. m \in Nat /\ m <= 4 /\ \A j \in DOMAIN ranked : j <= 4 => j \in 1 .. m
    <3>1. Len(ranked) \in Nat /\ DOMAIN ranked = 1 .. Len(ranked)
      BY DEF Rankings
    <3> QED
      BY <3>1 DEF AtMost
  <2> HIDE DEF m
  <2>5. Cardinality(four) <= m /\ IsFiniteSet(four)
    <3>1. f \in Surjection(1 .. m, four)
      BY DEF Surjection
    <3>2. IsFiniteSet(1 .. m) /\ Cardinality(1 .. m) = m
      BY <2>4, FS_Interval
    <3> HIDE DEF four, f
    <3> QED
      BY <3>1, <3>2, FS_Surjection
  <2>6. ToSet(c) \in SUBSET four
    BY <2>2, <2>4 DEF ToSet
  <2> HIDE DEF four
  <2>7. Cardinality(ToSet(c)) <= Cardinality(four) /\ Cardinality(four) \in Nat
    BY <2>5, <2>6, FS_Subset, FS_CardinalityType
  <2> QED
    BY <2>3, <2>4, <2>5, <2>7 DEF c
<1>2. CASE d = OverrideDecision
  <2>1. c = << >> /\ ToSet(<< >>) = {} /\ Len(<< >>) = 0
    BY <1>2, OtherNames DEF ToSet
  <2>2. Cardinality(ToSet(c)) = 0
    BY <2>1, FS_EmptySet
  <2> QED
    BY <2>1, <2>2
<1>3. CASE d = LastResortDecision
  <2>1. c = <<"kingdom_bank">> /\ ToSet(<<"kingdom_bank">>) = {"kingdom_bank"}
    BY <1>3, OtherNames DEF ToSet
  <2> QED
    BY <2>1, FS_Singleton
<1> QED
  BY <1>1, <1>2, <1>3 DEF RouteDecisions

----------------------------------------------------------------------------
RouteTypeOK ==
  /\ listed \in SUBSET RoutedTsps
  /\ goneFor \in [RoutedTsps -> Nat]
  /\ kept \in [RouteKeys -> [decision : RouteDecisions, age : 0 .. DecisionTtl]]
  /\ asked \in [RouteRequests -> {NotAsked, [at |-> "emergency"]}
                                   \cup [at : {"score"}, key : RouteKeys, among : (SUBSET RoutedTsps) \ {{}}]]
\* What is listed is here, and so is what a request computes with: no time passes meanwhile.
ListedAreHere ==
  /\ \A p \in listed : goneFor[p] = 0
  /\ \A r \in RouteRequests : asked[r].at = "score" => \A p \in asked[r].among : goneFor[p] = 0
\* A provider of a decision that is kept has not been gone for longer than the decision is old.
KeptAreYoung ==
  \A k \in RouteKeys : kept[k].age < DecisionTtl =>
    \/ kept[k].decision = LastResortDecision
    \/ \A p \in ToSet(Candidates(kept[k].decision)) \cap RoutedTsps : goneFor[p] <= kept[k].age
RouteInv == RouteTypeOK /\ ListedAreHere /\ KeptAreYoung /\ RoutedNotLongGone /\ CandidatesOnce

LEMMA RoutesStart == RoutingInit => RouteInv
<1> SUFFICES ASSUME RoutingInit PROVE RouteInv
  OBVIOUS
<1>1. NoDecision \in [decision : RouteDecisions, age : 0 .. DecisionTtl] /\ NoDecision.age = DecisionTtl
  BY RoutingAssumption DEF NoDecision, RouteDecisions
<1>2. RouteTypeOK /\ ListedAreHere
  BY <1>1 DEF RoutingInit, RouteTypeOK, ListedAreHere, NotAsked
<1>3. KeptAreYoung
  BY <1>1, RoutingAssumption DEF RoutingInit, KeptAreYoung
<1>4. routed.candidates = << >> /\ routed.gone = {} /\ ToSet(<< >>) = {} /\ Len(<< >>) = 0
  BY DEF RoutingInit, ToSet
<1>5. Cardinality(ToSet(routed.candidates)) = 0
  BY <1>4, FS_EmptySet
<1>6. RoutedNotLongGone /\ CandidatesOnce
  BY <1>4, <1>5 DEF RoutedNotLongGone, CandidatesOnce
<1> QED
  BY <1>2, <1>3, <1>6 DEF RouteInv

\* An answer is sound if its providers have not been gone for long.
LEMMA AnswerSound ==
  ASSUME NEW d \in RouteDecisions, routed' = Gone(d), RouteTypeOK,
         d = LastResortDecision \/ \A p \in ToSet(Candidates(d)) \cap RoutedTsps : goneFor[p] < DecisionTtl
  PROVE  RoutedNotLongGone' /\ CandidatesOnce'
<1>1. /\ routed'.candidates = Candidates(d)
      /\ routed'.gone = {goneFor[p] : p \in ToSet(Candidates(d)) \cap RoutedTsps}
  BY DEF Gone
<1>2. CandidatesOnce'
  BY <1>1, NamedOnce DEF CandidatesOnce
<1>3. RoutedNotLongGone'
  <2>1. CASE d = LastResortDecision
    BY <1>1, <2>1, OtherNames DEF RoutedNotLongGone
  <2>2. CASE \A p \in ToSet(Candidates(d)) \cap RoutedTsps : goneFor[p] < DecisionTtl
    BY <1>1, <2>2 DEF RoutedNotLongGone
  <2> QED
    BY <2>1, <2>2
<1> QED
  BY <1>2, <1>3

\* Whatever order providers that are here are put in, a decision of it is sound for now.
LEMMA RankedAreHere ==
  ASSUME RouteTypeOK, NEW among \in SUBSET RoutedTsps, among # {}, \A p \in among : goneFor[p] = 0,
         NEW ranked \in SetToSeqs(among), NEW d \in {Decision(ranked), EmergencyDecision(ranked)}
  PROVE  d \in RouteDecisions /\ \A p \in ToSet(Candidates(d)) \cap RoutedTsps : goneFor[p] = 0
<1>1. IsFiniteSet(among) /\ Cardinality(among) \in Nat /\ Cardinality(among) # 0
  BY RoutedTspsAssumption, FS_Subset, FS_CardinalityType, FS_EmptySet
<1>2. ranked \in [1 .. Cardinality(among) -> among]
  BY DEF SetToSeqs
<1> DEFINE n == Cardinality(among)
<1> HIDE DEF n
<1>3. n \in Nat /\ n # 0 /\ ranked \in [1 .. n -> among]
  BY <1>1, <1>2 DEF n
<1>4. ranked \in Seq(among) /\ Len(ranked) = n
  BY <1>3
<1>5. ranked \in Rankings /\ \A i \in DOMAIN ranked : ranked[i] \in among
  BY <1>3, <1>4 DEF Rankings
<1>6. \A i \in DOMAIN Candidates(d) : \E j \in DOMAIN ranked : Candidates(d)[i] = ranked[j]
  BY <1>5, RankingNames
<1>7. d \in RouteDecisions
  BY <1>5 DEF RouteDecisions
<1> QED
  BY <1>5, <1>6, <1>7 DEF ToSet

LEMMA RouteCachedKeeps ==
  ASSUME RouteInv, NEW r \in RouteRequests, NEW k \in RouteKeys, RouteCached(r, k) PROVE RouteInv'
<1> DEFINE d == kept[k].decision
<1>1. /\ kept[k].age < DecisionTtl /\ routed' = Gone(d) /\ asked' = [asked EXCEPT ![r] = NotAsked]
      /\ UNCHANGED listed /\ UNCHANGED goneFor /\ UNCHANGED kept
  BY DEF RouteCached, Decided
<1>2. d \in RouteDecisions /\ kept[k].age \in 0 .. DecisionTtl
  BY DEF RouteInv, RouteTypeOK
<1>3. d = LastResortDecision \/ \A p \in ToSet(Candidates(d)) \cap RoutedTsps : goneFor[p] < DecisionTtl
  BY <1>1, <1>2, RoutingAssumption DEF RouteInv, RouteTypeOK, KeptAreYoung
<1> HIDE DEF d
<1>4. RoutedNotLongGone' /\ CandidatesOnce'
  BY <1>1, <1>2, <1>3, AnswerSound DEF RouteInv
<1>5. RouteTypeOK' /\ ListedAreHere' /\ KeptAreYoung'
  BY <1>1 DEF RouteInv, RouteTypeOK, ListedAreHere, KeptAreYoung, NotAsked
<1> QED
  BY <1>4, <1>5 DEF RouteInv

\* A decision that is kept as fresh, its providers here.
LEMMA KeptFresh ==
  ASSUME RouteInv, NEW r \in RouteRequests, NEW k \in RouteKeys, NEW d \in RouteDecisions, Decided(r, d),
         kept' = [kept EXCEPT ![k] = [decision |-> d, age |-> 0]],
         \A p \in ToSet(Candidates(d)) \cap RoutedTsps : goneFor[p] = 0,
         UNCHANGED listed, UNCHANGED goneFor
  PROVE  RouteInv'
<1>1. routed' = Gone(d) /\ asked' = [asked EXCEPT ![r] = NotAsked]
  BY DEF Decided
<1>2. RoutedNotLongGone' /\ CandidatesOnce'
  BY <1>1, RoutingAssumption, AnswerSound DEF RouteInv
<1> DEFINE fresh == [decision |-> d, age |-> 0]
<1>3. fresh \in [decision : RouteDecisions, age : 0 .. DecisionTtl] /\ fresh.age = 0 /\ fresh.decision = d
  BY RoutingAssumption
<1> HIDE DEF fresh
<1>4. kept' = [kept EXCEPT ![k] = fresh]
  BY DEF fresh
<1>5. RouteTypeOK'
  BY <1>1, <1>3, <1>4 DEF RouteInv, RouteTypeOK
<1>6. ListedAreHere'
  BY <1>1 DEF RouteInv, RouteTypeOK, ListedAreHere, NotAsked
<1>7. \A l \in RouteKeys : kept'[l] = IF l = k THEN fresh ELSE kept[l]
  BY <1>4 DEF RouteInv, RouteTypeOK
<1>8. KeptAreYoung'
  BY <1>3, <1>7 DEF RouteInv, KeptAreYoung
<1> QED
  BY <1>2, <1>5, <1>6, <1>8 DEF RouteInv

LEMMA RouteReadKeeps ==
  ASSUME RouteInv, NEW r \in RouteRequests, NEW k \in RouteKeys, RouteRead(r, k) PROVE RouteInv'
<1>1. UNCHANGED listed /\ UNCHANGED goneFor
  BY DEF RouteRead
<1>2. CASE Decided(r, OverrideDecision) /\ kept' = [kept EXCEPT ![k] = [decision |-> OverrideDecision, age |-> 0]]
  <2>1. OverrideDecision \in RouteDecisions /\ ToSet(Candidates(OverrideDecision)) = {}
    BY OtherNames DEF RouteDecisions, ToSet
  <2> QED
    BY <1>1, <1>2, <2>1, KeptFresh
<1>3. CASE /\ UNCHANGED routed /\ UNCHANGED kept
           /\ \/ listed # {} /\ asked' = [asked EXCEPT ![r] = [at |-> "score", key |-> k, among |-> listed]]
              \/ asked' = [asked EXCEPT ![r] = [at |-> "emergency"]]
  <2> DEFINE step == [at |-> "score", key |-> k, among |-> listed]
  <2>1. RouteTypeOK'
    <3>1. listed # {} => step \in [at : {"score"}, key : RouteKeys, among : (SUBSET RoutedTsps) \ {{}}]
      BY DEF RouteInv, RouteTypeOK
    <3> HIDE DEF step
    <3>2. \/ listed # {} /\ asked' = [asked EXCEPT ![r] = step]
          \/ asked' = [asked EXCEPT ![r] = [at |-> "emergency"]]
      BY <1>3 DEF step
    <3> QED
      BY <1>1, <1>3, <3>1, <3>2 DEF RouteInv, RouteTypeOK
  <2>2. ListedAreHere'
    BY <1>1, <1>3 DEF RouteInv, RouteTypeOK, ListedAreHere
  <2> QED
    BY <1>1, <1>3, <2>1, <2>2 DEF RouteInv, KeptAreYoung, RoutedNotLongGone, CandidatesOnce
<1> QED
  BY <1>2, <1>3 DEF RouteRead

LEMMA RouteDecideKeeps ==
  ASSUME RouteInv, NEW r \in RouteRequests, RouteDecide(r) PROVE RouteInv'
<1>1. PICK ranked \in SetToSeqs(asked[r].among) :
        /\ Decided(r, Decision(ranked))
        /\ kept' = [kept EXCEPT ![asked[r].key] = [decision |-> Decision(ranked), age |-> 0]]
  BY DEF RouteDecide
<1>2. /\ asked[r].among \in SUBSET RoutedTsps /\ asked[r].among # {} /\ asked[r].key \in RouteKeys
      /\ \A p \in asked[r].among : goneFor[p] = 0
  <2>1. asked[r].at = "score"
    BY DEF RouteDecide
  <2>2. asked[r] \in [at : {"score"}, key : RouteKeys, among : (SUBSET RoutedTsps) \ {{}}]
    BY <2>1 DEF RouteInv, RouteTypeOK, NotAsked
  <2>3. \A p \in asked[r].among : goneFor[p] = 0
    BY <2>1 DEF RouteInv, ListedAreHere
  <2>4. asked[r].among \in (SUBSET RoutedTsps) \ {{}} /\ asked[r].key \in RouteKeys
    BY <2>2
  <2> QED
    BY <2>3, <2>4
<1>3. /\ Decision(ranked) \in RouteDecisions
      /\ \A p \in ToSet(Candidates(Decision(ranked))) \cap RoutedTsps : goneFor[p] = 0
  BY <1>2, RankedAreHere DEF RouteInv
<1>4. UNCHANGED listed /\ UNCHANGED goneFor
  BY DEF RouteDecide
<1> QED
  BY <1>1, <1>2, <1>3, <1>4, KeptFresh

LEMMA RouteFailKeeps == ASSUME RouteInv, NEW r \in RouteRequests, RouteFail(r) PROVE RouteInv'
<1>1. /\ asked' = [asked EXCEPT ![r] = [at |-> "emergency"]]
      /\ UNCHANGED listed /\ UNCHANGED goneFor /\ UNCHANGED kept /\ UNCHANGED routed
  BY DEF RouteFail
<1>2. RouteTypeOK' /\ ListedAreHere'
  BY <1>1 DEF RouteInv, RouteTypeOK, ListedAreHere
<1> QED
  BY <1>1, <1>2 DEF RouteInv, KeptAreYoung, RoutedNotLongGone, CandidatesOnce

LEMMA RouteEmergencyKeeps == ASSUME RouteInv, NEW r \in RouteRequests, RouteEmergency(r) PROVE RouteInv'
<1>1. PICK d \in RouteDecisions :
        /\ Decided(r, d)
        /\ d = LastResortDecision \/ \A p \in ToSet(Candidates(d)) \cap RoutedTsps : goneFor[p] < DecisionTtl
  <2>1. CASE Decided(r, LastResortDecision)
    BY <2>1 DEF RouteDecisions
  <2>2. CASE \E byPriority \in SetToSeqs(listed) : listed # {} /\ Decided(r, EmergencyDecision(byPriority))
    <3>1. PICK byPriority \in SetToSeqs(listed) : listed # {} /\ Decided(r, EmergencyDecision(byPriority))
      BY <2>2
    <3>2. /\ EmergencyDecision(byPriority) \in RouteDecisions
          /\ \A p \in ToSet(Candidates(EmergencyDecision(byPriority))) \cap RoutedTsps : goneFor[p] = 0
      <4>1. listed \in SUBSET RoutedTsps /\ \A p \in listed : goneFor[p] = 0
        BY DEF RouteInv, RouteTypeOK, ListedAreHere
      <4> QED
        BY <3>1, <4>1, RankedAreHere DEF RouteInv
    <3> QED
      BY <3>1, <3>2, RoutingAssumption
  <2> QED
    BY <2>1, <2>2 DEF RouteEmergency
<1>2. /\ routed' = Gone(d) /\ asked' = [asked EXCEPT ![r] = NotAsked]
      /\ UNCHANGED listed /\ UNCHANGED goneFor /\ UNCHANGED kept
  BY <1>1 DEF RouteEmergency, Decided
<1>3. RoutedNotLongGone' /\ CandidatesOnce'
  BY <1>1, <1>2, AnswerSound DEF RouteInv
<1>4. RouteTypeOK' /\ ListedAreHere' /\ KeptAreYoung'
  BY <1>2 DEF RouteInv, RouteTypeOK, ListedAreHere, KeptAreYoung, NotAsked
<1> QED
  BY <1>3, <1>4 DEF RouteInv

LEMMA RelistKeeps == ASSUME RouteInv, NEW p \in RoutedTsps, Relist(p) PROVE RouteInv'
<1>1. /\ listed' = IF p \in listed THEN listed \ {p} ELSE listed \cup {p}
      /\ goneFor' = [goneFor EXCEPT ![p] = 0]
      /\ UNCHANGED kept /\ UNCHANGED asked /\ UNCHANGED routed
  BY DEF Relist
<1>2. \A q \in RoutedTsps : goneFor'[q] = IF q = p THEN 0 ELSE goneFor[q]
  BY <1>1 DEF RouteInv, RouteTypeOK
<1>3. RouteTypeOK'
  BY <1>1 DEF RouteInv, RouteTypeOK
<1>4. ListedAreHere'
  <2>1. \A q \in listed' : goneFor'[q] = 0
    BY <1>1, <1>2 DEF RouteInv, RouteTypeOK, ListedAreHere
  <2>2. ASSUME NEW r \in RouteRequests, asked[r].at = "score", NEW q \in asked[r].among PROVE goneFor'[q] = 0
    <3>1. asked[r].among \in SUBSET RoutedTsps
      BY <2>2 DEF RouteInv, RouteTypeOK, NotAsked
    <3> QED
      BY <1>2, <2>2, <3>1 DEF RouteInv, ListedAreHere
  <2> QED
    BY <1>1, <2>1, <2>2 DEF ListedAreHere
<1>5. KeptAreYoung'
  <2>1. ASSUME NEW k \in RouteKeys PROVE kept[k].age \in Nat
    BY RoutingAssumption DEF RouteInv, RouteTypeOK
  <2> QED
    BY <1>1, <1>2, <2>1 DEF RouteInv, KeptAreYoung
<1> QED
  BY <1>1, <1>3, <1>4, <1>5 DEF RouteInv, RoutedNotLongGone, CandidatesOnce

LEMMA RouteTickKeeps == ASSUME RouteInv, RouteTick PROVE RouteInv'
<1>1. /\ kept' = [k \in RouteKeys |-> [kept[k] EXCEPT !.age = AtMost(kept[k].age + 1, DecisionTtl)]]
      /\ goneFor' = [p \in RoutedTsps |-> IF p \in listed THEN 0 ELSE AtMost(goneFor[p] + 1, DecisionTtl + 1)]
      /\ UNCHANGED listed /\ UNCHANGED asked /\ UNCHANGED routed
      /\ \A r \in RouteRequests : asked[r] = NotAsked
  BY DEF RouteTick
<1>2. \A p \in RoutedTsps : goneFor'[p] \in Nat /\ goneFor'[p] <= goneFor[p] + 1 /\ (p \in listed => goneFor'[p] = 0)
  BY <1>1, RoutingAssumption DEF RouteInv, RouteTypeOK, AtMost
<1>3. ASSUME NEW k \in RouteKeys
      PROVE  /\ kept'[k] \in [decision : RouteDecisions, age : 0 .. DecisionTtl]
             /\ kept'[k].decision = kept[k].decision
             /\ kept'[k].age < DecisionTtl => kept[k].age < DecisionTtl /\ kept'[k].age = kept[k].age + 1
             /\ kept[k].age \in Nat
  <2> DEFINE e == kept[k]
             a == AtMost(e.age + 1, DecisionTtl)
  <2>1. e \in [decision : RouteDecisions, age : 0 .. DecisionTtl]
    BY DEF RouteInv, RouteTypeOK
  <2>2. kept'[k] = [e EXCEPT !.age = a]
    BY <1>1
  <2> HIDE DEF e
  <2>3. e.age \in 0 .. DecisionTtl /\ e.decision \in RouteDecisions
    BY <2>1
  <2>4. a \in 0 .. DecisionTtl /\ (a < DecisionTtl => e.age < DecisionTtl /\ a = e.age + 1) /\ e.age \in Nat
    BY <2>3, RoutingAssumption DEF AtMost
  <2> HIDE DEF a
  <2>5. [e EXCEPT !.age = a] = [decision |-> e.decision, age |-> a]
    BY <2>1
  <2> QED
    BY <2>2, <2>3, <2>4, <2>5 DEF e
<1>4. RouteTypeOK'
  <2>1. goneFor' \in [RoutedTsps -> Nat]
    BY <1>1, <1>2
  <2>2. kept' \in [RouteKeys -> [decision : RouteDecisions, age : 0 .. DecisionTtl]]
    BY <1>1, <1>3
  <2> QED
    BY <1>1, <2>1, <2>2 DEF RouteInv, RouteTypeOK
<1>5. ListedAreHere'
  BY <1>1, <1>2 DEF RouteInv, RouteTypeOK, ListedAreHere, NotAsked
<1>6. KeptAreYoung'
  <2>1. ASSUME NEW k \in RouteKeys, kept'[k].age < DecisionTtl, kept'[k].decision # LastResortDecision,
               NEW p \in ToSet(Candidates(kept'[k].decision)) \cap RoutedTsps
        PROVE  goneFor'[p] <= kept'[k].age
    <3>1. kept'[k].decision = kept[k].decision /\ kept[k].age < DecisionTtl /\ kept'[k].age = kept[k].age + 1
          /\ kept[k].age \in Nat
      BY <1>3, <2>1
    <3>2. goneFor[p] <= kept[k].age
      BY <2>1, <3>1 DEF RouteInv, KeptAreYoung
    <3>3. goneFor[p] \in Nat /\ goneFor'[p] \in Nat /\ goneFor'[p] <= goneFor[p] + 1
      BY <1>2 DEF RouteInv, RouteTypeOK
    <3> QED
      BY <3>1, <3>2, <3>3
  <2> QED
    BY <2>1 DEF KeptAreYoung
<1> QED
  BY <1>1, <1>4, <1>5, <1>6 DEF RouteInv, RoutedNotLongGone, CandidatesOnce

----------------------------------------------------------------------------
\* Two providers, the one scored higher leads.
LEMMA HigherLeads ==
  ASSUME NEW p, NEW q, p # q, NEW f, DOMAIN f = {p, q}, Score(f[p]) \in Int, Score(f[q]) \in Int,
         Score(f[p]) > Score(f[q])
  PROVE  Ranked(f) \in [1 .. 2 -> {p, q}] /\ Ranked(f)[1] = p
<1> DEFINE Sorted(s) == \A i, j \in DOMAIN s : i < j => Score(f[s[i]]) >= Score(f[s[j]])
           leading == [i \in 1 .. 2 |-> IF i = 1 THEN p ELSE q]
<1>1. Cardinality({p, q}) = 2
  <2>1. IsFiniteSet({p}) /\ Cardinality({p}) = 1 /\ q \notin {p} /\ {p, q} = {p} \cup {q}
    BY FS_Singleton
  <2> QED
    BY <2>1, FS_AddElement
<1>2. SetToSeqs(DOMAIN f) = {s \in [1 .. 2 -> {p, q}] : \A i, j \in 1 .. 2 : i # j => s[i] # s[j]}
  BY <1>1 DEF SetToSeqs
<1>3. leading \in SetToSeqs(DOMAIN f)
  BY <1>2
<1>4. Sorted(leading)
  BY DEF Score
<1> DEFINE r == CHOOSE s \in SetToSeqs(DOMAIN f) : Sorted(s)
<1>5. Ranked(f) = r
  BY DEF Ranked
<1> HIDE DEF leading, Sorted
<1>6. r \in SetToSeqs(DOMAIN f) /\ Sorted(r)
  BY <1>3, <1>4
<1> HIDE DEF r
<1>7. r \in [1 .. 2 -> {p, q}] /\ r[1] # r[2] /\ DOMAIN r = 1 .. 2
  BY <1>2, <1>6
<1>8. Score(f[r[1]]) >= Score(f[r[2]])
  BY <1>6, <1>7 DEF Sorted
<1>9. r[1] = p
  <2>1. r[1] \in {p, q} /\ r[2] \in {p, q}
    BY <1>7
  <2>2. ASSUME r[1] = q PROVE FALSE
    <3>1. r[2] = p
      BY <1>7, <2>1, <2>2
    <3>2. Score(f[q]) >= Score(f[p])
      BY <1>8, <2>2, <3>1
    <3> QED
      BY <3>2
  <2> QED
    BY <2>1, <2>2
<1> QED
  BY <1>5, <1>7, <1>9

\* Fees between 1 % and 4 % alone order two providers that are equal otherwise.
LEMMA FeesTell ==
  ASSUME NEW cheap \in 1 .. 4, NEW dear \in 1 .. 4, cheap < dear, NEW amount \in {500, 2000},
         NEW f, NEW g, f = [x \in Factors |-> IF x = "cost" THEN CostScore(amount, cheap, 0) ELSE 80],
         g = [x \in Factors |-> IF x = "cost" THEN CostScore(amount, dear, 0) ELSE 80]
  PROVE  Score(f) \in Int /\ Score(g) \in Int /\ Score(f) > Score(g)
<1>1. ASSUME NEW n \in 1 .. 4 PROVE CostScore(amount, n, 0) = 100 - 20 * n
  <2>1. CASE amount = 500
    BY <2>1 DEF CostScore, AtLeast
  <2>2. CASE amount = 2000
    BY <2>2 DEF CostScore, AtLeast
  <2> QED
    BY <2>1, <2>2
<1>2. /\ f.historical = 80 /\ f.availability = 80 /\ f.cost = 100 - 20 * cheap /\ f.latency = 80 /\ f.bank = 80
      /\ f.geographic = 80 /\ f.time = 80 /\ f.custom = 80
  BY <1>1 DEF Factors
<1>3. /\ g.historical = 80 /\ g.availability = 80 /\ g.cost = 100 - 20 * dear /\ g.latency = 80 /\ g.bank = 80
      /\ g.geographic = 80 /\ g.time = 80 /\ g.custom = 80
  BY <1>1 DEF Factors
<1>4. Points(f) = 6800 + 15 * (100 - 20 * cheap)
  BY <1>2 DEF Points, Factor, Weight
<1>5. Points(g) = 6800 + 15 * (100 - 20 * dear)
  BY <1>3 DEF Points, Factor, Weight
<1> QED
  BY <1>4, <1>5 DEF Score, AtMost, AtLeast

LEMMA TwoInARow ==
  ASSUME NEW S, NEW T, T \subseteq S, NEW row \in [1 .. 2 -> T]
  PROVE  row \in Seq(S) /\ Len(row) = 2 /\ row # << >>
<1>1. row \in [1 .. 2 -> S] /\ 2 \in Nat
  OBVIOUS
<1>2. row \in Seq(S)
  BY <1>1, SeqDef
<1>3. Len(row) = 2
  BY <1>1, <1>2, LenProperties
<1> QED
  BY <1>2, <1>3

LEMMA CheaperAlwaysFirst == ASSUME listed \in SUBSET RoutedTsps PROVE CheaperFirst
<1> SUFFICES ASSUME NEW p \in listed, NEW q \in listed, NEW cheap \in 1 .. 4, NEW dear \in 1 .. 4,
                    NEW amount \in {500, 2000}, p # q, cheap < dear
             PROVE  FirstOfTwo(p, q, cheap, dear, amount) = p
  BY DEF CheaperFirst
<1> DEFINE Fee(percent) == FeeAlone(amount, percent)
           fees == [t \in {p, q} |-> Fee(IF t = p THEN cheap ELSE dear)]
           ranked == Ranked(fees)
<1>1. DOMAIN fees = {p, q} /\ fees[p] = Fee(cheap) /\ fees[q] = Fee(dear)
  OBVIOUS
<1>2. Score(Fee(cheap)) \in Int /\ Score(Fee(dear)) \in Int /\ Score(Fee(cheap)) > Score(Fee(dear))
  BY FeesTell DEF FeeAlone
<1> HIDE DEF Fee, fees
<1>3. ranked \in [1 .. 2 -> {p, q}] /\ ranked[1] = p
  BY <1>1, <1>2, HigherLeads
<1> HIDE DEF ranked
<1>4. ranked \in Rankings
  BY <1>3, TwoInARow DEF Rankings
<1> DEFINE c == Candidates(Decision(ranked))
<1>5. c \in Seq(RoutedTsps) /\ c # << >> /\ c[1] = p
  BY <1>3, <1>4, RankingNames
<1> HIDE DEF c
<1>6. Head(c) = p
  BY <1>5
<1> QED
  BY <1>6 DEF c, ranked, fees, Fee, FirstOfTwo

\* The routes that are used are sound for any number of providers, requests, keys and lengths of a decision's
\* life, whenever configurations and overrides change and queries fail (getRoutingDecision, processPayment).
THEOREM RoutesAreAlwaysSound == RoutingSpec => []RoutesAreSound
<1>1. RoutingInit => RouteInv
  BY RoutesStart
<1>2. RouteInv /\ [RoutingNext]_routeVars => RouteInv'
  <2> SUFFICES ASSUME RouteInv, [RoutingNext]_routeVars PROVE RouteInv'
    OBVIOUS
  <2>1. ASSUME NEW r \in RouteRequests, NEW k \in RouteKeys, RouteCached(r, k) \/ RouteRead(r, k) PROVE RouteInv'
    BY <2>1, RouteCachedKeeps, RouteReadKeeps
  <2>2. ASSUME NEW r \in RouteRequests, RouteDecide(r) \/ RouteFail(r) \/ RouteEmergency(r) PROVE RouteInv'
    BY <2>2, RouteDecideKeeps, RouteFailKeeps, RouteEmergencyKeeps
  <2>3. ASSUME NEW p \in RoutedTsps, Relist(p) PROVE RouteInv'
    BY <2>3, RelistKeeps
  <2>4. CASE RouteTick
    BY <2>4, RouteTickKeeps
  <2>5. CASE Override \/ UNCHANGED routeVars
    <3>1. UNCHANGED listed /\ UNCHANGED goneFor /\ UNCHANGED kept /\ UNCHANGED asked /\ UNCHANGED routed
      BY <2>5 DEF Override, routeVars
    <3> QED
      BY <3>1 DEF RouteInv, RouteTypeOK, ListedAreHere, KeptAreYoung, RoutedNotLongGone, CandidatesOnce
  <2> QED
    BY <2>1, <2>2, <2>3, <2>4, <2>5 DEF RoutingNext
<1>3. RouteInv => RoutesAreSound
  BY CheaperAlwaysFirst DEF RouteInv, RouteTypeOK, RoutesAreSound
<1> QED
  BY <1>1, <1>2, <1>3, PTL DEF RoutingSpec

(***************************************************************************)
(* The answers of the adapters and the instructions they give, for any     *)
(* words, countries, currencies and fields.                                *)
(*                                                                         *)
(* An order remembers that it was paid or came back (OrderRemembers), and  *)
(* what was last polled stays what the adapter makes of the word it met    *)
(* (PollIsOfOrder), so that an answer which was true once stays true while *)
(* the provider moves on.  An order never forgets that a refund was taken  *)
(* on, which is all refundPayment's answer says.                           *)
(***************************************************************************)
RefundStates == {"none", "accepted", "made", "declined"}
OrdersOf(words) ==
  [by : Adapters, kind : {"payment", "payout"}, word : words, paid : BOOLEAN, returned : BOOLEAN, refund : RefundStates]
Orders == OrdersOf(UNION {PaymentWords[p] \cup PayoutWords[p] : p \in Adapters})
\* The order remembers having been paid and having come back.
OrderRemembers ==
  order # NoOrder =>
    /\ order \in Orders
    /\ order.word \in PaidWords => order.paid
    /\ order.word \in ReturnedWords => order.returned
    /\ order.refund = "made" => order.returned
\* The last poll was of this order, and was answered with what the adapter makes of the word it met.
PollIsOfOrder ==
  heard.op \in {"verifyPayment", "getPaymentStatus"} /\ heard.answered =>
    /\ order # NoOrder
    /\ \/ heard.op = "verifyPayment" /\ heard.status = VerifyPayment(order.by, heard.word).status
       \/ heard.op = "getPaymentStatus" /\ heard.status = GetPaymentStatus(order.by, heard.word).status
AnswersInv == OrderRemembers /\ PollIsOfOrder /\ HeardHappened

\* An answer tells of a payment or a return only when the provider's word does.
Tells(status, w) == (status = "completed" => w \in PaidWords) /\ (status = "refunded" => w \in ReturnedWords)

LEMMA MapsTell ==
  ASSUME NEW w
  PROVE  /\ Tells(MapKingdomBank(w), w) /\ Tells(MapSulifu(w), w) /\ Tells(MapPayaza(w), w) /\ Tells(MapPaytara(w), w)
         /\ Tells(MapRazorpay(w), w) /\ Tells(MapStripe(w), w)
<1> USE DEF Tells, PaidWords, ReturnedWords
<1>1. Tells(MapKingdomBank(w), w)
  BY DEF MapKingdomBank
<1>2. Tells(MapSulifu(w), w)
  BY DEF MapSulifu
<1>3. Tells(MapPayaza(w), w)
  BY DEF MapPayaza
<1>4. Tells(MapPaytara(w), w)
  BY DEF MapPaytara
<1>5. Tells(MapRazorpay(w), w)
  BY DEF MapRazorpay
<1>6. Tells(MapStripe(w), w)
  BY DEF MapStripe
<1> QED
  BY <1>1, <1>2, <1>3, <1>4, <1>5, <1>6

LEMMA PollsTell ==
  ASSUME NEW p, NEW w
  PROVE  /\ Tells(GetPaymentStatus(p, w).status, w) /\ Tells(VerifyPayment(p, w).status, w)
         /\ Tells(CheckPayoutStatus(p, w).status, w)
<1>1. Tells(GetPaymentStatus(p, w).status, w)
  BY MapsTell DEF GetPaymentStatus, Result
<1>2. Tells(VerifyPayment(p, w).status, w)
  <2>1. Tells(PaytaraVerify(w).status, w) /\ Tells(RazorpayVerify(w).status, w) /\ Tells(PayazaVerify(w).status, w)
        /\ Tells(SulifuVerify(w).status, w) /\ Tells(KingdomBankVerify(w).status, w)
    BY MapsTell DEF PaytaraVerify, RazorpayVerify, PayazaVerify, SulifuVerify, KingdomBankVerify, Result, Tells,
                    PaidWords, ReturnedWords
  <2> QED
    BY <1>1, <2>1 DEF VerifyPayment
<1>3. Tells(CheckPayoutStatus(p, w).status, w)
  <2>1. Tells(PayazaPayout(w).status, w) /\ Tells(SulifuPayout(w).status, w) /\ Tells(PaytaraPayout(w).status, w)
    BY MapsTell DEF PayazaPayout, SulifuPayout, PaytaraPayout, Result, Tells, PaidWords, ReturnedWords
  <2> QED
    BY <2>1 DEF CheckPayoutStatus
<1> QED
  BY <1>1, <1>2, <1>3

LEMMA CreatedTells ==
  /\ \A p, w : \A r \in PaymentCreated(p, w) : Tells(r.status, w)
  /\ \A p \in Adapters : \A w \in PayoutWords[p] : \A r \in PayoutCreated(p, w) : Tells(r.status, w)
<1>1. ASSUME NEW p, NEW w, NEW r \in PaymentCreated(p, w) PROVE Tells(r.status, w)
  BY <1>1 DEF PaymentCreated, Result, Tells, PaidWords, ReturnedWords
<1>2. ASSUME NEW w \in PayoutWords.payaza, NEW r \in PayazaPayoutCreated(w) PROVE Tells(r.status, w)
  <2>1. PICK response \in {"200", "400"}, code \in PayazaCodes(w) : r = PayazaPayoutAnswer(w, response, code)
    BY <1>2 DEF PayazaPayoutCreated
  <2>2. r.status \in {TransferStatus(PayazaTransferWord[w], code), "failed"}
    BY <2>1 DEF PayazaPayoutAnswer, Broken, Result
  <2>3. Tells(TransferStatus(PayazaTransferWord[w], code), w)
    <3>1. code = "00" => w \in PaidWords
      BY DEF PayazaCodes
    <3>2. /\ PayazaTransferWord[w] \in {"TRANSACTION_SUCCESSFUL", "TRANSACTION_COMPLETED"} => w = "successful"
          /\ PayazaTransferWord[w] = "TRANSACTION_REVERSED" => w = "reversed"
      BY DEF PayazaTransferWord
    <3> QED
      BY <3>1, <3>2 DEF TransferStatus, Tells, PaidWords, ReturnedWords
  <2> QED
    BY <2>2, <2>3 DEF Tells
<1>3. ASSUME NEW p \in Adapters, NEW w \in PayoutWords[p], NEW r \in PayoutCreated(p, w) PROVE Tells(r.status, w)
  <2>1. CASE p = "kingdom_bank"
    BY <1>3, <2>1, MapsTell DEF PayoutCreated, Result
  <2>2. CASE p = "sulifu_pay"
    BY <1>3, <2>2 DEF PayoutCreated, Result, Tells
  <2>3. CASE p = "paytara"
    BY <1>3, <2>3 DEF PayoutCreated, Result, Tells, PaidWords
  <2>4. CASE p = "payaza"
    <3>1. r \in PayazaPayoutCreated(w) /\ w \in PayoutWords.payaza
      BY <1>3, <2>4 DEF PayoutCreated
    <3> QED
      BY <1>2, <3>1
  <2>5. PayoutWords["razorpay"] = {} /\ PayoutWords["stripe"] = {}
    BY DEF PayoutWords
  <2> QED
    BY <2>1, <2>2, <2>3, <2>4, <2>5 DEF Adapters
<1> QED
  BY <1>1, <1>3

\* A poll and a webhook that tell the same word are heard the same way, whatever was tagged to the report.
SameAsReport(status, told) ==
  /\ (status = "completed") = (told = "success")
  /\ status \in {"failed", "cancelled"} => told \in {"failed", "cancelled"}
  /\ status = "refunded" => told = "refunded"

LEMMA PollsMatchReports ==
  ASSUME NEW r \in WebhookSide!Reports
  PROVE  /\ SameAsReport(GetPaymentStatus(r.from, r.status).status, WebhookSide!NewStatus(r))
         /\ SameAsReport(VerifyPayment(r.from, r.status).status, WebhookSide!NewStatus(r))
<1>1. CASE r \in WebhookSide!KingdomBankReports
  <2>1. r.from = "kingdom_bank" /\ r.status \in {"PROCESSED", "PENDING", "SCHEDULED", "FAILED", "CANCELLED"}
    BY <1>1 DEF WebhookSide!KingdomBankReports, WebhookSide!Report
  <2>2. WebhookSide!NewStatus(r) = WebhookSide!KingdomBankRow[r.status]
    BY <2>1 DEF WebhookSide!NewStatus
  <2>3. SameAsReport(MapKingdomBank(r.status), WebhookSide!KingdomBankRow[r.status])
    BY <2>1 DEF MapKingdomBank, WebhookSide!KingdomBankRow, SameAsReport
  <2>4. /\ GetPaymentStatus("kingdom_bank", r.status).status = MapKingdomBank(r.status)
        /\ VerifyPayment("kingdom_bank", r.status).status = MapKingdomBank(r.status)
    BY DEF GetPaymentStatus, VerifyPayment, KingdomBankVerify, Result
  <2> QED
    BY <2>1, <2>2, <2>3, <2>4
<1>2. CASE r \in WebhookSide!SulifuReports
  <2>1. r.from = "sulifu_pay" /\ r.status \in {"SUCCESS", "PROCESSING", "REVIEWING", "FAILED_CREATE"}
    BY <1>2 DEF WebhookSide!SulifuReports, WebhookSide!Report
  <2>2. WebhookSide!NewStatus(r) = WebhookSide!SulifuRow[r.status]
    BY <2>1 DEF WebhookSide!NewStatus
  <2>3. SameAsReport(MapSulifu(r.status), WebhookSide!SulifuRow[r.status])
    BY <2>1 DEF MapSulifu, WebhookSide!SulifuRow, SameAsReport
  <2>4. /\ GetPaymentStatus("sulifu_pay", r.status).status = MapSulifu(r.status)
        /\ VerifyPayment("sulifu_pay", r.status).status = MapSulifu(r.status)
    BY DEF GetPaymentStatus, VerifyPayment, SulifuVerify, Result, MapSulifu
  <2> QED
    BY <2>1, <2>2, <2>3, <2>4
<1>3. CASE r \in WebhookSide!PayazaReports
  <2>1. r.from = "payaza" /\ r.status \in WebhookSide!PayazaWords
    BY <1>3 DEF WebhookSide!PayazaReports, WebhookSide!Report
  <2>2. WebhookSide!NewStatus(r) = WebhookSide!PayazaRow[r.status]
    BY <2>1 DEF WebhookSide!NewStatus
  <2>3. SameAsReport(MapPayaza(r.status), WebhookSide!PayazaRow[r.status])
    BY <2>1 DEF MapPayaza, WebhookSide!PayazaRow, WebhookSide!PayazaWords, SameAsReport
  <2>4. /\ GetPaymentStatus("payaza", r.status).status = MapPayaza(r.status)
        /\ VerifyPayment("payaza", r.status).status = MapPayaza(r.status)
    BY DEF GetPaymentStatus, VerifyPayment, PayazaVerify, Result
  <2> QED
    BY <2>1, <2>2, <2>3, <2>4
<1> QED
  BY <1>1, <1>2, <1>3 DEF WebhookSide!Reports

LEMMA AnswersStart == AdaptersInit => AnswersInv
BY DEF AdaptersInit, AnswersInv, OrderRemembers, PollIsOfOrder, HeardHappened

\* An order that was just taken remembers its word.
LEMMA OrderTaken ==
  ASSUME NEW p \in Adapters, NEW kind \in {"payment", "payout"}, NEW w \in PaymentWords[p] \cup PayoutWords[p],
         order' = Order(p, kind, w)
  PROVE  /\ OrderRemembers' /\ order' # NoOrder /\ order'.word = w
         /\ order'.paid = (w \in PaidWords) /\ order'.returned = (w \in ReturnedWords)
<1>1. w \in UNION {PaymentWords[q] \cup PayoutWords[q] : q \in Adapters}
  OBVIOUS
<1> DEFINE words == UNION {PaymentWords[q] \cup PayoutWords[q] : q \in Adapters}
<1>w. w \in words
  BY <1>1
<1> HIDE DEF words
<1> DEFINE paid     == w \in PaidWords
           returned == w \in ReturnedWords
<1>2. paid \in BOOLEAN /\ returned \in BOOLEAN
  OBVIOUS
<1>3. order' = [by |-> p, kind |-> kind, word |-> w, paid |-> paid, returned |-> returned, refund |-> "none"]
  BY Zenon DEF Order
<1> HIDE DEF paid, returned
<1>4. order' \in OrdersOf(words)
  BY <1>w, <1>2, <1>3 DEF OrdersOf, RefundStates
<1>5. order' \in Orders
  BY <1>4, Zenon DEF Orders, words
<1>6. order' # NoOrder
  <2>1. order'.by # "none"
    BY <1>3 DEF Adapters
  <2> QED
    BY <2>1 DEF NoOrder
<1>7. order'.word = w /\ order'.paid = paid /\ order'.returned = returned /\ order'.refund # "made"
  BY <1>3
<1> QED
  BY <1>5, <1>6, <1>7, Zenon DEF OrderRemembers, paid, returned

\* What a call without an answer, and what one with an answer that tells of the order, leaves.
LEMMA NothingHeard ==
  ASSUME NEW op \in {"createPayment", "createPayout", "verifyPayment", "checkPayoutStatus", "refundPayment"},
         HearNothing(op)
  PROVE  PollIsOfOrder' /\ HeardHappened'
BY DEF HearNothing, PollIsOfOrder, HeardHappened, Broken, Result

LEMMA CreatePaymentKeeps == ASSUME AnswersInv, NEW p \in Adapters, CreatePayment(p) PROVE AnswersInv'
<1>1. CASE order' = NoOrder /\ HearNothing("createPayment")
  BY <1>1, NothingHeard DEF AnswersInv, OrderRemembers
<1>2. ASSUME NEW w \in PaymentWords[p] \ (ReturnedWords \cup DeadWords), order' = Order(p, "payment", w),
             HearNothing("createPayment") \/ \E r \in PaymentCreated(p, w) : Hear("createPayment", w, r)
      PROVE  AnswersInv'
  <2>1. /\ OrderRemembers' /\ order'.paid = (w \in PaidWords) /\ order'.returned = (w \in ReturnedWords)
    BY <1>2, OrderTaken
  <2>2. CASE HearNothing("createPayment")
    BY <2>1, <2>2, NothingHeard DEF AnswersInv
  <2>3. ASSUME NEW r \in PaymentCreated(p, w), Hear("createPayment", w, r) PROVE AnswersInv'
    <3>1. Tells(r.status, w)
      BY CreatedTells
    <3> QED
      BY <2>1, <2>3, <3>1 DEF Hear, Tells, AnswersInv, PollIsOfOrder, HeardHappened
  <2> QED
    BY <1>2, <2>2, <2>3
<1> QED
  BY <1>1, <1>2, Zenon DEF CreatePayment

LEMMA CreatePayoutKeeps == ASSUME AnswersInv, NEW p \in Adapters, CreatePayout(p) PROVE AnswersInv'
<1>1. CASE order' = NoOrder /\ HearNothing("createPayout")
  BY <1>1, NothingHeard DEF AnswersInv, OrderRemembers
<1>2. ASSUME NEW w \in PayoutWords[p], order' = Order(p, "payout", w),
             HearNothing("createPayout") \/ \E r \in PayoutCreated(p, w) : Hear("createPayout", w, r)
      PROVE  AnswersInv'
  <2>1. /\ OrderRemembers' /\ order'.paid = (w \in PaidWords) /\ order'.returned = (w \in ReturnedWords)
    BY <1>2, OrderTaken
  <2>2. CASE HearNothing("createPayout")
    BY <2>1, <2>2, NothingHeard DEF AnswersInv
  <2>3. ASSUME NEW r \in PayoutCreated(p, w), Hear("createPayout", w, r) PROVE AnswersInv'
    <3>1. Tells(r.status, w)
      BY CreatedTells
    <3> QED
      BY <2>1, <2>3, <3>1 DEF Hear, Tells, AnswersInv, PollIsOfOrder, HeardHappened
  <2> QED
    BY <1>2, <2>2, <2>3
<1>3. \/ order' = NoOrder /\ HearNothing("createPayout")
      \/ \E w \in PayoutWords[p] :
           /\ order' = Order(p, "payout", w)
           /\ HearNothing("createPayout") \/ \E r \in PayoutCreated(p, w) : Hear("createPayout", w, r)
  BY Zenon DEF CreatePayout
<1> QED
  BY <1>1, <1>2, <1>3

LEMMA OrdersAreTaken == \A o \in Orders : o # NoOrder
BY DEF Orders, OrdersOf, NoOrder, Adapters

\* A word that was paid or returned may be followed by another, and is remembered all the same.
LEMMA ProgressKeeps == ASSUME AnswersInv, Progress PROVE AnswersInv'
<1>1. PICK w \in IF order.kind = "payout" THEN PayoutWords[order.by] ELSE PaymentWords[order.by] :
        order' = [order EXCEPT !.word = w, !.paid = @ \/ w \in PaidWords, !.returned = @ \/ w \in ReturnedWords]
  BY DEF Progress
<1>2. order # NoOrder /\ order \in Orders /\ UNCHANGED heard
  BY DEF Progress, AnswersInv, OrderRemembers
<1>3. w \in UNION {PaymentWords[p] \cup PayoutWords[p] : p \in Adapters}
  <2>1. order.by \in Adapters
    BY <1>2 DEF Orders, OrdersOf
  <2> QED
    BY <1>1, <2>1
<1>4. /\ order' \in Orders /\ order'.by = order.by /\ order'.word = w /\ order'.refund = order.refund
      /\ order'.paid = (order.paid \/ w \in PaidWords) /\ order'.returned = (order.returned \/ w \in ReturnedWords)
  <2> DEFINE words == UNION {PaymentWords[p] \cup PayoutWords[p] : p \in Adapters}
  <2>1. /\ order \in OrdersOf(words)
        /\ w \in words
    BY <1>2, <1>3, Zenon DEF Orders
  <2> HIDE DEF words
  <2>2. /\ order' \in OrdersOf(words)
        /\ order'.by = order.by /\ order'.word = w /\ order'.refund = order.refund
        /\ order'.paid = (order.paid \/ w \in PaidWords) /\ order'.returned = (order.returned \/ w \in ReturnedWords)
    BY <1>1, <2>1 DEF OrdersOf
  <2> QED
    BY <2>2, Zenon DEF Orders, words
<1>5. order' # NoOrder
  BY <1>4, OrdersAreTaken
<1>6. OrderRemembers'
  BY <1>2, <1>4 DEF OrderRemembers, AnswersInv
<1>7. PollIsOfOrder'
  BY <1>2, <1>4, <1>5 DEF AnswersInv, PollIsOfOrder
<1>8. HeardHappened'
  BY <1>2, <1>4 DEF AnswersInv, HeardHappened
<1> QED
  BY <1>6, <1>7, <1>8 DEF AnswersInv

LEMMA AskKeeps == ASSUME AnswersInv, Ask PROVE AnswersInv'
<1>1. order # NoOrder /\ UNCHANGED order
  BY DEF Ask
<1>2. OrderRemembers' /\ (order.word \in PaidWords => order.paid) /\ (order.word \in ReturnedWords => order.returned)
  BY <1>1 DEF AnswersInv, OrderRemembers
<1>3. ASSUME NEW op \in {"verifyPayment", "checkPayoutStatus"}, HearNothing(op) PROVE AnswersInv'
  BY <1>2, <1>3, NothingHeard DEF AnswersInv
<1>4. ASSUME Hear("verifyPayment", order.word, VerifyPayment(order.by, order.word)) PROVE AnswersInv'
  <2>1. Tells(VerifyPayment(order.by, order.word).status, order.word)
    BY PollsTell
  <2> QED
    BY <1>1, <1>2, <1>4, <2>1 DEF Hear, Tells, AnswersInv, PollIsOfOrder, HeardHappened
<1>5. ASSUME Hear("getPaymentStatus", order.word, GetPaymentStatus(order.by, order.word)) PROVE AnswersInv'
  <2>1. Tells(GetPaymentStatus(order.by, order.word).status, order.word)
    BY PollsTell
  <2> QED
    BY <1>1, <1>2, <1>5, <2>1 DEF Hear, Tells, AnswersInv, PollIsOfOrder, HeardHappened
<1>6. ASSUME Hear("checkPayoutStatus", order.word, CheckPayoutStatus(order.by, order.word)) PROVE AnswersInv'
  <2>1. Tells(CheckPayoutStatus(order.by, order.word).status, order.word)
    BY PollsTell
  <2> QED
    BY <1>1, <1>2, <1>6, <2>1 DEF Hear, Tells, AnswersInv, PollIsOfOrder, HeardHappened
<1> QED
  BY <1>3, <1>4, <1>5, <1>6 DEF Ask

\* What a refund does to an order: its refund moves on and is never forgotten, and only one that is made
\* returns the money.
LEMMA RefundMoves ==
  ASSUME AnswersInv, order # NoOrder, NEW state \in RefundStates \ {"none"}, NEW back \in BOOLEAN,
         state = "made" => back,
         order' = [order EXCEPT !.refund = state, !.returned = @ \/ back]
  PROVE  /\ OrderRemembers' /\ order'.refund = state /\ order'.paid = order.paid
         /\ order'.by = order.by /\ order' # NoOrder /\ (order.returned => order'.returned)
<1>1. order \in Orders
  BY DEF AnswersInv, OrderRemembers
<1>2. /\ order' \in Orders /\ order'.word = order.word /\ order'.paid = order.paid /\ order'.by = order.by
      /\ order'.refund = state /\ order'.returned = (order.returned \/ back)
  <2> DEFINE words == UNION {PaymentWords[p] \cup PayoutWords[p] : p \in Adapters}
  <2>1. order \in OrdersOf(words)
    BY <1>1, Zenon DEF Orders
  <2> HIDE DEF words
  <2>2. /\ order' \in OrdersOf(words) /\ order'.word = order.word /\ order'.paid = order.paid /\ order'.by = order.by
        /\ order'.refund = state /\ order'.returned = (order.returned \/ back)
    BY <2>1 DEF OrdersOf
  <2> QED
    BY <2>2, Zenon DEF Orders, words
<1> QED
  BY <1>1, <1>2, OrdersAreTaken DEF AnswersInv, OrderRemembers

LEMMA RefundKeeps == ASSUME AnswersInv, NEW numericId \in BOOLEAN, RefundPayment(numericId) PROVE AnswersInv'
<1>1. /\ order # NoOrder /\ order' = [order EXCEPT !.refund = "accepted"]
      /\ Hear("refundPayment", "none", Result(TRUE, "refunded")) \/ HearNothing("refundPayment")
  BY DEF RefundPayment
<1>2. order' = [order EXCEPT !.refund = "accepted", !.returned = @ \/ FALSE]
  <2>1. order \in [by : Adapters, kind : {"payment", "payout"},
                   word : UNION {PaymentWords[p] \cup PayoutWords[p] : p \in Adapters},
                   paid : BOOLEAN, returned : BOOLEAN, refund : RefundStates]
    BY <1>1 DEF AnswersInv, OrderRemembers, Orders, OrdersOf
  <2> DEFINE words == UNION {PaymentWords[p] \cup PayoutWords[p] : p \in Adapters}
  <2> HIDE DEF words
  <2>2. order \in [by : Adapters, kind : {"payment", "payout"}, word : words, paid : BOOLEAN, returned : BOOLEAN,
                   refund : RefundStates]
    BY <2>1 DEF words
  <2> QED
    BY <1>1, <2>2
<1>3. OrderRemembers' /\ order'.refund = "accepted"
  BY <1>1, <1>2, RefundMoves DEF RefundStates
<1>4. CASE HearNothing("refundPayment")
  BY <1>3, <1>4, NothingHeard DEF AnswersInv
<1>5. CASE Hear("refundPayment", "none", Result(TRUE, "refunded"))
  BY <1>3, <1>5 DEF Hear, Result, AnswersInv, PollIsOfOrder, HeardHappened
<1> QED
  BY <1>1, <1>4, <1>5

LEMMA RefundEndsKeeps == ASSUME AnswersInv, RefundEnds PROVE AnswersInv'
<1>1. PICK back \in BOOLEAN, state \in {"made", "declined"} :
        /\ state = "made" => back
        /\ order' = [order EXCEPT !.refund = state, !.returned = @ \/ back]
  <2> DEFINE words == UNION {PaymentWords[p] \cup PayoutWords[p] : p \in Adapters}
  <2>1. order \in OrdersOf(words)
    BY Zenon DEF RefundEnds, AnswersInv, OrderRemembers, Orders
  <2> HIDE DEF words
  <2>2. CASE order' = [order EXCEPT !.refund = "made", !.returned = TRUE]
    <3>1. order' = [order EXCEPT !.refund = "made", !.returned = @ \/ TRUE]
      BY <2>1, <2>2 DEF OrdersOf
    <3> QED
      BY <3>1
  <2>3. CASE order' = [order EXCEPT !.refund = "declined"]
    <3>1. order' = [order EXCEPT !.refund = "declined", !.returned = @ \/ FALSE]
      BY <2>1, <2>3 DEF OrdersOf
    <3> QED
      BY <3>1
  <2> QED
    BY <2>2, <2>3 DEF RefundEnds
<1>2. order # NoOrder /\ UNCHANGED heard
  BY DEF RefundEnds
<1>3. /\ OrderRemembers' /\ order'.refund = state /\ order'.paid = order.paid
      /\ order'.by = order.by /\ order' # NoOrder /\ (order.returned => order'.returned)
  BY <1>1, <1>2, RefundMoves DEF RefundStates
<1>4. PollIsOfOrder' /\ HeardHappened'
  BY <1>2, <1>3 DEF AnswersInv, PollIsOfOrder, HeardHappened
<1> QED
  BY <1>3, <1>4 DEF AnswersInv

LEMMA AnswersStep == AnswersInv /\ [AdaptersNext]_adapterVars => AnswersInv'
<1> SUFFICES ASSUME AnswersInv, [AdaptersNext]_adapterVars PROVE AnswersInv'
  OBVIOUS
<1>1. CASE UNCHANGED <<order, heard>>
  BY <1>1 DEF AnswersInv, OrderRemembers, PollIsOfOrder, HeardHappened
<1>2. CASE RefundRefused
  <2>1. UNCHANGED order /\ HearNothing("refundPayment")
    BY <1>2 DEF RefundRefused
  <2> QED
    BY <2>1, NothingHeard DEF AnswersInv, OrderRemembers
<1>3. CASE Address \/ UNCHANGED adapterVars
  BY <1>1, <1>3 DEF Address, adapterVars
<1>4. ASSUME NEW p \in Adapters, CreatePayment(p) \/ CreatePayout(p) PROVE AnswersInv'
  BY <1>4, CreatePaymentKeeps, CreatePayoutKeeps
<1>5. ASSUME NEW numericId \in BOOLEAN, RefundPayment(numericId) PROVE AnswersInv'
  BY <1>5, RefundKeeps
<1> QED
  BY <1>2, <1>3, <1>4, <1>5, ProgressKeeps, AskKeeps, RefundEndsKeeps DEF AdaptersNext

LEMMA PollsAgree == AnswersInv => PollsAgreeWithReports
<1> SUFFICES ASSUME AnswersInv, heard.op \in {"verifyPayment", "getPaymentStatus"}, heard.answered,
                    NEW r \in WebhookSide!Reports, r.from = order.by, r.status = heard.word
             PROVE  SameAsReport(heard.status, WebhookSide!NewStatus(r))
  BY Zenon DEF PollsAgreeWithReports, SameAsReport
<1>1. \/ heard.status = VerifyPayment(r.from, r.status).status
      \/ heard.status = GetPaymentStatus(r.from, r.status).status
  BY DEF AnswersInv, PollIsOfOrder
<1> QED
  BY <1>1, PollsMatchReports

\* What adapters answer is true of the order when it says that money moved, and agrees with what a webhook
\* tells of the same word, for every provider and every order of answers, losses and refunds.
THEOREM AnswersAlwaysAgree == AdaptersSpec => []AnswersAgree
<1>1. AnswersInv => AnswersAgree
  BY PollsAgree DEF AnswersAgree, AnswersInv
<1> QED
  BY <1>1, AnswersStart, AnswersStep, PTL DEF AdaptersSpec

\* A transfer that passes validation is addressed, whatever the country, the currency and the fields.
WellAddressed(country, currency, has, to) ==
  "account" \in has =>
    /\ to.kind # "INTERAC_ACCOUNT" => Beneficiary(country, currency, has, to) \in to.parts
    /\ to.kind = "BANK_ACCOUNT" =>
         /\ European(country, currency) => "bicSwift" \in to.parts
         /\ country \in {"IN", "US", "USA"} /\ ~European(country, currency) => "bankCode" \in to.parts

LEMMA ValidIsAddressed ==
  ASSUME NEW country, NEW currency, NEW has, ValidPayoutData(country, currency, has)
  PROVE  WellAddressed(country, currency, has, Destination(country, currency, has))
<1> DEFINE to == Destination(country, currency, has)
<1> SUFFICES ASSUME "account" \in has
             PROVE  /\ to.kind # "INTERAC_ACCOUNT" => Beneficiary(country, currency, has, to) \in to.parts
                    /\ to.kind = "BANK_ACCOUNT" =>
                         /\ European(country, currency) => "bicSwift" \in to.parts
                         /\ country \in {"IN", "US", "USA"} /\ ~European(country, currency) => "bankCode" \in to.parts
  BY Zenon DEF WellAddressed
<1>1. has \cap {"account"} # {}
  OBVIOUS
<1>2. CASE SentAsCrypto(currency)
  BY <1>1, <1>2 DEF Destination, Beneficiary
<1>3. CASE ~SentAsCrypto(currency) /\ country = "BR" /\ "vpa" \in has
  BY <1>1, <1>3 DEF Destination, Beneficiary
<1>4. CASE ~SentAsCrypto(currency) /\ country = "CA"
  BY <1>4 DEF Destination
<1>5. CASE ~SentAsCrypto(currency) /\ ~(country = "BR" /\ "vpa" \in has) /\ country # "CA"
  <2>1. ~CheckedAsCrypto(currency)
    BY <1>5 DEF SentAsCrypto, CheckedAsCrypto
  <2>2. CASE European(country, currency)
    <3>1. has \cap {"swift", "bic", "ifsc"} # {}
      BY <1>5, <2>1, <2>2 DEF ValidPayoutData
    <3>2. to.kind = "BANK_ACCOUNT" /\ to.parts = (IF "iban" \in has THEN {"iban"} ELSE {"account"}) \cup {"bicSwift"}
      BY <1>1, <1>5, <2>2, <3>1 DEF Destination
    <3>3. Beneficiary(country, currency, has, to) = IF "iban" \in has THEN "iban" ELSE "account"
      BY <2>2, <3>2 DEF Beneficiary
    <3> QED
      BY <2>2, <3>2, <3>3
  <2>3. CASE ~European(country, currency)
    <3> DEFINE Addressed == to.kind = "BANK_ACCOUNT" /\ "account" \in to.parts
    <3>1. /\ country = "IN" => has \cap {"ifsc"} # {}
          /\ country \in {"US", "USA"} => has \cap {"routing"} # {}
      BY <1>5, <2>1, <2>3 DEF ValidPayoutData
    <3>2. Addressed /\ (country = "IN" => "bankCode" \in to.parts)
      <4>1. CASE country = "IN"
        BY <1>1, <1>5, <2>3, <3>1, <4>1 DEF Destination
      <4>2. CASE country \in {"US", "USA"}
        BY <1>1, <1>5, <2>3, <4>2 DEF Destination
      <4>3. CASE country \notin {"IN", "US", "USA"}
        BY <1>1, <1>5, <2>3, <4>3 DEF Destination
      <4> QED
        BY <4>1, <4>2, <4>3
    <3>3. ASSUME country \in {"US", "USA"} PROVE "bankCode" \in to.parts
      <4>1. country # "IN"
        BY <3>3
      <4> QED
        BY <1>5, <2>3, <3>1, <3>3, <4>1 DEF Destination
    <3>4. Beneficiary(country, currency, has, to) = "account"
      BY <2>3 DEF Beneficiary
    <3> QED
      BY <2>3, <3>2, <3>3, <3>4
  <2> QED
    BY <2>2, <2>3
<1> QED
  BY <1>2, <1>3, <1>4, <1>5

\* Only a coin goes to a wallet, and outside Brazil and Canada everything else to the account in a bank.
LEMMA KindOfDestination ==
  ASSUME NEW country, NEW currency, NEW has, "account" \in has
  PROVE  LET to == Destination(country, currency, has)
         IN /\ SentAsCrypto(currency) <=> to.kind = "CRYPTO_WALLET"
            /\ country \notin {"CA", "BR"} \/ SentAsCrypto(currency) =>
                 /\ to.kind \in {"CRYPTO_WALLET", "BANK_ACCOUNT"}
                 /\ Beneficiary(country, currency, has, to) \in to.parts
<1> DEFINE to == Destination(country, currency, has)
<1>1. has \cap {"account"} # {}
  OBVIOUS
<1>2. CASE SentAsCrypto(currency)
  BY <1>1, <1>2 DEF Destination, Beneficiary
<1>3. CASE ~SentAsCrypto(currency) /\ country = "BR" /\ "vpa" \in has
  BY <1>3 DEF Destination
<1>4. CASE ~SentAsCrypto(currency) /\ country = "CA"
  BY <1>4 DEF Destination
<1>5. CASE ~SentAsCrypto(currency) /\ ~(country = "BR" /\ "vpa" \in has) /\ country # "CA"
  <2>1. CASE European(country, currency)
    <3>1. to.kind = "BANK_ACCOUNT" /\ (IF "iban" \in has THEN "iban" ELSE "account") \in to.parts
      BY <1>1, <1>5, <2>1 DEF Destination
    <3> QED
      BY <1>5, <2>1, <3>1 DEF Beneficiary
  <2>2. CASE ~European(country, currency)
    <3>1. to.kind = "BANK_ACCOUNT" /\ "account" \in to.parts
      <4>1. CASE country = "IN"
        BY <1>1, <1>5, <2>2, <4>1 DEF Destination
      <4>2. CASE country \in {"US", "USA"}
        BY <1>1, <1>5, <2>2, <4>2 DEF Destination
      <4>3. CASE country \notin {"IN", "US", "USA"}
        BY <1>1, <1>5, <2>2, <4>3 DEF Destination
      <4> QED
        BY <4>1, <4>2, <4>3
    <3> QED
      BY <1>5, <2>2, <3>1 DEF Beneficiary
  <2> QED
    BY <2>1, <2>2
<1> QED
  BY <1>2, <1>3, <1>4, <1>5

\* A coin is collected as one the bank has when it is paid by fiat or by crypto, for any currency.
LEMMA ChargeCollects ==
  ASSUME NEW currency, NEW method, NEW network \in {"none", "ERC20", "TRC20"}, Charge(currency, method, network)
  PROVE  CollectedInItsAsset' /\ OfferedFormsArrive' /\ PaidWhereAsked'
<1> DEFINE asset == ToKingdomBank(currency, network)
           coin  == SentAsCrypto(currency) /\ method \in {"fiat", "crypto"}
<1>1. asset[1] = currency
  BY DEF ToKingdomBank
<1>2. SentAsCrypto(currency) /\ Mappable(currency) => asset \in BanksCoins
  BY DEF ToKingdomBank, SentAsCrypto, Mappable, Unsupported, BanksCoins, Stable
<1> HIDE DEF asset
<1>3. \/ instruction' = Refused
      \/ instruction' = CryptoCheckout(currency, asset) /\ coin /\ Mappable(currency)
      \/ instruction' = PlainCheckout(method, currency, asset) /\ coin /\ Mappable(currency)
      \/ instruction' = PlainCheckout(method, currency, <<currency, "own">>) /\ ~coin
  BY DEF Charge, asset
<1>4. CASE instruction' = Refused
  BY <1>4 DEF Refused, CollectedInItsAsset, OfferedFormsArrive, PaidWhereAsked
<1>5. ASSUME NEW flow, NEW by, NEW made,
             instruction' = [to |-> "kingdom_bank", flow |-> flow, method |-> by, of |-> currency, asset |-> made],
             made[1] = currency, SentAsCrypto(currency) /\ by \in {"fiat", "crypto"} => made \in BanksCoins
      PROVE  CollectedInItsAsset' /\ OfferedFormsArrive' /\ PaidWhereAsked'
  <2>1. /\ instruction'.to = "kingdom_bank" /\ instruction'.of = currency /\ instruction'.asset = made
        /\ instruction'.method = by /\ "form" \notin DOMAIN instruction'
    BY <1>5
  <2> QED
    BY <1>5, <2>1 DEF CollectedInItsAsset, OfferedFormsArrive, PaidWhereAsked
<1>6. <<currency, "own">>[1] = currency
  OBVIOUS
<1> QED
  BY <1>1, <1>2, <1>3, <1>4, <1>5, <1>6 DEF CryptoCheckout, PlainCheckout

\* The forms that are offered: each has an account, its coins are coins, and no country is Brazil.
LEMMA FormsOffered ==
  ASSUME NEW form \in OfferedForms
  PROVE  /\ "account" \in form.has /\ CountryOf(form) # "BR"
         /\ form.method = "crypto_wallet" <=> SentAsCrypto(form.currency)
<1>1. PICK m \in DOMAIN OfferedMethods : form \in FormsOf(m)
  BY DEF OfferedForms
<1>2. PICK country \in Namings(OfferedMethods[m].countries), currency \in OfferedMethods[m].currencies,
           more \in Optional : form = Filled(m, country, currency, more)
  BY <1>1 DEF FormsOf
<1>3. /\ "account" \in OfferedMethods[m].has /\ "BR" \notin OfferedMethods[m].countries
      /\ m = "crypto_wallet" <=> SentAsCrypto(currency)
  BY DEF OfferedMethods, BankAccountInr, Upi, BankAccountInternational, CryptoWallet, Method, SentAsCrypto
<1>4. /\ form.method = m /\ form.country = country /\ form.currency = currency
      /\ form.has = OfferedMethods[m].has \cup more
  BY <1>2 DEF Filled, Form
<1>5. CountryOf(form) # "BR"
  <2>1. \A c \in DOMAIN CountryOfCurrency : CountryOfCurrency[c] # "BR"
    BY DEF CountryOfCurrency
  <2>2. \A c \in DOMAIN Listed3 : Listed3[c] # "BR"
    BY DEF Listed3
  <2>3. country # "BR"
    BY <1>3, <2>2 DEF Namings
  <2> QED
    BY <1>4, <2>1, <2>3 DEF CountryOf
<1> QED
  BY <1>3, <1>4, <1>5

LEMMA BankTransferArrives ==
  ASSUME NEW form \in OfferedForms, TransferByBank(form)
  PROVE  CollectedInItsAsset' /\ OfferedFormsArrive' /\ PaidWhereAsked'
<1> DEFINE country == CountryOf(form)
           to      == Destination(country, form.currency, form.has)
<1>1. CASE instruction' = Refused
  BY <1>1 DEF Refused, CollectedInItsAsset, OfferedFormsArrive, PaidWhereAsked
<1>2. CASE instruction' = [to |-> "kingdom_bank", form |-> form, destination |-> to, country |-> Country3(country)]
  <2>1. /\ (form.method = "crypto_wallet") = (to.kind = "CRYPTO_WALLET")
        /\ country # "CA" \/ form.method = "crypto_wallet" =>
             /\ to.kind \in {"CRYPTO_WALLET", "BANK_ACCOUNT"}
             /\ Beneficiary(country, form.currency, form.has, to) \in to.parts
    BY FormsOffered, KindOfDestination
  <2> DEFINE c3 == Country3(country)
  <2> HIDE DEF to, c3
  <2>2. /\ instruction'.to = "kingdom_bank" /\ instruction'.form = form /\ instruction'.destination = to
        /\ "asset" \notin DOMAIN instruction'
    BY <1>2 DEF c3
  <2> QED
    BY <2>1, <2>2, Zenon DEF CollectedInItsAsset, OfferedFormsArrive, PaidWhereAsked
<1> QED
  BY <1>1, <1>2, Zenon DEF TransferByBank

\* The first field of a list is taken when it is filled in, and the second when only the first is not.
LEMMA FirstLeads ==
  ASSUME NEW all, NEW has, NEW k \in DOMAIN all, DOMAIN all \in SUBSET Int,
         all[k] \in has, \A j \in 1 .. k - 1 : all[j] \notin has,
         \A i \in DOMAIN all : i \geq 1
  PROVE  FirstOf(all, has) = all[k]
<1> DEFINE Leads(i) == all[i] \in has /\ \A j \in 1 .. i - 1 : all[j] \notin has
           first    == CHOOSE i \in DOMAIN all : Leads(i)
<1>1. Leads(k)
  OBVIOUS
<1>2. first \in DOMAIN all /\ Leads(first)
  BY <1>1, Zenon
<1>3. FirstOf(all, has) = all[first]
  BY <1>1, Zenon DEF FirstOf
<1> HIDE DEF first
<1>4. first = k
  BY <1>1, <1>2
<1> QED
  BY <1>3, <1>4

LEMMA PayazaTransferArrives ==
  ASSUME NEW form, NEW accountType, NEW payoutType, NEW given, NEW answered,
         TransferByPayaza(form, accountType, payoutType, given, answered)
  PROVE  CollectedInItsAsset' /\ OfferedFormsArrive' /\ PaidWhereAsked'
<1> DEFINE type    == TransactionType(form.currency, accountType, payoutType, given)
           code    == BankCode(form.has)
           account == AccountNumber(type, form.has)
           name    == NameSent(type, form.has, answered)
           country == PayazaCountry(CountryOf(form))
           wallet  == type = "mobile_money" /\ "mobile" \in form.has
<1>1. wallet => account = "mobile"
  <2> SUFFICES ASSUME wallet PROVE FirstOf(<<"mobile", "account", "metadata", "phone">>, form.has) = "mobile"
    BY Zenon DEF AccountNumber
  <2> DEFINE all == <<"mobile", "account", "metadata", "phone">>
  <2>1. DOMAIN all = 1 .. 4 /\ all[1] = "mobile"
    OBVIOUS
  <2> HIDE DEF all
  <2>2. FirstOf(all, form.has) = all[1]
    BY <2>1, FirstLeads
  <2> QED
    BY <2>1, <2>2 DEF all
<1>2. ~wallet /\ "account" \in form.has => account = "account"
  <2> SUFFICES ASSUME ~wallet, "account" \in form.has PROVE account = "account"
    OBVIOUS
  <2>1. CASE type = "mobile_money"
    <3> DEFINE all == <<"mobile", "account", "metadata", "phone">>
    <3>1. DOMAIN all = 1 .. 4 /\ all[1] = "mobile" /\ all[2] = "account"
      OBVIOUS
    <3>2. account = FirstOf(all, form.has)
      BY <2>1, Zenon DEF AccountNumber
    <3>3. "mobile" \notin form.has
      BY <2>1
    <3> HIDE DEF all, account, type
    <3>4. \A j \in 1 .. 2 - 1 : all[j] \notin form.has
      BY <3>1, <3>3
    <3>5. FirstOf(all, form.has) = all[2]
      BY <3>1, <3>4, FirstLeads
    <3> QED
      BY <3>1, <3>2, <3>5
  <2>2. CASE type # "mobile_money"
    <3> DEFINE all == <<"account", "mobile", "metadata", "phone">>
    <3>1. DOMAIN all = 1 .. 4 /\ all[1] = "account"
      OBVIOUS
    <3>2. account = FirstOf(all, form.has)
      BY <2>2, Zenon DEF AccountNumber
    <3> HIDE DEF all, account, type
    <3>3. FirstOf(all, form.has) = all[1]
      BY <3>1, FirstLeads
    <3> QED
      BY <3>1, <3>2, <3>3
  <2> QED
    BY <2>1, <2>2
<1>3. \/ instruction' = Refused
      \/ instruction' = [to |-> "payaza", form |-> form, type |-> type, bank |-> code, account |-> account,
                         name |-> name, country |-> country]
  BY Zenon DEF TransferByPayaza
<1> HIDE DEF type, code, account, name, country
<1>4. CASE instruction' = Refused
  BY <1>4 DEF Refused, CollectedInItsAsset, OfferedFormsArrive, PaidWhereAsked
<1>5. CASE instruction' = [to |-> "payaza", form |-> form, type |-> type, bank |-> code, account |-> account,
                           name |-> name, country |-> country]
  <2>1. /\ instruction'.to = "payaza" /\ instruction'.form = form
        /\ instruction'.type = type /\ instruction'.account = account
    BY <1>5
  <2> QED
    BY <1>1, <1>2, <2>1 DEF CollectedInItsAsset, OfferedFormsArrive, PaidWhereAsked
<1> QED
  BY <1>3, <1>4, <1>5

LEMMA AdaptersAddress == TransfersAddressed /\ [AdaptersNext]_adapterVars => TransfersAddressed'
<1> SUFFICES ASSUME TransfersAddressed, [AdaptersNext]_adapterVars PROVE TransfersAddressed'
  OBVIOUS
<1>1. CASE UNCHANGED transfer
  BY <1>1 DEF TransfersAddressed
<1>2. CASE Address
  <2>1. PICK country \in Countries, currency \in Currencies, has \in SUBSET Fields :
          /\ ValidPayoutData(country, currency, has)
          /\ transfer' = [sent |-> TRUE, country |-> country, currency |-> currency, has |-> has,
                          to |-> Destination(country, currency, has)]
    BY <1>2 DEF Address
  <2> DEFINE to == Destination(country, currency, has)
  <2>2. WellAddressed(country, currency, has, to)
    BY <2>1, ValidIsAddressed
  <2> HIDE DEF to
  <2>3. transfer'.country = country /\ transfer'.currency = currency /\ transfer'.has = has /\ transfer'.to = to
    BY <2>1 DEF to
  <2> QED
    BY <2>2, <2>3, Zenon DEF WellAddressed, TransfersAddressed, European, Beneficiary
<1> QED
  BY <1>1, <1>2 DEF AdaptersNext, CreatePayment, CreatePayout, Progress, Ask, RefundRefused, RefundPayment, RefundEnds,
                      adapterVars

THEOREM InstructionsAlwaysArrive == InstructionsSpec => []InstructionsArrive
<1>1. InstructionsInit /\ AdaptersInit => InstructionsArrive
  BY DEF InstructionsInit, AdaptersInit, NoInstruction, NoTransfer, InstructionsArrive, CollectedInItsAsset,
         OfferedFormsArrive, PaidWhereAsked, TransfersAddressed
<1>2. InstructionsArrive /\ [TellingNext]_<<instruction, adapterVars>> => InstructionsArrive'
  <2> SUFFICES ASSUME InstructionsArrive, [TellingNext]_<<instruction, adapterVars>> PROVE InstructionsArrive'
    OBVIOUS
  <2>1. CASE UNCHANGED instruction /\ [AdaptersNext]_adapterVars
    <3>1. TransfersAddressed'
      BY <2>1, AdaptersAddress DEF InstructionsArrive
    <3> QED
      BY <2>1, <3>1 DEF InstructionsArrive, CollectedInItsAsset, OfferedFormsArrive, PaidWhereAsked
  <2>2. CASE InstructionsNext /\ UNCHANGED adapterVars
    <3>1. TransfersAddressed'
      BY <2>2 DEF InstructionsArrive, TransfersAddressed, adapterVars
    <3>2. CollectedInItsAsset' /\ OfferedFormsArrive' /\ PaidWhereAsked'
      BY <2>2, ChargeCollects, BankTransferArrives, PayazaTransferArrives DEF InstructionsNext
    <3> QED
      BY <3>1, <3>2 DEF InstructionsArrive
  <2> QED
    BY <2>1, <2>2 DEF TellingNext
<1> QED
  BY <1>1, <1>2, PTL DEF InstructionsSpec
===============================================================================
