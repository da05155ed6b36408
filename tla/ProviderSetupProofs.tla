--------------------------- MODULE ProviderSetupProofs ---------------------------
(***************************************************************************)
(* ProviderSetup keeps its types, and a provider config outlives the users *)
(* it had when its deletion was requested, for any number of resources,    *)
(* namespaces and provider configs.                                        *)
(***************************************************************************)
EXTENDS ProviderSetup, TLAPS

-------------------------------------------------------------------------------
(* Type correctness. A secret is looked up under a namespace, so the type    *)
(* invariant needs that a worker past Resolve has one, and that the provider *)
(* config it took it from named one.                                         *)

ConfigRecord ==
  [phase : {"absent", "present", "gone"}, deleting : BOOLEAN,
   finalizer : BOOLEAN, ref : Namespace \cup {None}]
MrRecord ==
  [phase : {"absent", "present", "gone"}, deleting : BOOLEAN,
   finalizer : BOOLEAN]

RefNamed == \A c \in Config : config[c].phase = "present" => config[c].ref \in Namespace
SecretNamed == \A m \in Managed : step[m] \in {"track", "extract"} => secretNs[m] \in Namespace
TypeInv == TypeOK /\ RefNamed /\ SecretNamed

\* Storing a record of the right type keeps the type of a function of records.
LEMMA StoreConfig ==
  ASSUME TypeOK, NEW c \in Config, NEW r \in ConfigRecord
  PROVE  [config EXCEPT ![c] = r] \in [Config -> ConfigRecord]
BY DEF TypeOK, ConfigRecord

LEMMA ConfigTyped == ASSUME TypeOK, NEW c \in Config PROVE config[c] \in ConfigRecord
BY DEF TypeOK, ConfigRecord

LEMMA MrTyped == ASSUME TypeOK, NEW m \in Managed PROVE mr[m] \in MrRecord
BY DEF TypeOK, MrRecord

LEMMA StoreMr ==
  ASSUME TypeOK, NEW m \in Managed, NEW r \in MrRecord
  PROVE  [mr EXCEPT ![m] = r] \in [Managed -> MrRecord]
BY DEF TypeOK, MrRecord

LEMMA InitType == Init => TypeInv
<1> SUFFICES ASSUME Init PROVE TypeInv
  OBVIOUS
<1>1. 0 \in 0..MaxChanges
  BY MaxChangesIsNat
<1>2. config \in [Config -> ConfigRecord] /\ mr \in [Managed -> MrRecord]
  BY DEF Init, ConfigRecord, MrRecord
<1>3. TypeOK
  BY <1>1, <1>2 DEF Init, TypeOK, ConfigRecord, MrRecord, Content, Complete
<1>4. QED
  BY <1>3 DEF Init, TypeInv, RefNamed, SecretNamed

LEMMA UserStepType == TypeInv /\ UserStep => TypeInv'
<1> SUFFICES ASSUME TypeInv, UserStep PROVE TypeInv'
  OBVIOUS
<1> USE DEF TypeInv
<1>1. ASSUME NEW c \in Config, CreateConfig(c) PROVE TypeInv'
  <2>1. PICK n \in Namespace :
          config' = [config EXCEPT ![c].phase = "present", ![c].ref = n]
    BY <1>1 DEF CreateConfig
  <2> DEFINE r == [config[c] EXCEPT !.phase = "present", !.ref = n]
  <2>2. r \in ConfigRecord
    BY ConfigTyped DEF ConfigRecord
  <2>3. config' = [config EXCEPT ![c] = r]
    BY <2>1 DEF TypeOK
  <2>4. config' \in [Config -> ConfigRecord]
    BY <2>2, <2>3, StoreConfig
  <2>5. TypeOK' /\ SecretNamed'
    BY <1>1, <2>4 DEF CreateConfig, TypeOK, SecretNamed, ConfigRecord, worker
  <2>6. RefNamed'
    BY <2>3 DEF RefNamed, TypeOK
  <2>7. QED
    BY <2>5, <2>6
<1>2. ASSUME NEW c \in Config, DeleteConfig(c) PROVE TypeInv'
  <2> DEFINE p == IF config[c].finalizer THEN "present" ELSE "gone"
             r == [config[c] EXCEPT !.deleting = TRUE, !.phase = p]
  <2>1. r \in ConfigRecord
    BY ConfigTyped DEF ConfigRecord
  <2>2. config' = [config EXCEPT ![c] = r]
    BY <1>2 DEF DeleteConfig, TypeOK
  <2>3. config' \in [Config -> ConfigRecord]
    BY <2>1, <2>2, StoreConfig
  <2>4. held' \in [Config -> SUBSET Managed]
    BY <1>2 DEF DeleteConfig, TypeOK, Users
  <2>5. TypeOK' /\ SecretNamed'
    BY <1>2, <2>3, <2>4 DEF DeleteConfig, TypeOK, SecretNamed, ConfigRecord, worker
  <2>6. RefNamed'
    BY <1>2, <2>2 DEF DeleteConfig, Exists, RefNamed, TypeOK
  <2>7. QED
    BY <2>5, <2>6
<1>3. ASSUME NEW n \in Namespace, ChangeSecret(n) PROVE TypeInv'
  <2>1. changes' \in 0..MaxChanges
    BY <1>3, MaxChangesIsNat DEF ChangeSecret, TypeOK
  <2>2. secret' \in [Namespace -> Content]
    BY <1>3 DEF ChangeSecret, TypeOK
  <2>3. QED
    BY <1>3, <2>1, <2>2
       DEF ChangeSecret, TypeOK, RefNamed, SecretNamed, worker
<1>4. ASSUME NEW m \in Managed, CreateManaged(m) PROVE TypeInv'
  <2> DEFINE r == [mr[m] EXCEPT !.phase = "present"]
  <2>1. r \in MrRecord
    BY MrTyped DEF MrRecord
  <2>2. mr' = [mr EXCEPT ![m] = r]
    BY <1>4 DEF CreateManaged, TypeOK
  <2>3. mr' \in [Managed -> MrRecord]
    BY <2>1, <2>2, StoreMr
  <2>4. QED
    BY <1>4, <2>3 DEF CreateManaged, TypeOK, MrRecord, RefNamed, SecretNamed, worker
<1>5. ASSUME NEW m \in Managed, DeleteManaged(m) PROVE TypeInv'
  <2> DEFINE p == IF mr[m].finalizer THEN "present" ELSE "gone"
             r == [mr[m] EXCEPT !.deleting = TRUE, !.phase = p]
  <2>1. r \in MrRecord
    BY MrTyped DEF MrRecord
  <2>2. mr' = [mr EXCEPT ![m] = r]
    BY <1>5 DEF DeleteManaged, TypeOK
  <2>3. mr' \in [Managed -> MrRecord]
    BY <2>1, <2>2, StoreMr
  <2>4. QED
    BY <1>5, <2>3 DEF DeleteManaged, TypeOK, MrRecord, RefNamed, SecretNamed, worker
<1>6. QED
  BY <1>1, <1>2, <1>3, <1>4, <1>5 DEF UserStep

LEMMA SetupType ==
  ASSUME TypeInv, NEW m \in Managed, Setup(m)
  PROVE  TypeInv'
<1> USE DEF TypeInv
<1>1. CASE Resolve(m)
  <2> DEFINE n == IF RefKind[m] = Namespaced THEN Home[m] ELSE config[ConfigOf(m)].ref
  <2>1. n \in Namespace
    BY <1>1, HomeAssumption DEF Resolve, RefNamed, Exists
  <2>2. /\ secretNs' = [secretNs EXCEPT ![m] = n]
        /\ step' = [step EXCEPT ![m] = "track"]
    BY <1>1 DEF Resolve
  <2>3. /\ secretNs' \in [Managed -> Namespace \cup {None}]
        /\ step' \in [Managed -> {"idle", "track", "extract", "configured"}]
    BY <2>1, <2>2 DEF TypeOK
  <2>4. SecretNamed'
    BY <2>1, <2>2 DEF SecretNamed, TypeOK
  <2>5. QED
    BY <1>1, <2>3, <2>4 DEF Resolve, TypeOK, RefNamed
<1>2. CASE Track(m)
  BY <1>2 DEF Track, TypeOK, RefNamed, SecretNamed
<1>3. CASE Extract(m)
  <2>1. secret[secretNs[m]] \in Content
    BY <1>3 DEF Extract, TypeOK, SecretNamed
  <2>2. secret[secretNs[m]] \in {"incomplete"} \cup Complete
    BY <1>3, <2>1 DEF Extract, Content
  <2>3. creds' \in [Managed -> {"none", "incomplete"} \cup Complete]
    BY <1>3, <2>2 DEF Extract, TypeOK
  <2>4. QED
    BY <1>3, <2>3 DEF Extract, TypeOK, RefNamed, SecretNamed
<1>4. CASE SetupFails(m)
  BY <1>4 DEF SetupFails, TypeOK, RefNamed, SecretNamed
<1>5. CASE Reconcile(m)
  <2> DEFINE r == [mr[m] EXCEPT !.finalizer = ~mr[m].deleting,
                     !.phase = IF mr[m].deleting THEN "gone" ELSE "present"]
  <2>1. r \in MrRecord
    BY MrTyped DEF MrRecord
  <2>2. mr' = mr \/ mr' = [mr EXCEPT ![m] = r]
    BY <1>5 DEF Reconcile, TypeOK
  <2>3. mr' \in [Managed -> MrRecord]
    <3>1. mr \in [Managed -> MrRecord]
      BY DEF TypeOK, MrRecord
    <3>2. QED
      BY <2>1, <2>2, <3>1, StoreMr
  <2>4. QED
    BY <1>5, <2>3 DEF Reconcile, TypeOK, MrRecord, RefNamed, SecretNamed
<1>6. QED
  BY <1>1, <1>2, <1>3, <1>4, <1>5 DEF Setup

LEMMA KeepType ==
  ASSUME TypeInv, NEW c \in Config, Keep(c)
  PROVE  TypeInv'
<1> USE DEF TypeInv
<1>1. CASE ListUsages(c)
  BY <1>1 DEF ListUsages, TypeOK, RefNamed, SecretNamed, worker
<1>2. CASE HoldConfig(c)
  <2> DEFINE r == [config[c] EXCEPT !.finalizer = TRUE]
  <2>1. r \in ConfigRecord
    BY ConfigTyped DEF ConfigRecord
  <2>2. config' = config \/ config' = [config EXCEPT ![c] = r]
    BY <1>2 DEF HoldConfig, TypeOK
  <2>3. config' \in [Config -> ConfigRecord]
    BY <2>1, <2>2, StoreConfig DEF TypeOK, ConfigRecord
  <2>4. RefNamed'
    BY <2>2 DEF RefNamed, TypeOK
  <2>5. QED
    BY <1>2, <2>3, <2>4 DEF HoldConfig, TypeOK, ConfigRecord, SecretNamed, worker
<1>3. CASE ReleaseConfig(c)
  <2> DEFINE r == [config[c] EXCEPT !.finalizer = FALSE, !.phase = "gone"]
  <2>1. r \in ConfigRecord
    BY ConfigTyped DEF ConfigRecord
  <2>2. config' = [config EXCEPT ![c] = r]
    BY <1>3 DEF ReleaseConfig, TypeOK
  <2>3. config' \in [Config -> ConfigRecord]
    BY <2>1, <2>2, StoreConfig
  <2>4. RefNamed'
    BY <2>2 DEF RefNamed, TypeOK
  <2>5. QED
    BY <1>3, <2>3, <2>4 DEF ReleaseConfig, TypeOK, ConfigRecord, SecretNamed, worker
<1>4. QED
  BY <1>1, <1>2, <1>3 DEF Keep

LEMMA NextType == TypeInv /\ [Next]_vars => TypeInv'
<1> SUFFICES ASSUME TypeInv, [Next]_vars PROVE TypeInv'
  OBVIOUS
<1>1. CASE SyncCache
  BY <1>1 DEF SyncCache, TypeInv, TypeOK, RefNamed, SecretNamed, worker
<1>2. CASE Restart
  BY <1>2 DEF Restart, TypeInv, TypeOK, RefNamed, SecretNamed
<1>3. ASSUME NEW m \in Managed, CollectUsage(m) PROVE TypeInv'
  BY <1>3 DEF CollectUsage, TypeInv, TypeOK, RefNamed, SecretNamed, worker
<1>4. CASE UNCHANGED vars
  BY <1>4 DEF vars, worker, TypeInv, TypeOK, RefNamed, SecretNamed
<1>5. QED
  BY <1>1, <1>2, <1>3, <1>4, UserStepType, SetupType, KeepType DEF Next

\* The setup function and the provider config controllers keep their types; in
\* particular what is read from a secret that cannot be used never becomes part
\* of a Terraform configuration.
THEOREM SetupTypeOK == Spec => []TypeOK
<1>1. TypeInv => TypeOK
  BY DEF TypeInv
<1>2. QED
  BY <1>1, InitType, NextType, PTL DEF Spec

-------------------------------------------------------------------------------
(* A provider config in use is kept. HeldConfigStays speaks of configs that   *)
(* are gone; the invariant also says why the ones that are not gone cannot go *)
(* too early: a user known to the cache stays known until it is gone, and a   *)
(* worker about to remove the finalizer has seen every held user go.          *)

Gone(m) == mr[m].phase = "gone"

\* The users a deletion found are those of that config, and known until gone.
HeldKnown ==
  \A c \in Config : \A m \in held[c] :
    ConfigOf(m) = c /\ (Gone(m) \/ (m \in usage /\ m \in cached))

\* The cache may miss usages; one it has too many belongs to a resource gone.
CacheKnown == \A m \in cached : m \in usage \/ Gone(m)

\* The list a worker releases a config on is never outdated by a new deletion.
ReleaseSafe ==
  \A c \in Config : keeper[c] = "release" =>
    config[c].deleting /\ \A m \in held[c] : Gone(m)

HeldInv == TypeInv /\ HeldConfigStays /\ HeldKnown /\ CacheKnown /\ ReleaseSafe

LEMMA InitHeld == Init => HeldInv
<1> SUFFICES ASSUME Init PROVE HeldInv
  OBVIOUS
<1>1. TypeInv
  BY InitType
<1>2. HeldConfigStays /\ HeldKnown /\ CacheKnown /\ ReleaseSafe
  BY DEF Init, HeldConfigStays, HeldKnown, CacheKnown, ReleaseSafe
<1>3. QED
  BY <1>1, <1>2 DEF HeldInv

\* A resource that is gone stays gone: no step of Next brings it back.
LEMMA GoneIsFinal ==
  ASSUME TypeInv, [Next]_vars, NEW m \in Managed, Gone(m)
  PROVE  Gone(m)'
<1> USE DEF Gone
<1>1. mr \in [Managed -> MrRecord]
  BY DEF TypeInv, TypeOK, MrRecord
<1>2. ASSUME NEW x \in Managed, CreateManaged(x) \/ DeleteManaged(x) PROVE Gone(m)'
  BY <1>1, <1>2 DEF CreateManaged, DeleteManaged
<1>3. ASSUME NEW x \in Managed, Reconcile(x) PROVE Gone(m)'
  BY <1>1, <1>3 DEF Reconcile
<1>4. CASE UNCHANGED mr
  BY <1>4
<1>5. QED
  BY <1>2, <1>3, <1>4
     DEF Next, UserStep, Setup, Keep, CreateConfig, DeleteConfig, ChangeSecret,
         SyncCache, Restart, Resolve, Track, Extract, SetupFails, CollectUsage,
         ListUsages, HoldConfig, ReleaseConfig, vars

LEMMA NextHeld == HeldInv /\ [Next]_vars => HeldInv'
<1> SUFFICES ASSUME HeldInv, [Next]_vars PROVE HeldInv'
  OBVIOUS
<1> USE DEF HeldInv
<1>1. TypeInv'
  BY NextType
<1>2. \A m \in Managed : Gone(m) => Gone(m)'
  BY GoneIsFinal
<1>3. \A c \in Config : held[c] \subseteq Managed
  BY DEF TypeInv, TypeOK
<1>4. cached \subseteq Managed /\ cached' \subseteq Managed
  BY <1>1 DEF TypeInv, TypeOK
<1> DEFINE Rest == HeldConfigStays /\ HeldKnown /\ CacheKnown /\ ReleaseSafe
\* Steps that touch neither the configs nor what is known of their users.
<1>5. ASSUME UNCHANGED <<config, usage, cached, keeper, held>> PROVE Rest'
  BY <1>2, <1>3, <1>4, <1>5
     DEF HeldConfigStays, HeldKnown, CacheKnown, ReleaseSafe, Gone, ConfigOf
<1>6. ASSUME NEW c \in Config, CreateConfig(c) PROVE Rest'
  <2>1. \A d \in Config : /\ config'[d].phase = "gone" <=> config[d].phase = "gone"
                          /\ config'[d].deleting = config[d].deleting
    BY <1>6 DEF CreateConfig, TypeInv, TypeOK
  <2>2. QED
    BY <1>6, <2>1 DEF CreateConfig, HeldConfigStays, HeldKnown, CacheKnown,
                      ReleaseSafe, Gone, ConfigOf
<1>7. ASSUME NEW c \in Config, DeleteConfig(c) PROVE Rest'
  <2>1. /\ config[c].phase = "present" /\ ~config[c].deleting
        /\ UNCHANGED <<mr, usage, cached, keeper>>
    BY <1>7 DEF DeleteConfig, Exists
  <2>2. held'[c] = IF config[c].finalizer THEN Users(c) ELSE {}
    BY <1>7 DEF DeleteConfig, TypeInv, TypeOK
  <2>3. \A d \in Config \ {c} : held'[d] = held[d] /\ config'[d] = config[d]
    BY <1>7 DEF DeleteConfig, TypeInv, TypeOK
  <2>4. config'[c].phase = IF config[c].finalizer THEN "present" ELSE "gone"
    BY <1>7 DEF DeleteConfig, TypeInv, TypeOK
  <2>5. keeper[c] # "release"
    BY <2>1 DEF ReleaseSafe
  <2>6. HeldConfigStays'
    BY <2>1, <2>2, <2>3, <2>4 DEF HeldConfigStays
  <2>7. HeldKnown'
    BY <2>1, <2>2, <2>3 DEF HeldKnown, CacheKnown, Gone, ConfigOf, Users
  <2>8. CacheKnown' /\ ReleaseSafe'
    BY <2>1, <2>3, <2>5 DEF CacheKnown, ReleaseSafe, Gone
  <2>9. QED
    BY <2>6, <2>7, <2>8
<1>8. ASSUME NEW m \in Managed, Track(m) PROVE Rest'
  BY <1>8 DEF Track, HeldConfigStays, HeldKnown, CacheKnown, ReleaseSafe, Gone, ConfigOf
<1>9. ASSUME NEW m \in Managed, CollectUsage(m) PROVE Rest'
  BY <1>9 DEF CollectUsage, HeldConfigStays, HeldKnown, CacheKnown, ReleaseSafe,
              Gone, ConfigOf
<1>10. ASSUME SyncCache PROVE Rest'
  <2>1. cached' = usage /\ UNCHANGED <<config, mr, usage, held>>
    BY <1>10 DEF SyncCache
  <2>2. \A d \in Config : keeper'[d] = "release" => keeper[d] = "release"
    BY <1>10 DEF SyncCache
  <2>3. CacheKnown' /\ HeldConfigStays' /\ ReleaseSafe'
    BY <2>1, <2>2 DEF CacheKnown, HeldConfigStays, ReleaseSafe, Gone
  <2>4. HeldKnown'
    BY <2>1 DEF HeldKnown, Gone, ConfigOf
  <2>5. QED
    BY <2>3, <2>4
<1>11. ASSUME Restart PROVE Rest'
  <2>1. cached' = usage /\ UNCHANGED <<config, mr, usage, held>>
    BY <1>11 DEF Restart
  <2>2. \A d \in Config : keeper'[d] = "release" => keeper[d] = "release"
    BY <1>11 DEF Restart
  <2>3. CacheKnown' /\ HeldConfigStays' /\ ReleaseSafe'
    BY <2>1, <2>2 DEF CacheKnown, HeldConfigStays, ReleaseSafe, Gone
  <2>4. HeldKnown'
    BY <2>1 DEF HeldKnown, Gone, ConfigOf
  <2>5. QED
    BY <2>3, <2>4
<1>12. ASSUME NEW c \in Config, ListUsages(c) PROVE Rest'
  <2>1. UNCHANGED <<config, mr, usage, cached, held>>
    BY <1>12 DEF ListUsages
  <2>2. \A d \in Config \ {c} : keeper'[d] = keeper[d]
    BY <1>12 DEF ListUsages, TypeInv, TypeOK
  <2>3. ASSUME keeper'[c] = "release" PROVE config[c].deleting /\ Users(c) = {}
    BY <1>12, <2>3 DEF ListUsages, TypeInv, TypeOK
  <2>4. ReleaseSafe'
    BY <2>1, <2>2, <2>3 DEF ReleaseSafe, HeldKnown, Users, Gone
  <2>5. QED
    BY <2>1, <2>4 DEF HeldConfigStays, HeldKnown, CacheKnown, Gone, ConfigOf
<1>13. ASSUME NEW c \in Config, HoldConfig(c) PROVE Rest'
  <2>1. \A d \in Config : /\ config'[d].phase = config[d].phase
                          /\ config'[d].deleting = config[d].deleting
    BY <1>13 DEF HoldConfig, TypeInv, TypeOK
  <2>2. \A d \in Config : keeper'[d] = "release" => keeper[d] = "release"
    BY <1>13 DEF HoldConfig, TypeInv, TypeOK
  <2>3. QED
    BY <1>13, <2>1, <2>2 DEF HoldConfig, HeldConfigStays, HeldKnown, CacheKnown,
                             ReleaseSafe, Gone, ConfigOf
<1>14. ASSUME NEW c \in Config, ReleaseConfig(c) PROVE Rest'
  <2>1. /\ config[c].deleting /\ \A m \in held[c] : Gone(m)
        /\ UNCHANGED <<mr, usage, cached, held>>
    BY <1>14 DEF ReleaseConfig, ReleaseSafe
  <2>2. \A d \in Config : /\ d # c => config'[d].phase = config[d].phase
                          /\ config'[d].deleting = config[d].deleting
    BY <1>14 DEF ReleaseConfig, TypeInv, TypeOK
  <2>3. \A d \in Config : keeper'[d] = "release" => keeper[d] = "release"
    BY <1>14 DEF ReleaseConfig, TypeInv, TypeOK
  <2>4. QED
    BY <2>1, <2>2, <2>3 DEF HeldConfigStays, HeldKnown, CacheKnown, ReleaseSafe,
                            Gone, ConfigOf
<1>15. Rest'
  BY <1>5, <1>6, <1>7, <1>8, <1>9, <1>10, <1>11, <1>12, <1>13, <1>14
     DEF Next, UserStep, Setup, Keep, ChangeSecret, CreateManaged, DeleteManaged,
         Resolve, Extract, SetupFails, Reconcile, vars
<1>16. QED
  BY <1>1, <1>15

\* A provider config whose deletion was requested while it was in use stays until
\* each of these users is gone, whatever the requests, the informer cache, the
\* listing of usages and pod restarts do in between.
THEOREM ConfigOutlivesUsers == Spec => []HeldConfigStays
<1>1. HeldInv => HeldConfigStays
  BY DEF HeldInv
<1>2. QED
  BY <1>1, InitHeld, NextHeld, PTL DEF Spec

-------------------------------------------------------------------------------
(* Tenants. The namespace a worker carries from Resolve to Extract is its own. *)

CarriesHome ==
  \A m \in Managed :
    RefKind[m] = Namespaced /\ step[m] \in {"track", "extract"} => secretNs[m] = Home[m]

OwnInv == TypeInv /\ CarriesHome /\ OwnSecret

LEMMA InitOwn == Init => OwnInv
BY InitType DEF Init, OwnInv, CarriesHome, OwnSecret

LEMMA NextOwn == OwnInv /\ [Next]_vars => OwnInv'
<1> SUFFICES ASSUME OwnInv, [Next]_vars PROVE OwnInv'
  OBVIOUS
<1>1. TypeInv'
  BY NextType DEF OwnInv
<1> USE DEF OwnInv, CarriesHome, OwnSecret
<1> DEFINE Own == CarriesHome /\ OwnSecret
<1>2. ASSUME UNCHANGED worker PROVE Own'
  BY <1>2 DEF worker
<1>3. ASSUME NEW m \in Managed, Resolve(m) PROVE Own'
  <2>1. /\ step' = [step EXCEPT ![m] = "track"] /\ from' = from
        /\ RefKind[m] = Namespaced => secretNs' = [secretNs EXCEPT ![m] = Home[m]]
        /\ \A p \in Managed \ {m} : secretNs'[p] = secretNs[p]
    BY <1>3 DEF Resolve, TypeInv, TypeOK
  <2>2. QED
    BY <2>1 DEF TypeInv, TypeOK
<1>4. ASSUME NEW m \in Managed, Track(m) \/ SetupFails(m) \/ Reconcile(m) PROVE Own'
  BY <1>4 DEF Track, SetupFails, Reconcile, TypeInv, TypeOK
<1>5. ASSUME NEW m \in Managed, Extract(m) PROVE Own'
  BY <1>5 DEF Extract, TypeInv, TypeOK
<1>6. ASSUME Restart PROVE Own'
  BY <1>6 DEF Restart
<1>7. Own'
  BY <1>2, <1>3, <1>4, <1>5, <1>6
     DEF Next, UserStep, Setup, Keep, CreateConfig, DeleteConfig, ChangeSecret,
         CreateManaged, DeleteManaged, SyncCache, CollectUsage, ListUsages,
         HoldConfig, ReleaseConfig, vars
<1>8. QED
  BY <1>1, <1>7

\* A resource that refers to a namespaced provider config only ever works with the
\* credentials of its own namespace: the secretRef's namespace is overwritten
\* before the secret is read, whatever is rotated, deleted or restarted meanwhile.
THEOREM TenantsSeparated == Spec => []OwnSecret
<1>1. OwnInv => OwnSecret
  BY DEF OwnInv
<1>2. QED
  BY <1>1, InitOwn, NextOwn, PTL DEF Spec
===============================================================================
