------------------------------ MODULE ProviderSetup ------------------------------
(***************************************************************************)
(* How a managed resource gets its credentials: the setup function of      *)
(* internal/clients/arubacloud.go, which every connect calls, beside the   *)
(* controllers of internal/controller/providerconfig/config.go, which keep *)
(* a ProviderConfig or ClusterProviderConfig while it is in use, and users *)
(* who create, rotate and delete objects at any time. All provider configs *)
(* have the same name, so that only their kind and namespace tell them     *)
(* apart.                                                                  *)
(***************************************************************************)
EXTENDS Naturals

CONSTANTS
  Managed,      \* managed resources
  Namespace,    \* namespaces
  Home,         \* the namespace of each managed resource
  RefKind,      \* the kind in each providerConfigRef; None: no reference
  Config,       \* the provider configs users create
  None,
  MaxChanges    \* bound: changes of secrets

Namespaced == "ProviderConfig"
Clustered  == "ClusterProviderConfig"

ASSUME HomeAssumption == Home \in [Managed -> Namespace]
ASSUME RefKindAssumption ==
  RefKind \in [Managed -> {Namespaced, Clustered, "Unknown", None}]
ASSUME NoneAssumption == None \notin Namespace
ASSUME MaxChangesIsNat == MaxChanges \in Nat

\* A provider config is cluster-scoped or in a namespace.
ASSUME ConfigAssumption ==
  Config \subseteq ({Namespaced} \X Namespace) \cup {<<Clustered, None>>}

\* The provider config a resource refers to: the namespace of a cluster-scoped
\* one is ignored, and of any other kind there is none.
ConfigOf(m) ==
  IF RefKind[m] = Namespaced THEN <<Namespaced, Home[m]>>
                             ELSE <<Clustered, None>>
HasConfig(m) == RefKind[m] \in {Namespaced, Clustered}

\* What the credentials secret of a namespace holds: nothing, no JSON, JSON
\* without a client_id, or one of two complete sets of credentials.
Complete == {"old", "new"}
Content == {"absent", "malformed", "incomplete"} \cup Complete

VARIABLES
  config,     \* the provider configs in the API server
  secret,     \* the content of each namespace's credentials secret
  mr,         \* the managed resources in the API server
  usage,      \* the resources that have a ProviderConfigUsage
  cached,     \* the usages as the manager's informer cache has them
  step,       \* where each resource's worker is in the setup function
  secretNs,   \* the namespace of the secret it is going to read
  creds,      \* the credentials in each resource's Terraform configuration
  from,       \* the namespace these were read from
  keeper,     \* what each config's worker is about to do
  changes,    \* how often a secret was changed
  held        \* history: the usages the cache knew of when a deletion began

worker == <<step, secretNs, creds, from>>
vars == <<config, secret, mr, usage, cached, worker, keeper, changes, held>>

Users(c) == {m \in cached : ConfigOf(m) = c}
Exists(c) == c \in Config /\ config[c].phase = "present"

Init ==
  /\ config = [c \in Config |-> [phase |-> "absent", deleting |-> FALSE,
                                 finalizer |-> FALSE, ref |-> None]]
  /\ secret \in [Namespace -> {"absent", "old"}]
  /\ mr = [m \in Managed |-> [phase |-> "absent", deleting |-> FALSE,
                              finalizer |-> FALSE]]
  /\ usage = {} /\ cached = {}
  /\ step = [m \in Managed |-> "idle"]
  /\ secretNs = [m \in Managed |-> None]
  /\ creds = [m \in Managed |-> "none"]
  /\ from = [m \in Managed |-> None]
  /\ keeper = [c \in Config |-> "idle"]
  /\ changes = 0
  /\ held = [c \in Config |-> {}]

-------------------------------------------------------------------------------
(* Users *)

\* The secretRef of a provider config may name any namespace.
CreateConfig(c) ==
  /\ config[c].phase = "absent"
  /\ \E n \in Namespace :
       config' = [config EXCEPT ![c].phase = "present", ![c].ref = n]
  /\ UNCHANGED <<secret, mr, usage, cached, worker, keeper, changes, held>>

\* Without a finalizer the object goes at once.
DeleteConfig(c) ==
  /\ Exists(c) /\ ~config[c].deleting
  /\ config' = [config EXCEPT ![c].deleting = TRUE,
                  ![c].phase = IF config[c].finalizer THEN "present" ELSE "gone"]
  /\ held' = [held EXCEPT ![c] = IF config[c].finalizer THEN Users(c) ELSE {}]
  /\ UNCHANGED <<secret, mr, usage, cached, worker, keeper, changes>>

ChangeSecret(n) ==
  /\ changes < MaxChanges /\ changes' = changes + 1
  /\ \E s \in Content \ {secret[n]} : secret' = [secret EXCEPT ![n] = s]
  /\ UNCHANGED <<config, mr, usage, cached, worker, keeper, held>>

CreateManaged(m) ==
  /\ mr[m].phase = "absent"
  /\ mr' = [mr EXCEPT ![m].phase = "present"]
  /\ UNCHANGED <<config, secret, usage, cached, worker, keeper, changes, held>>

DeleteManaged(m) ==
  /\ mr[m].phase = "present" /\ ~mr[m].deleting
  /\ mr' = [mr EXCEPT ![m].deleting = TRUE,
              ![m].phase = IF mr[m].finalizer THEN "present" ELSE "gone"]
  /\ UNCHANGED <<config, secret, usage, cached, worker, keeper, changes, held>>

-------------------------------------------------------------------------------
(* The setup function, one step per call it makes to the API server *)

\* Mutants of Resolve: the namespace in the secretRef is used; a provider config
\* that is being deleted is refused.
Resolve_ref(m) ==
  /\ step[m] = "idle" /\ mr[m].phase = "present"
  /\ HasConfig(m) /\ Exists(ConfigOf(m))
  /\ secretNs' = [secretNs EXCEPT ![m] = config[ConfigOf(m)].ref]
  /\ step' = [step EXCEPT ![m] = "track"]
  /\ UNCHANGED <<config, secret, mr, usage, cached, creds, from, keeper,
                 changes, held>>
Resolve_refuses(m) ==
  /\ step[m] = "idle" /\ mr[m].phase = "present"
  /\ HasConfig(m) /\ Exists(ConfigOf(m)) /\ ~config[ConfigOf(m)].deleting
  /\ secretNs' = [secretNs EXCEPT ![m] =
                    IF RefKind[m] = Namespaced THEN Home[m]
                                               ELSE config[ConfigOf(m)].ref]
  /\ step' = [step EXCEPT ![m] = "track"]
  /\ UNCHANGED <<config, secret, mr, usage, cached, creds, from, keeper,
                 changes, held>>

\* resolveModern up to the switch: the reference must be there and of a known
\* kind, its object must exist, and a namespaced one has the namespace in its
\* secretRef replaced. Nobody looks at the object's deletion timestamp.
Resolve(m) ==
  /\ step[m] = "idle" /\ mr[m].phase = "present"
  /\ HasConfig(m) /\ Exists(ConfigOf(m))
  /\ secretNs' = [secretNs EXCEPT ![m] =
                    IF RefKind[m] = Namespaced THEN Home[m]
                                               ELSE config[ConfigOf(m)].ref]
  /\ step' = [step EXCEPT ![m] = "track"]
  /\ UNCHANGED <<config, secret, mr, usage, cached, creds, from, keeper,
                 changes, held>>

\* The usage is owned by the managed resource.
Track(m) ==
  /\ step[m] = "track"
  /\ usage' = usage \cup {m}
  /\ step' = [step EXCEPT ![m] = "extract"]
  /\ UNCHANGED <<config, secret, mr, cached, secretNs, creds, from, keeper,
                 changes, held>>

\* Mutants of Extract: the error is dropped; the first credentials are kept.
Extract_unchecked(m) ==
  /\ step[m] = "extract"
  /\ creds' = [creds EXCEPT ![m] = secret[secretNs[m]]]
  /\ from' = [from EXCEPT ![m] = secretNs[m]]
  /\ step' = [step EXCEPT ![m] = "configured"]
  /\ UNCHANGED <<config, secret, mr, usage, cached, secretNs, keeper, changes,
                 held>>
Extract_once(m) ==
  /\ step[m] = "extract"
  /\ secret[secretNs[m]] \notin {"absent", "malformed"}
  /\ creds' = [creds EXCEPT ![m] = IF @ = "none" THEN secret[secretNs[m]] ELSE @]
  /\ from' = [from EXCEPT ![m] = secretNs[m]]
  /\ step' = [step EXCEPT ![m] = "configured"]
  /\ UNCHANGED <<config, secret, mr, usage, cached, secretNs, keeper, changes,
                 held>>

\* The secret is read and must hold a JSON object; what it lacks is left empty.
Extract(m) ==
  /\ step[m] = "extract"
  /\ secret[secretNs[m]] \notin {"absent", "malformed"}
  /\ creds' = [creds EXCEPT ![m] = secret[secretNs[m]]]
  /\ from' = [from EXCEPT ![m] = secretNs[m]]
  /\ step' = [step EXCEPT ![m] = "configured"]
  /\ UNCHANGED <<config, secret, mr, usage, cached, secretNs, keeper, changes,
                 held>>

SetupFails(m) ==
  /\ step[m] \in {"track", "extract"}
  /\ step' = [step EXCEPT ![m] = "idle"]
  /\ UNCHANGED <<config, secret, mr, usage, cached, secretNs, creds, from, keeper,
                 changes, held>>

\* The rest of the reconcile (ManagedResource has its steps): with credentials
\* the cloud accepts the resource gets its finalizer, or is destroyed.
Reconcile(m) ==
  /\ step[m] = "configured"
  /\ step' = [step EXCEPT ![m] = "idle"]
  /\ mr' = IF creds[m] \notin Complete \/ mr[m].phase # "present" THEN mr
           ELSE [mr EXCEPT ![m].finalizer = ~mr[m].deleting,
                   ![m].phase = IF mr[m].deleting THEN "gone" ELSE "present"]
  /\ UNCHANGED <<config, secret, usage, cached, secretNs, creds, from, keeper,
                 changes, held>>

-------------------------------------------------------------------------------
(* The provider config controllers *)

\* Mutant of CollectUsage: the usage is owned by the provider config.
CollectUsage_config(m) ==
  /\ m \in usage /\ ~Exists(ConfigOf(m))
  /\ usage' = usage \ {m}
  /\ UNCHANGED <<config, secret, mr, cached, worker, keeper, changes, held>>

\* Kubernetes deletes a usage whose owner is gone.
CollectUsage(m) ==
  /\ m \in usage /\ mr[m].phase = "gone"
  /\ usage' = usage \ {m}
  /\ UNCHANGED <<config, secret, mr, cached, worker, keeper, changes, held>>

SyncCache ==
  /\ cached # usage /\ cached' = usage
  /\ UNCHANGED <<config, secret, mr, usage, worker, keeper, changes, held>>

\* Mutant of ListUsages: the usages are not looked at.
ListUsages_blind(c) ==
  /\ keeper[c] = "idle" /\ Exists(c)
  /\ keeper' = [keeper EXCEPT ![c] = IF config[c].deleting THEN "release"
                                                          ELSE "hold"]
  /\ UNCHANGED <<config, secret, mr, usage, cached, worker, changes, held>>

\* A provider config is read and its usages listed. While it is deleted and in
\* use nothing happens: it is reconciled again when a usage goes.
ListUsages(c) ==
  /\ keeper[c] = "idle" /\ Exists(c)
  /\ \/ ~config[c].deleting /\ keeper' = [keeper EXCEPT ![c] = "hold"]
     \/ /\ config[c].deleting /\ Users(c) = {}
        /\ keeper' = [keeper EXCEPT ![c] = "release"]
  /\ UNCHANGED <<config, secret, mr, usage, cached, worker, changes, held>>

\* The update fails when the object was deleted since it was read.
HoldConfig(c) ==
  /\ keeper[c] = "hold" /\ keeper' = [keeper EXCEPT ![c] = "idle"]
  /\ config' = IF config[c].deleting THEN config
               ELSE [config EXCEPT ![c].finalizer = TRUE]
  /\ UNCHANGED <<secret, mr, usage, cached, worker, changes, held>>

ReleaseConfig(c) ==
  /\ keeper[c] = "release" /\ keeper' = [keeper EXCEPT ![c] = "idle"]
  /\ config' = [config EXCEPT ![c].finalizer = FALSE, ![c].phase = "gone"]
  /\ UNCHANGED <<secret, mr, usage, cached, worker, changes, held>>

\* A new pod starts every reconcile afresh and lists before it works.
Restart ==
  /\ step' = [m \in Managed |-> "idle"]
  /\ keeper' = [c \in Config |-> "idle"]
  /\ cached' = usage
  /\ UNCHANGED <<config, secret, mr, usage, secretNs, creds, from, changes, held>>

UserStep ==
  \/ \E c \in Config : CreateConfig(c) \/ DeleteConfig(c)
  \/ \E n \in Namespace : ChangeSecret(n)
  \/ \E m \in Managed : CreateManaged(m) \/ DeleteManaged(m)

Setup(m) == Resolve(m) \/ Track(m) \/ Extract(m) \/ SetupFails(m) \/ Reconcile(m)

Keep(c) == ListUsages(c) \/ HoldConfig(c) \/ ReleaseConfig(c)

Next ==
  \/ UserStep \/ SyncCache \/ Restart
  \/ \E m \in Managed : Setup(m) \/ CollectUsage(m)
  \/ \E c \in Config : Keep(c)

Spec == Init /\ [][Next]_vars

\* Failed and finished reconciles are requeued; the pod does not restart for ever
\* in the middle of the same call, nor does the API server fail it for ever; the
\* cache catches up and garbage is collected.
Fairness ==
  /\ \A m \in Managed : /\ WF_vars(Resolve(m)) /\ SF_vars(Track(m))
                        /\ SF_vars(Extract(m)) /\ SF_vars(Reconcile(m))
                        /\ WF_vars(Setup(m)) /\ WF_vars(CollectUsage(m))
  /\ \A c \in Config : /\ WF_vars(ListUsages(c)) /\ SF_vars(HoldConfig(c))
                       /\ SF_vars(ReleaseConfig(c))
  /\ WF_vars(SyncCache)

FairSpec == Spec /\ Fairness

-------------------------------------------------------------------------------
(* Properties *)

TypeOK ==
  /\ config \in [Config -> [phase : {"absent", "present", "gone"},
                            deleting : BOOLEAN, finalizer : BOOLEAN,
                            ref : Namespace \cup {None}]]
  /\ secret \in [Namespace -> Content]
  /\ mr \in [Managed -> [phase : {"absent", "present", "gone"},
                         deleting : BOOLEAN, finalizer : BOOLEAN]]
  /\ usage \subseteq Managed /\ cached \subseteq Managed
  /\ step \in [Managed -> {"idle", "track", "extract", "configured"}]
  /\ secretNs \in [Managed -> Namespace \cup {None}]
  /\ creds \in [Managed -> {"none", "incomplete"} \cup Complete]
  /\ from \in [Managed -> Namespace \cup {None}]
  /\ keeper \in [Config -> {"idle", "hold", "release"}]
  /\ changes \in 0..MaxChanges
  /\ held \in [Config -> SUBSET Managed]

\* A provider config that was in use when its deletion was requested stays until
\* every such user is gone, however the requests, the listing and the usages
\* interleave: its users need it to be destroyed.
HeldConfigStays ==
  \A c \in Config : config[c].phase = "gone" =>
    \A m \in held[c] : mr[m].phase = "gone"

\* A resource with a namespaced provider config never works with the credentials
\* of another namespace, whatever the secretRef says.
OwnSecret ==
  \A m \in Managed : RefKind[m] = Namespaced => from[m] \in {Home[m], None}

\* Deletion of a resource whose usage is known completes, also while its provider
\* config is being deleted, unless its secret is not usable in the end.
SecretOf(m) == IF secretNs[m] = None THEN "absent" ELSE secret[secretNs[m]]
Protected(m) ==
  /\ m \in cached /\ m \in usage
  /\ Exists(ConfigOf(m)) /\ config[ConfigOf(m)].finalizer
  /\ keeper[ConfigOf(m)] # "release"
ManagedDeletionCompletes ==
  \A m \in Managed :
    mr[m].deleting /\ Protected(m)
      ~> mr[m].phase = "gone" \/ SecretOf(m) \notin Complete

\* Deletion of a provider config completes once nobody refers to it any more.
ConfigDeletionCompletes ==
  \A c \in Config :
    config[c].deleting ~> \/ config[c].phase = "gone"
                          \/ \E m \in Managed : /\ HasConfig(m) /\ ConfigOf(m) = c
                                                /\ mr[m].phase # "gone"

\* Rotated credentials reach every resource without a restart: in the end each
\* works with what its secret holds.
RotationTakesEffect ==
  <>[](\A m \in Managed :
         \/ mr[m].phase # "present" \/ ~HasConfig(m) \/ ~Exists(ConfigOf(m))
         \/ SecretOf(m) \notin Complete
         \/ creds[m] = SecretOf(m))

\* docs/authentication.md: the credentials are those of the secret in the
\* namespace that secretRef names.
SecretRefHonoured ==
  \A m \in Managed :
    from[m] # None => from[m] = config[ConfigOf(m)].ref
===============================================================================
