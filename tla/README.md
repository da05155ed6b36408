# TLA+ models of provider-arubacloud

This directory holds the TLA+ specifications of the Crossplane provider for
ArubaCloud, the TLC configurations that model-check them on small instances, and
TLAPS proofs of what holds for every instance.

The provider is generated by Upjet: 25 kinds of managed resources are reconciled
by 25 controllers, each of which runs the Terraform CLI in a workspace of its
own. Most of the machinery (the managed reconciler, the workspace store, the API
callbacks, the reference resolver, the provider-config reconciler) comes from
crossplane-runtime and upjet and is not in this repository. What the repository
decides is how these parts are put together, and what identity, credentials,
references and parameters they are given. The models compose the repository's
own code with the external parts as that code uses them; `PROJECT.json` marks
every definition of the latter kind as external.

## 1. Inventory

### External names: `config/external_name.go`

*State:* none; pure functions. *Operations:* `GetIDFn` builds a Terraform id
(`proj/vpc/subnet`) from the annotation `crossplane.io/external-name` and the
parameters, `GetExternalNameFn` reads the annotation back from an id;
`ExternalNameConfigs` assigns both to each of the 25 kinds. *Interactions:* the
connector calls `GetIDFn` whenever it writes a new Terraform state, the observer
calls `GetExternalNameFn` on every refreshed state. *Hard:* the two are inverse
to each other only if index, segment count and form of the stored id fit; an
error shows at the next restart, not at the creation. *Correct if* the annotation
is always the leaf id and the state never names another resource.

### Managed-resource controllers: `internal/controller/arubacloud/*/zz_controller.go`

*State:* the object in the API server (annotations, finalizer, policies), the
worker's copy of it, the workspace with its asynchronous operation, the cloud.
*Operations:* connect, observe, create, update, delete, callback, finalizer.
*Interactions:* calls `internal/clients` at every connect, Terraform in the
background, the API server with optimistic concurrency. *Hard:* the pod keeps the
only copy of a new resource's id until an observation records it; users edit and
delete while an apply runs; every write races all others. *Correct if* an object
never stands for two resources, nothing is leaked, adopted resources are not
re-created, nothing is destroyed unasked, deletions complete and edits arrive.

### Terraform setup: `internal/clients/arubacloud.go`

*State:* provider configs, secrets, usages. *Operations:* resolve the provider
config, track the usage, extract the credentials. *Hard:* three calls to the API
server with users in between; the config may be under deletion, the secret
rotated or broken. *Correct if* tenants are separated, rotation takes effect and
resources can still be destroyed while their config is being deleted.

### Provider config controllers: `internal/controller/providerconfig/config.go`

*State:* finalizers of provider configs; an informer cache of usages.
*Operations:* list usages, hold, release. *Hard:* the cache lags, and usages are
tracked after the config was read. *Correct if* a config outlives the users its
deletion found, and goes once they are gone.

### References: `config/namespaced/arubacloud/configure.go`, `zz_generated.resolvers.go`

*State:* the reference fields of an object. *Operations:* one
`ResolveReferences` method per kind, generated from `configure.go`. *Hard:*
parents appear, disappear and are replaced while children resolve; a method may
fail half-way; generated code may be out of date. *Correct if* nothing is created
half-resolved, ids keep the parents they were built with, references form no
circle, and a tree applied or deleted in any order ends.

### API types: `apis/arubacloud/v1alpha1/zz_*_types.go`

*State:* the three blocks of an object, `forProvider`, `initProvider`, `atProvider`.
*Operations:* none; admission rules ask for required fields. *Interactions:* the
resolvers fill the references, late initialisation the rest, the terraformed files
turn both into parameters. *Hard:* generated from several inputs; whether the files
agree shows only at run time. *Correct if* every reference has a resolver, what is
published is observed, nothing sensitive is in the status, and nothing incomplete
is created.

### Parameters and late initialisation: `apis/arubacloud/v1alpha1/zz_*_terraformed.go`

*State:* spec and status. *Operations:* merge `initProvider` under `forProvider`,
set the observation, copy observed values into the spec. *Interactions:* the
observer and the users write to the same spec. *Hard:* the copy is computed on one
version of the object and written to another; zero values count as absent; the
feature flag decides whether `initProvider` exists at all. *Correct if* a user's
value is never replaced and reaches the cloud, and the status catches up.

### Connection details: `config/namespaced/arubacloud/configure.go`

*State:* the connection secret. *Operations:* publish addresses and kubeconfig
once they exist. *Hard:* they come, change and go long after the creation. *Correct
if* nothing empty is published, a detail stays, and every change reaches the secret.

### Start-up: `cmd/provider/main.go`, `internal/controller/zz_setup.go`

*State:* the manager, the CRD gate, the leader's lease. *Operations:* the SafeStart
precheck, registering or starting the controllers, leader election. *Interactions:*
the package manager installs CRDs and permissions meanwhile. *Hard:* any order of
CRDs, permissions and pods; set-up errors are only logged; two pods during a rolling
update. *Correct if* one pod reconciles, no gated controller lacks its CRDs, and
every kind is served in the end.

### Left aside

Deep copies, lists and the accessors of `zz_generated.managed.go` (data without
control), `config/provider.go` and `cmd/generator` (one straight call sequence, at
start or at build time), the version, packaging, documentation and examples.

## 2. Modules

| Module | Models | Extends |
|---|---|---|
| `ExternalName` | `external_name.go`: the table of kinds, `GetID`, `GetExternalName` | |
| `IdentityCycle` | create, record, lose the workspace, rebuild the id, for any kind | `ExternalName` |
| `ManagedResource` | one object under its controller, with Terraform, cloud, crashes | `ExternalName` |
| `ResourceContract` | what a managed resource promises its user; `ManagedResource` implements it | |
| `ProviderSetup` | setup function and provider config controllers, many resources | |
| `References` | reference tables, as configured and as generated | `ExternalName` |
| `ReferenceResolution` | many objects that refer to each other, under their controllers | `References` |
| `BindingContract` | what references promise; `ReferenceResolution` implements it | |
| `Fields` | the fields of a generated type | |
| `ComputeTypes`, `NetworkTypes`, `StorageTypes`, `DatabaseTypes` | the 25 `zz_<kind>_types.go` | `Fields` |
| `Terraformed` | the 25 `zz_<kind>_terraformed.go`, connection details | the four above |
| `Attributes` | one attribute of an object: users, reconciler, cloud | `Terraformed` |
| `Controllers` | the 25 `zz_controller.go`, `providerconfig/config.go`, `zz_setup.go`: what is gated and watched | |
| `Startup` | `main.go`: precheck, gate, leader election, pods that come and go | `Controllers` |
| `MC...` | values for TLC | the module named |
| `...Proofs` | theorems and proofs | the module named |

**Strings.** A string is the sequence of its segments between slashes, the result
of `strings.Split(s, "/")`: concatenation with a slash in between is sequence
concatenation, the empty string is one blank segment, and "at least index+1
parts" is a length. Nothing is known of the characters of a segment.

**ManagedResource.** `mr` is the object, `pc`, `seen`, `fresh` and `verdict` the
reconciler's worker with its copy of the object (`fresh`: its resourceVersion is
still current), `ws` the workspace (`tfid` the id in the Terraform state, `main`
the generation written to main.tf, `op`, `done` the operation in the background,
`callback` a result not yet reported), `cloud` the resources. One action is one
call of the reconciler: `Start`, `Connect`, `Observe`, then one of
`StartDestroy`, `Release`, `AddFinalizer`, `MarkPending`, `StartCreate`,
`MarkCreated`, `Record`, `MarkAvailable`, `StartUpdate`, `Rest`. Users
(`CreateObject`, `EditSpec`, `DeleteObject`, `ClearPending`), the operation
(`ApplyCreates`, `ApplyUpdates`, `Destroys`, `OpEnds`), the callback, lost
resources and a crash of the pod come between any two of them. `PathIds` says
whether Terraform stores import paths or leaf ids; the repository does not decide
it, so both are checked. The history variables `made`, `recorded` and `exposed` say
which resources Terraform created, which names reached the annotation, and which
resources the code had no chance to remember: the id of a new resource is in the
Terraform state alone until an observation records it, and that state is lost when
the pod dies or when the object is switched to `[Observe]`, whose import starts
from the annotation. Properties about "known" resources except exactly these.

**ResourceContract.** The object, whether its policies keep the resource, what
exists and what the provider can know to be its own. The refinement mapping is in
`ManagedResource`: `owned` are the known resources, an imported one as soon as the
finalizer is there; `mishaps` counts crashes and losses and grows with `exposed`.

**ProviderSetup.** `step`, `secretNs`, `creds` and `from` are the local state of
the setup function of each resource, one action per call it makes: `Resolve`
(Get the config), `Track`, `Extract`; `Reconcile` stands for the rest of the
reconcile. `keeper` is the worker of each provider config. All configs have the
same name, so that only kind and namespace tell them apart.

**ReferenceResolution.** A worker resolves one reference per `Resolve` step into
`buf`; `WriteResolved` writes them together, as the reconciler does when the
method returned no error, and `ResolveFails` drops them. `vals` are the fields
of an object, a Terraform id is built from them at every `Connect`. The creation
of a resource and the record of its name are one step here; `ManagedResource` has
the steps between. A resource of a project kind is named by its leaf or by its import
path (`Names`): whether Terraform stores the one or the other (`Ids`) is decided anew
at each creation and observation, so that a VPC's name may turn into its path after a
restart, between the resolutions of two of its children, which then hold the path.
`TakesPaths` says whether the cloud finds a parent by its path. Selectors are references picked by the API server, and the
default resolution policy is assumed. `born` counts the resources each object has
had, so that what a field holds can be compared with what its target really was.

**BindingContract.** The object, what its references are bound to, whether it has a
resource, and how many each object has had. All the references of an object are bound
in one step, to something their targets have had by then; they stay as they are until
the object goes; nothing is created for an object with one left open. The mapping is
in `ReferenceResolution`: a bound reference is a field with a value, and `Offers` is
what `configure.go` declares (`Declared`). The contract does not promise that the
target still exists, nor that the values of two references existed at the same time:
a method reads one object after the other.

**Types.** A field is a path of Terraform attribute names with what the type says of
it: a change replaces the resource (`fixed`), a resolver fills it (`ref`), it comes
from a secret (`secret`), its json tag has no `omitempty` (`always`), it is inside
the elements of a list (`listed`). One
definition stands for each struct of the `zz_<kind>_types.go`. The terraformed
files differ in their type, their sensitive attributes and the names they filter,
which is the record `Terraformed(object, sensitive, filtered)`; their methods are
the same text 25 times and are operators on one attribute. The merge is that of
mergo without overwrite, for which a zero value is absent; late initialisation leaves
zero values out as well, but for the fields that are always written.

**Attributes.** `spec` is the attribute's value in `forProvider` and `initProvider`
with the policies (`given` remembers what the user wrote last), `at` the status,
`secret` the connection secret, `cloud` the resource. The worker goes through
`Read`, `Observe`, `Publish`, then `WriteLateInit` or `Update`/`Rest` and `Finish`,
or `Create`; a write fails when the object changed meanwhile (`fresh`). The
asynchronous operations are one step here, since `ManagedResource` has their
interleavings. `initProvider` is ignored by updates only with the feature and only
for what `forProvider` does not have.

**Startup.** `pods` are the processes: `gated` is the outcome of the precheck,
`waiting` the functions registered with the gate, `started`, `synced`, `failed` the
controllers. The gate calls a function once; a controller whose caches do not sync
in time ends the process; a leader ends its process at `RenewDeadline`, and others
take the lease over at `LeaseDuration`, in units of ten seconds. No process sleeps
through its own deadline: client-go checks it with the timer of the lease.

## 3. What is checked

| Run | Shows |
|---|---|
| `identity` | For the eleven reversible kinds (ten with a segment extractor, and `project`, to whose name nothing is added) the annotation stays the leaf id and the state never names anything else, however often it is lost and rebuilt |
| `lifecycle` | A subnet, from creation or import to deletion, with policies that change on the way: one resource per object at any time, and in its whole life unless one is lost in the cloud; nothing leaked, no adopted resource re-created, names kept, nothing destroyed unasked; the whole implements `ResourceContract` |
| `liveness` | A snapshot (the middle segment of its path, stored as a leaf): deletions complete whatever is running; every edit reaches the cloud |
| `tenants` | A provider config outlives the users its deletion found; no namespaced config hands out another namespace's secret |
| `rotation` | Resource and config deleted in any order both go; rotated credentials take effect |
| `references` | Nothing half-resolved; every field holds what `configure.go` declares for it; ids keep their parents, and read back as the name exactly when no parent in them is named by its path; the whole implements `BindingContract`; a tree applied or deleted in any order becomes ready, or goes |
| `attributes` | What a user wrote is kept and arrives; `pod_cidr` stays the user's; nothing is created without a required field; promised details reach the secret and stay; the status catches up |
| `startup` | One worker with leader election; no gated controller without its CRDs; every kind served in the end |

Three facts about the reference tables of all 25 kinds are assumptions of
`MCIdentityCycle`, which TLC evaluates before the run and no proof uses (the proofs
derive what they need of them from the tables): the generated resolvers resolve what
`configure.go` declares (`GeneratedAsConfigured`), every parent in an id is a
reference by external name (`ParentsAreReferences`), and references only lead towards
the project, so that they form no circle (`ReferencesDescend`).

Five facts about the generated types are assumptions of `MCAttributes`, evaluated
for all 25 kinds as well: the fields with a reference beside them are those the
resolvers fill (`ReferencesAreResolved`), a reference by URI names a kind that
reports its URI (`UrisAreReported`), `initProvider` mirrors `forProvider`
(`InitMirrorsFor`), what is published is observed (`DetailsAreObserved`), and
secrets are sensitive and never in the status (`SensitiveStaysSecret`).

Four runs are expected to end in a violation; each states what a document of
the repository says and shows what the code does instead.

* `vpc_adoption`: the documents say that the external name is always the leaf id
  and that an import never re-creates. The fourteen kinds of
  `identifierFromProviderWithProjectID` override `GetIDFn` but not
  `GetExternalNameFn`: the annotation of an imported VPC becomes its import path,
  the id rebuilt from it after a restart names nothing, and a second VPC is
  created beside the first.
* `one_shot`: the documents say `[Create, Observe]` creates once. A job that
  disappears from the cloud is created again.
* `secret_ref`: the documents create a `ProviderConfig` whose `secretRef` names
  the namespace of the secret. The setup function replaces it by the namespace
  of the resource.
* `init_only`: the comment on `initProvider` in every type says that its fields are
  merged when the resource is created and not updated after that, for example
  because of an autoscaler. The first observation after the creation copies the
  value into `forProvider`, from where it is enforced against the autoscaler.

### Bounds

`lifecycle`: three resources (one that exists before, one created, one that a
mistake would create in addition), one crash, one lost resource, and two edits, so
that the policies can change to `[Observe]` and back: each disturbance can meet each
step, and two of different sorts can meet. `liveness` has two resources, one edit,
one crash and no losses. Names grow by a segment per rebuild when something is
wrong, so `IdentityCycle` stops rebuilding from names of more than four segments,
the length of the longest import path: a name that is right has one. `tenants` has
two resources that share a config (one of them may be deleted while the other holds
it), a third whose reference kind does not exist, and two namespaces to confuse.
`rotation` has one resource, one cluster-scoped config and two changes of the
secret, so that it can break and be repaired. `references` has a chain of three
(`vpc`, `subnet`, and `kaas` on both), whose ends are kinds that a path may name, five
creations or deletions and one failing call: three creations and the replacement of
one parent, or the deletion of two of the three objects. All three being deleted takes
a sixth and is left to `DeletionsNeverDeadlock`. `TakesPaths` is true, so that
children of a path-named parent exist; the proofs cover both values. `attributes` has the promised
details, a field that is filtered from late initialisation (`pod_cidr`) and one that
is not, is required and replaces the resource when it changes (`type` of a subnet),
and one that takes a zero as well (`size_gb` of a DBaaS);
two values beside the zero value, so that the user's, the `initProvider`'s and the
cloud's can differ; one edit, one change in the cloud and one interruption; three
sets of policies, the feature on and off. `startup` has two pods, as a rolling update
does, the controller of one kind and those of the provider configs, which share no
CRD, two crashes or lost leases, one removed CRD and one failing set-up.

Deadlock is not checked: users and clouds may stop for good in every model.

### Fairness

* `ManagedResource`: the queue gives the object to a worker again after each
  reconcile (requeue, event, poll interval), hence weak fairness of the
  reconciler; set-up, refresh and Terraform runs may fail again and again but not
  for ever, hence strong fairness of the steps that succeed; operations have a
  deadline and end outside a reconcile now and then, since they take minutes and
  a reconcile seconds. Nothing is assumed of users, crashes or losses.
  `Converges` and `DeletionCompletes` except an object that waits for somebody to
  remove its create-pending annotation: the reconciler refuses to touch it.
* `ProviderSetup`: the same, the cache catches up, and garbage is collected.
  `ManagedDeletionCompletes` is about resources whose usage the cache knows:
  for one that is tracked after the config was released the code has no protection.
* `ReferenceResolution`: every key comes back to the queue. `AllBecomeReady`
  excepts objects that hold on to a parent replaced since, whose field keeps the
  old id; `DeletionsComplete` excepts resources that something uses for ever.
* `Attributes`: objects are polled and the worker goes on (weak fairness of the
  reconciler); nothing is assumed of users, cloud or interruptions.
* `Startup`: Kubernetes restarts the pods, the manager starts what it can, caches
  sync or time out, time passes and the API server is there to renew the lease.
  CRDs and permissions may never come. `AllServed` excepts a controller whose set-up
  failed: it is logged and not tried again before the pod restarts.

## 4. What is proved

All proofs are checked by TLAPS for every value of the constants under the
assumptions stated in the modules (names are not blank, the parameters are free of
slashes, bounds are natural numbers, policies are those the documents recommend).

* `ExternalNameProofs`: `RoundTrip`, the identity bridge itself: for each reversible
  kind and all slash-free parents, reading back the built id gives the leaf. A finite
  table of kinds is split by the number of parents. `PathMovesSegments` shows what the
  parents' being free of slashes is for: with a path among them the segment that is
  read is not the leaf, for any of the ten kinds. `NoOtherRoundTrip` completes `RoundTrip`:
  for the fourteen other kinds it never does, so that the hypothesis
  `Kind \in ReversibleKinds` of theorems below leaves out no kind whose name survives.
* `IdentityCycleProofs`: `CycleTypeOK`, for all kinds; `NameIsAlwaysLeaf` and
  `IdAlwaysNamesResource`, for the reversible kinds. The invariant is their conjunction
  with the types: either alone is not inductive, as the name is read from the id and
  the id built from the name.
* `ManagedResourceProofs`: `AlwaysTypeOK`; `AlwaysNamesResource`, for every kind: also
  where names drift, the annotation is the leaf or the import path of a resource and
  never a path of a path, as a state that was rebuilt from a path names nothing and is
  not recorded. Its invariant says the same of the worker's copy of the object, which
  every write sends, and `AlwaysNameIsLeaf`, for the reversible kinds, is one of its
  consequences; `AlwaysDestroyedOnRequest`, whose invariant says that a
  destroy, running or about to start, belongs to an object under deletion.
* `ResourceContractProofs`: `AlwaysOneResource`, `NeverLeaked`, `AdoptionAlwaysHolds`,
  `NameAlwaysKept`, `ContractImplemented` and `OneForALifetime`, for the reversible
  kinds (the others break them, see `vpc_adoption`). One invariant, `OwnInv`, carries
  the first five. Its core (`KnownInv`): what is known and alive has its name in the
  annotation, or else its id in the workspace while the annotation names nothing that
  exists. That is inductive only together with what the worker's copy may still carry
  (`CopyInv`: a copy that is fresh differs from the object in the name at most), with
  when an operation may run (`OperationInv`: for an object held by its finalizer, and
  never while a missing resource is acted upon) and with the history (`HistoryInv`:
  what is recorded and alive is what the annotation names). The refinement then takes
  each step to the action of the contract it is, `Adopt` being the write of the
  finalizer. `OneForALifetime` needs a second invariant (`EndedInv`), for a worker
  that read the object before its deletion might create after the destroy: from the
  start of a destroy on the object is being deleted and so is every copy a worker acts
  upon, so that no apply can be started, and none runs any more once something known
  was destroyed.
* `ProviderSetupProofs`: `SetupTypeOK`; `ConfigOutlivesUsers`, whose invariant
  says that a held user is gone or else tracked and in the cache, and that a keeper
  about to release a config has found every held user gone;
  `TenantsSeparated`, whose invariant carries the home namespace from `Resolve`
  to `Extract`.
* `ReferenceResolutionProofs`, for any graph of objects: `NeverHalfResolved`, whose
  invariant `Inv` says that the values a worker has in `buf` are never empty, that
  past `WriteResolved` an object that stays has all its fields, that a field without a
  value has an object to look at, and that no worker acts for an object that is gone,
  so that one created again under its name starts afresh. A second invariant, `More`,
  adds what the fields, names and URIs hold (`Faithful`: nothing, or what is declared
  of the target), that a second run finds what the fields already have (`Frozen`), and
  that an object with a name has its finalizer, hence all its fields for good, so that
  the id they build is the one it was created with (`Built`). From both follow
  `ReferencesTypeOK`, `IdsKeepParents`, `FieldsAlwaysAsConfigured` and `IdsReadBack`:
  with leaves for parents an id reads back by `RoundTrip`, and with a path among them
  it does not by `PathMovesSegments`, whose condition holds as a child's leaf is none
  of its parents' segments. So the drift that `vpc_adoption` shows reaches the children
  that resolve their references after it, and no others: `GetExternalNameFn` of the id
  rebuilt for such a child is a segment of its parents' path. That the generated methods resolve what `configure.go`
  declares is proved from the two tables, kind by kind (`RefsAsConfigured`).
  `BindingImplemented` takes each step to an action of `BindingContract` or none:
  `WriteResolved` is `Bind`, and since `born` only grows, a value that was declared
  when its object was read still is when it is written (`Grows`). Three more follow
  from the tables of all kinds: `IdsAlwaysNameParents`, as every parent in an id is a
  reference by external name (`ParentsReferred`); `NobodyWaitsInACircle` and
  `DeletionsNeverDeadlock`, as references lead from kinds of higher rank to lower ones
  (`ReferenceDescends`), and so do, by an invariant of their own (`UsesDescend`), the
  uses they bring about in the cloud. They are the safety half of `AllBecomeReady` and
  `DeletionsComplete`.
* `AttributesProofs`: `AlwaysTypeOK`; `UserValueAlwaysKept`, whose invariant says
  that a copy which is still fresh is the object, and that a worker about to write
  a late-initialised spec found the field unset in its copy: the write of a copy that
  is no longer fresh fails; `PodCidrStaysTheUsers`, as the filter keeps the worker
  out of that step; `AlwaysCreatedComplete`, whose invariant carries the admission
  rule over to the worker's copy, policies included; `DetailAlwaysKept`.
* `StartupProofs`: `AlwaysTypeOK`; `AlwaysOneWorker`, whose invariant says that every
  running process of an elected deployment holds the lease, and that a held lease is
  never older than `RenewDeadline`, as its holder renews it or ends by then;
  `GateAlwaysProtects`, for any set of controllers whose gates contain what they
  watch, a fact about the 26 controllers that is proved from the table.

Only model-checked: the eleven liveness properties (`Converges`, `DeletionCompletes`,
`ManagedDeletionCompletes`, `ConfigDeletionCompletes`, `RotationTakesEffect`,
`AllBecomeReady`, `DeletionsComplete`, `FieldArrives`, `DetailsArrive`,
`StatusCatchesUp`, `AllServed`), as fairness and ENABLED are out of the prover's reach,
and the facts about the generated types, which are finite and which TLC evaluates in
full. Every safety property of a passing run has a theorem.

## 5. Plan

Done: the identity bridge, the managed resource and its contract, the Terraform
setup with the provider config controllers, references, types, parameters, late
initialisation, connection details, start-up.

1. A contract for a field (what users write arrives and is theirs) that `Attributes`
   implements, and one for the provider config and its usages.
2. What follows when the id of a child whose `vpc_id` is a path is rebuilt and its
   name read from the wrong segment: `ManagedResource` with such parameters.
3. Two pods at work on one object, as the default without leader election allows.

## 6. Not modelled, and why

The Terraform CLI and provider, the cloud and the API server appear only as far
as the code depends on them. Wording of errors, logging, metrics and change logs
change no state. The webhooks convert nothing (one version per kind). Timers are
nondeterministic, but for the lease. How lists and maps merge element by element is
left out: one attribute stands for itself, and a list of plain values for one value.
Deep copies and accessors are data without control; the code generator and
`config/provider.go` run once, in one order, and what they produce is what the
types, the tables and the controllers model. Two pods at work on one object are not
composed with `ManagedResource`: `startup` shows that leader election excludes them,
and that the default does not is listed as a hazard.
