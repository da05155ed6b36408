---------------------------- MODULE ManagedResource ----------------------------
(***************************************************************************)
(* One managed resource under the controller that                          *)
(* internal/controller/arubacloud/<kind>/zz_controller.go sets up: the     *)
(* Kubernetes object a user edits, the reconciler, the Terraform workspace *)
(* with its asynchronous operations, the cloud, and a pod that may die at  *)
(* any moment. The steps of the reconciler are the calls it makes to the   *)
(* API server, to the workspace and to Terraform, in their order, so that  *)
(* the user, the operation, the cloud and a crash come between any two.    *)
(***************************************************************************)
EXTENDS ExternalName, FiniteSets

CONSTANTS
  Kind,           \* the kind of the resource
  Resource,       \* the ids the cloud gives to resources of this kind
  Params,         \* the forProvider fields, references resolved
  PathIds,        \* does Terraform store import paths (TRUE) or leaf ids?
  PolicySets,     \* the management policies a user chooses from
  None,           \* no resource
  MaxGen,         \* bound: edits of the spec
  MaxCrashes,     \* bound: crashes of the pod
  MaxLosses       \* bound: resources deleted behind the provider's back

ASSUME KindIsKind == Kind \in Kinds
ASSUME ResourceAssumption == Resource \subseteq Name /\ None \notin Resource
ASSUME ParamsAreFlat ==
  Params \in [Param -> {<<s>> : s \in Name \cup {Blank}}]
ASSUME PathIdsIsBoolean == PathIds \in BOOLEAN
ASSUME BoundsAreNat == MaxGen \in Nat /\ MaxCrashes \in Nat /\ MaxLosses \in Nat

\* A policy without Create never leaves more than Observe (the sets that
\* docs/management-policies.md and docs/limitations.md recommend).
ASSUME PolicyAssumption ==
  \A P \in PolicySets : P = {"Observe"} \/ {"Observe", "Create"} \subseteq P

VARIABLES
  mr,        \* the object in the API server
  pc,        \* the next step of the reconciler's worker for this object
  seen,      \* the copy of the object the worker reconciles
  fresh,     \* the copy still has the resourceVersion of the object
  verdict,   \* what the observation found
  ws,        \* the Terraform workspace, in the pod's temporary directory
  cloud,     \* the resources
  crashes, losses,   \* how often the pod died, a resource was lost
  adopted,   \* history: the resource the user imported, if any
  made,      \* history: the resources terraform apply created
  recorded,  \* history: the resources whose name reached the annotation
  exposed    \* history: those created, and not recorded when their state was lost

user   == <<mr>>
worker == <<pc, seen, fresh, verdict>>
hist   == <<adopted, made, recorded, exposed>>
bounds == <<crashes, losses>>
vars   == <<mr, worker, ws, cloud, bounds, hist>>

-------------------------------------------------------------------------------
(* Identity *)

Config == ExternalNameConfigs[Kind]
Path(x) == GetID(Config, <<x>>, Params)

\* The id Terraform stores for a resource it created.
StoredId(x) == IF PathIds THEN Path(x) ELSE <<x>>

Live(x) == cloud[x].state = "live"

\* The resource a refresh finds: the provider reads leaf ids and import paths.
Found(id) == {x \in Resource : Live(x) /\ id \in {<<x>>, Path(x)}}

NoState == <<>>

-------------------------------------------------------------------------------
(* The object, the worker and the workspace *)

\* The annotation starts empty: the chain of initializers is empty and
\* DisableNameInitializer keeps upjet from writing the object's name into it.
NewObject(name, policies) ==
  [phase |-> "present", deleting |-> FALSE, finalizer |-> FALSE,
   name |-> name, create |-> "no", ready |-> FALSE,
   policies |-> policies, gen |-> 0]

Absent == [NewObject(EmptyStr, {}) EXCEPT !.phase = "absent"]

NoWorkspace ==
  [tfid |-> NoState, main |-> 0, op |-> "none", done |-> FALSE, callback |-> FALSE]

Init ==
  /\ mr = Absent
  /\ pc = "idle" /\ seen = Absent /\ fresh = FALSE /\ verdict = "none"
  /\ ws = NoWorkspace
  /\ \E pre \in Resource \cup {None} :
       cloud = [x \in Resource |->
                 [state |-> IF x = pre THEN "live" ELSE "free", gen |-> 0]]
  /\ crashes = 0 /\ losses = 0
  /\ adopted = None /\ made = {} /\ recorded = {} /\ exposed = {}

\* The worker gives up this reconcile, or finishes it.
Idle ==
  /\ pc' = "idle" /\ seen' = Absent /\ fresh' = FALSE /\ verdict' = "none"

ShouldDelete(o) == "Delete" \in o.policies
OnlyObserve(o) == o.policies = {"Observe"}

\* The history that goes with writing o to the API server.
Recording(o) ==
  /\ recorded' = IF o.name = mr.name THEN recorded
                 ELSE recorded \cup Found(ws.tfid)
  /\ UNCHANGED <<adopted, made, exposed>>

-------------------------------------------------------------------------------
(* The user, and whoever else works on the cloud *)

\* A new object has no external name; an import names an existing resource.
CreateObject ==
  /\ mr.phase = "absent"
  /\ \E P \in PolicySets :
       \/ mr' = NewObject(EmptyStr, P) /\ UNCHANGED hist
       \/ \E x \in {y \in Resource : Live(y)} :
            /\ mr' = NewObject(<<x>>, P)
            /\ adopted' = x /\ recorded' = {x}
            /\ UNCHANGED <<made, exposed>>
  /\ UNCHANGED <<worker, ws, cloud, bounds>>

EditSpec ==
  /\ mr.phase = "present" /\ ~mr.deleting /\ mr.gen < MaxGen
  /\ \E P \in PolicySets :
       mr' = [mr EXCEPT !.gen = @ + 1, !.policies = P]
  /\ fresh' = FALSE
  /\ UNCHANGED <<pc, seen, verdict, ws, cloud, bounds, hist>>

\* Without a finalizer the API server removes the object at once.
DeleteObject ==
  /\ mr.phase = "present" /\ ~mr.deleting
  /\ mr' = [mr EXCEPT !.deleting = TRUE,
                      !.phase = IF mr.finalizer THEN "present" ELSE "gone"]
  /\ fresh' = FALSE
  /\ UNCHANGED <<pc, seen, verdict, ws, cloud, bounds, hist>>

\* The worker was killed between MarkPending and MarkCreated: somebody looks and
\* removes the annotation, as the event on the object asks for.
ClearPending ==
  /\ mr.phase = "present" /\ mr.create = "pending" /\ pc = "idle"
  /\ mr' = [mr EXCEPT !.create = "no"]
  /\ UNCHANGED <<worker, ws, cloud, bounds, hist>>

LoseResource ==
  /\ losses < MaxLosses
  /\ \E x \in Resource : Live(x) /\ cloud' = [cloud EXCEPT ![x].state = "deleted"]
  /\ losses' = losses + 1
  /\ UNCHANGED <<mr, worker, ws, crashes, hist>>

-------------------------------------------------------------------------------
(* The reconciler: read, connect, observe *)

\* The worker takes the object from the queue: an event, the poll interval or a
\* requeue. It refuses to go on while it cannot tell whether a create started.
Start ==
  /\ pc = "idle" /\ mr.phase = "present" /\ mr.create # "pending"
  /\ ~(mr.deleting /\ ~ShouldDelete(mr))
  /\ pc' = "connect" /\ seen' = mr /\ fresh' = TRUE /\ verdict' = "none"
  /\ UNCHANGED <<mr, ws, cloud, bounds, hist>>

\* The workspace goes first, then the finalizer and with it the object, unless
\* somebody wrote to the object in between. A Terraform that runs in the workspace
\* goes on with the state and the configuration it has read.
RemoveFinalizer ==
  /\ ws' = IF ws.op = "none" THEN [ws EXCEPT !.tfid = NoState, !.main = 0] ELSE ws
  /\ mr' = IF fresh \/ pc = "idle"
           THEN [mr EXCEPT !.finalizer = FALSE, !.phase = "gone"] ELSE mr
  /\ Idle
  /\ UNCHANGED <<cloud, bounds, hist>>

\* Deleted under a policy that keeps the resource.
Abandon ==
  /\ pc = "idle" /\ mr.phase = "present"
  /\ mr.deleting /\ ~ShouldDelete(mr)
  /\ RemoveFinalizer

\* Mutants of Connect: the annotation is forgotten when a state is written; main.tf
\* is written only together with it.
Connect_forgets ==
  /\ pc = "connect"
  /\ ws.op # "none" \/ CanGetID(Config, Params)
  /\ ws' = IF ws.op # "none" THEN ws
           ELSE [ws EXCEPT !.main = seen.gen,
                           !.tfid = IF @ \in {NoState, EmptyStr}
                                    THEN GetID(Config, EmptyStr, Params) ELSE @]
  /\ pc' = "observe"
  /\ UNCHANGED <<mr, seen, fresh, verdict, cloud, bounds, hist>>
Connect_once ==
  /\ pc = "connect"
  /\ ws.op # "none" \/ CanGetID(Config, Params)
  /\ ws' = IF ws.op # "none" \/ ws.tfid \notin {NoState, EmptyStr} THEN ws
           ELSE [ws EXCEPT !.main = seen.gen,
                           !.tfid = GetID(Config, seen.name, Params)]
  /\ pc' = "observe"
  /\ UNCHANGED <<mr, seen, fresh, verdict, cloud, bounds, hist>>

\* Terraform's setup, then the workspace: while an operation runs its files are
\* left alone; otherwise a missing state is written with the id GetIDFn makes
\* of the annotation, and main.tf with the spec.
Connect ==
  /\ pc = "connect"
  /\ ws.op # "none" \/ CanGetID(Config, Params)
  /\ ws' = IF ws.op # "none" THEN ws
           ELSE [ws EXCEPT !.main = seen.gen,
                           !.tfid = IF @ \in {NoState, EmptyStr}
                                    THEN GetID(Config, seen.name, Params)
                                    ELSE @]
  /\ pc' = "observe"
  /\ UNCHANGED <<mr, seen, fresh, verdict, cloud, bounds, hist>>

ConnectFails ==
  /\ pc = "connect" /\ Idle
  /\ UNCHANGED <<mr, ws, cloud, bounds, hist>>

\* What an observation says of the resource x that the id in the state names.
Judge(x, id) ==
  IF ~OnlyObserve(seen) /\ GetExternalName(Config, id) # seen.name THEN "unnamed"
  ELSE IF ~seen.ready THEN "unready"
  ELSE IF ~OnlyObserve(seen) /\ cloud[x].gen # ws.main THEN "drifted"
  ELSE "current"

\* A running operation counts as an up-to-date resource. Otherwise Terraform
\* refreshes the state, or imports the resource when it may only be observed.
Observe ==
  /\ pc = "observe"
  /\ pc' = "act"
  /\ IF ws.op # "none"
     THEN verdict' = "running" /\ UNCHANGED <<ws, seen, exposed>>
     ELSE LET id == IF OnlyObserve(seen) THEN GetID(Config, seen.name, Params)
                                         ELSE ws.tfid
          IN \/ /\ Found(id) = {}
                /\ verdict' = "missing" /\ ws' = [ws EXCEPT !.tfid = NoState]
                /\ exposed' = IF OnlyObserve(seen) THEN exposed \cup (made \ recorded)
                                                  ELSE exposed
                /\ UNCHANGED seen
             \/ \E x \in Found(id) :
                /\ verdict' = Judge(x, id) /\ ws' = [ws EXCEPT !.tfid = id]
                /\ seen' = [seen EXCEPT
                     !.name = IF verdict' = "unnamed"
                              THEN GetExternalName(Config, id) ELSE @]
                /\ UNCHANGED exposed
  /\ UNCHANGED <<mr, fresh, cloud, bounds, adopted, made, recorded>>

ObserveFails ==
  /\ pc = "observe" /\ Idle
  /\ UNCHANGED <<mr, ws, cloud, bounds, hist>>

-------------------------------------------------------------------------------
(* The reconciler: act on what was observed *)

StartOp(op) == ws' = [ws EXCEPT !.op = op, !.done = FALSE]

\* Mutants of StartDestroy: for any object; only for one that is up to date.
StartDestroy_any ==
  /\ pc = "act" /\ verdict # "missing"
  /\ IF ws.op = "none" THEN StartOp("destroy") ELSE UNCHANGED ws
  /\ Idle
  /\ UNCHANGED <<mr, cloud, bounds, hist>>
StartDestroy_current ==
  /\ pc = "act" /\ seen.deleting /\ verdict = "current"
  /\ IF ws.op = "none" THEN StartOp("destroy") ELSE UNCHANGED ws
  /\ Idle
  /\ UNCHANGED <<mr, cloud, bounds, hist>>

\* DestroyAsync: does nothing while a destroy runs, fails while an apply runs.
StartDestroy ==
  /\ pc = "act" /\ seen.deleting /\ verdict # "missing"
  /\ IF ws.op = "none" THEN StartOp("destroy") ELSE UNCHANGED ws
  /\ Idle
  /\ UNCHANGED <<mr, cloud, bounds, hist>>

\* Mutant of Release: a running destroy counts as done.
Release_early ==
  /\ pc = "act" /\ seen.deleting /\ verdict \in {"missing", "running"}
  /\ RemoveFinalizer

Release ==
  /\ pc = "act" /\ seen.deleting /\ verdict = "missing"
  /\ RemoveFinalizer

\* Acting without its guard: a reconcile that goes on to create for an object
\* it read as being deleted.
Acting_any == pc = "act"

\* The rest of a reconcile is for an object that was not being deleted.
Acting == pc = "act" /\ ~seen.deleting

ReportMissing ==
  /\ Acting /\ verdict = "missing" /\ OnlyObserve(seen)
  /\ Idle
  /\ UNCHANGED <<mr, ws, cloud, bounds, hist>>

\* Write o to the API server; a conflict ends the reconcile.
Write(o, next) ==
  IF fresh
  THEN /\ mr' = o /\ pc' = next /\ seen' = (IF next = "idle" THEN Absent ELSE o)
       /\ fresh' = (next # "idle")
       /\ verdict' = (IF next = "idle" THEN "none" ELSE verdict)
       /\ Recording(o)
  ELSE Idle /\ UNCHANGED <<mr, hist>>

AddFinalizer ==
  /\ Acting /\ ~(verdict = "missing" /\ OnlyObserve(seen)) /\ ~seen.finalizer
  /\ Write([seen EXCEPT !.finalizer = TRUE], "act")
  /\ UNCHANGED <<ws, cloud, bounds>>

\* The annotation external-create-pending is written before the create starts.
MarkPending ==
  /\ Acting /\ seen.finalizer /\ verdict = "missing" /\ ~OnlyObserve(seen)
  /\ Write([seen EXCEPT !.create = "pending"], "create")
  /\ UNCHANGED <<ws, cloud, bounds>>

\* Create returns as soon as the apply runs in the background.
StartCreate ==
  /\ pc = "create" /\ ws.op = "none"
  /\ StartOp("apply") /\ pc' = "created"
  /\ UNCHANGED <<mr, seen, fresh, verdict, cloud, bounds, hist>>

\* This patch of the annotations is retried until it gets through.
MarkCreated ==
  /\ pc = "created"
  /\ mr' = [mr EXCEPT !.create = "done"]
  /\ Idle
  /\ UNCHANGED <<ws, cloud, bounds, hist>>

\* The observation's external name reaches the API server.
Record ==
  /\ Acting /\ seen.finalizer /\ verdict = "unnamed"
  /\ Write(seen, "idle")
  /\ UNCHANGED <<ws, cloud, bounds>>

MarkAvailable ==
  /\ Acting /\ seen.finalizer /\ verdict = "unready"
  /\ Write([seen EXCEPT !.ready = TRUE], "idle")
  /\ UNCHANGED <<ws, cloud, bounds>>

StartUpdate ==
  /\ Acting /\ seen.finalizer /\ verdict = "drifted" /\ "Update" \in seen.policies
  /\ IF ws.op = "none" THEN StartOp("apply") ELSE UNCHANGED ws
  /\ Idle
  /\ UNCHANGED <<mr, cloud, bounds, hist>>

Rest ==
  /\ Acting /\ seen.finalizer
  /\ \/ verdict \in {"running", "current"}
     \/ verdict = "drifted" /\ "Update" \notin seen.policies
  /\ Idle
  /\ UNCHANGED <<mr, ws, cloud, bounds, hist>>

-------------------------------------------------------------------------------
(* The asynchronous operation, the goroutine that runs Terraform *)

\* apply refreshes first: what is not there is created.
ApplyCreates ==
  /\ ws.op = "apply" /\ ~ws.done /\ Found(ws.tfid) = {}
  /\ \E x \in Resource :
       /\ cloud[x].state = "free"
       /\ cloud' = [cloud EXCEPT ![x] = [state |-> "live", gen |-> ws.main]]
       /\ ws' = [ws EXCEPT !.tfid = StoredId(x), !.done = TRUE]
       /\ made' = made \cup {x}
  /\ UNCHANGED <<mr, worker, bounds, adopted, recorded, exposed>>

ApplyUpdates ==
  /\ ws.op = "apply" /\ ~ws.done
  /\ \E x \in Found(ws.tfid) : cloud' = [cloud EXCEPT ![x].gen = ws.main]
  /\ ws' = [ws EXCEPT !.done = TRUE]
  /\ UNCHANGED <<mr, worker, bounds, hist>>

Destroys ==
  /\ ws.op = "destroy" /\ ~ws.done
  /\ cloud' = [x \in Resource |->
                 IF x \in Found(ws.tfid) THEN [cloud[x] EXCEPT !.state = "deleted"]
                                         ELSE cloud[x]]
  /\ ws' = [ws EXCEPT !.tfid = NoState, !.done = TRUE]
  /\ UNCHANGED <<mr, worker, bounds, hist>>

\* The operation ends, with an error when it did nothing.
OpEnds ==
  /\ ws.op # "none"
  /\ ws' = [ws EXCEPT !.op = "none", !.done = FALSE, !.callback = TRUE]
  /\ UNCHANGED <<mr, worker, cloud, bounds, hist>>

\* The callback writes the result to the status of the object.
Callback ==
  /\ ws.callback
  /\ ws' = [ws EXCEPT !.callback = FALSE]
  /\ fresh' = FALSE
  /\ UNCHANGED <<mr, pc, seen, verdict, cloud, bounds, hist>>

-------------------------------------------------------------------------------
(* The pod *)

\* The worker, the operation and the workspace are gone; the annotations stay.
Crash ==
  /\ crashes < MaxCrashes
  /\ crashes' = crashes + 1
  /\ ws' = NoWorkspace /\ Idle
  /\ exposed' = exposed \cup (made \ recorded)
  /\ UNCHANGED <<mr, cloud, losses, adopted, made, recorded>>

UserStep == CreateObject \/ EditSpec \/ DeleteObject \/ ClearPending

ReconcileStep ==
  \/ Start \/ Abandon \/ Connect \/ ConnectFails \/ Observe \/ ObserveFails
  \/ StartDestroy \/ Release \/ ReportMissing \/ AddFinalizer \/ MarkPending
  \/ StartCreate \/ MarkCreated \/ Record \/ MarkAvailable \/ StartUpdate \/ Rest

OperationStep == ApplyCreates \/ ApplyUpdates \/ Destroys \/ OpEnds \/ Callback

Next == UserStep \/ ReconcileStep \/ OperationStep \/ LoseResource \/ Crash

Spec == Init /\ [][Next]_vars

\* The queue hands the object to a worker again and again (poll interval,
\* requeues, events), so a reconcile that can go on does; the set-up and the
\* refresh do not fail for ever, nor does every Terraform run. Operations have a
\* deadline and their callbacks run, and as they take far longer than a
\* reconcile not every one of them ends in the middle of one.
Fairness ==
  /\ WF_vars(ReconcileStep) /\ SF_vars(Connect) /\ SF_vars(Observe)
  /\ SF_vars(ApplyCreates) /\ SF_vars(ApplyUpdates) /\ SF_vars(Destroys)
  /\ SF_vars(OpEnds /\ pc = "idle") /\ SF_vars(Callback /\ pc = "idle")

FairSpec == Spec /\ Fairness

-------------------------------------------------------------------------------
(* Properties *)

ObjectType ==
  [phase : {"absent", "present", "gone"}, deleting : BOOLEAN,
   finalizer : BOOLEAN, name : Str, create : {"no", "pending", "done"},
   ready : BOOLEAN, policies : PolicySets \cup {{}}, gen : 0..MaxGen]

TypeOK ==
  /\ mr \in ObjectType /\ seen \in ObjectType
  /\ pc \in {"idle", "connect", "observe", "act", "create", "created"}
  /\ fresh \in BOOLEAN
  /\ verdict \in {"none", "running", "missing", "unnamed", "unready",
                  "drifted", "current"}
  /\ ws \in [tfid : Str \cup {NoState}, main : 0..MaxGen,
             op : {"none", "apply", "destroy"}, done : BOOLEAN,
             callback : BOOLEAN]
  /\ cloud \in [Resource -> [state : {"free", "live", "deleted"},
                             gen : 0..MaxGen]]
  /\ crashes \in 0..MaxCrashes /\ losses \in 0..MaxLosses
  /\ adopted \in Resource \cup {None}
  /\ made \subseteq Resource /\ recorded \subseteq Resource
  /\ exposed \subseteq Resource

\* "The external name is always the leaf resource ID" (docs/external-names.md),
\* through every creation, import, loss of the workspace and re-creation.
NameIsLeaf == mr.name \in {EmptyStr} \cup {<<x>> : x \in Resource}

\* The resources the provider can be expected to know of: all but those whose
\* pod died between their creation and the first record of their name.
Known == (made \cup recorded) \ exposed

\* One object never stands for two resources that exist at the same time: an
\* apply never creates a resource while an earlier one is alive and known, even
\* when the workspace was lost in between.
OneResource ==
  \A x, y \in Known : Live(x) /\ Live(y) => x = y

\* Nor does it ever in its whole life stand for a second one, dead or alive, while
\* nothing is lost in the cloud: once a resource was destroyed no worker, however
\* old its copy, and no operation creates another.
OneInALifetime == losses = 0 => \A x, y \in Known : x = y

\* A resource the provider created never outlives its object: as long as it is
\* alive and known the object is there, and a finalizer keeps it there.
NothingLeaked ==
  \A x \in made \ exposed :
    Live(x) /\ "Delete" \in mr.policies => mr.phase = "present" /\ mr.finalizer

\* An imported resource is looked up, never re-created (docs/external-names.md,
\* docs/import.md): while it exists nothing else is created for the object.
AdoptionHolds == adopted # None /\ Live(adopted) => made = {}

\* The recorded name of a resource that exists is never replaced or wiped.
NameKept ==
  [][\A x \in Resource : mr.name = <<x>> /\ mr'.name # <<x>> => ~Live(x)]_vars

\* The provider destroys a resource only when its object is being deleted.
DestroyedOnRequest ==
  [][\A x \in Resource :
       Live(x) /\ ~Live(x)' /\ losses' = losses => mr.deleting]_vars

\* With [Create, Observe] the resource is created once and then only observed
\* (docs/limitations.md).
CreatedOnce == Cardinality(made) <= 1

\* A deletion completes, whatever runs when it is requested, unless a crash left
\* the object waiting for somebody to remove its create-pending annotation.
DeletionCompletes ==
  mr.deleting ~> mr.phase = "gone" \/ mr.create = "pending"

\* The object's resource exists, under its recorded name and with its spec.
InSync ==
  \E x \in Resource : Live(x) /\ mr.name = <<x>> /\ cloud[x].gen = mr.gen

\* Once users, crashes and losses leave the object alone the cloud comes to
\* match its spec and stays so, also for an edit made while main.tf belonged to
\* a running apply. (Excepted: an object that waits for somebody, or a cloud
\* that can create nothing more.)
Converges ==
  <>[](\/ mr.phase # "present" \/ mr.deleting \/ mr.create = "pending"
       \/ InSync \/ \A x \in Resource : cloud[x].state # "free")

\* The object as its user sees it: the contract of ResourceContract holds of what
\* exists and of what the provider can know to be its own: what it made, and what
\* it took charge of with its finalizer.
Contract == INSTANCE ResourceContract WITH
  object <- IF mr.phase = "present" /\ mr.deleting THEN "deleting" ELSE mr.phase,
  keeps <- "Delete" \notin mr.policies,
  live <- {x \in Resource : Live(x)},
  owned <- {x \in Known : x \in made \/ mr.finalizer},
  mishaps <- <<crashes, losses, exposed>>

\* One object, one resource, from the first apply to the last destroy.
ImplementsContract == Contract!Spec
===============================================================================
