------------------------------- MODULE Attributes -------------------------------
(***************************************************************************)
(* The life of one attribute of one object: the user who sets it in        *)
(* forProvider or initProvider, the reconciler that creates the resource   *)
(* with it, enforces it, fills it in from the cloud and reports it, and    *)
(* whoever else changes it in the cloud. The asynchronous operations of    *)
(* ManagedResource are one step here: what matters is which of the three   *)
(* blocks an attribute's value comes from and where it goes.               *)
(***************************************************************************)
EXTENDS Terraformed, Naturals

CONSTANTS
  Case,          \* the attributes looked at: [kind |-> .., path |-> ..]
  Value,         \* the values that are neither Unset nor Zero
  PolicySets,    \* the management policies a user chooses from
  Features,      \* the choices for the flag --enable-management-policies
  MaxEdits,      \* bound: edits of the object
  MaxDrifts,     \* bound: changes that others make in the cloud
  MaxInterrupts  \* bound: reconciles that are cut short

ASSUME ValueAssumption == Unset \notin Value /\ Zero \notin Value /\ Unset # Zero
ASSUME CaseAssumption == \A c \in Case : c.kind \in DOMAIN Kind
ASSUME FeaturesAreBoolean == Features \subseteq BOOLEAN
ASSUME AttributeBounds ==
  MaxEdits \in Nat /\ MaxDrifts \in Nat /\ MaxInterrupts \in Nat

VARIABLES
  enabled,    \* are management policies enabled in this deployment?
  attr,       \* the attribute: an element of Case, and what is known of it
  spec,       \* its value in forProvider and initProvider, and the policies
  at,         \* its value in status.atProvider
  secret,     \* its value in the connection secret
  cloud,      \* the resource and the value it has there
  pc, copy, fresh, seen,   \* the worker: step, copy of the object, observation
  edits, drifts, interrupts   \* how often the user and others intervened

object == <<enabled, attr, spec, at>>
worker == <<pc, copy, fresh, seen>>
bounds == <<edits, drifts, interrupts>>
vars   == <<object, secret, cloud, worker, bounds>>

AnyValue == {Unset, Zero} \cup Value

-------------------------------------------------------------------------------
(* The object *)

Allows(s, action) == s.policies \cap {"*", action} # {}

HasField(c, block) ==
  \E f \in Kind[c.kind].object[block] : f.path = c.path /\ ~f.listed

\* What the types and the configuration say of the attribute.
Attribute(c) ==
  [kind |-> c.kind, path |-> c.path,
   for |-> HasField(c, "forProvider"), init |-> HasField(c, "initProvider"),
   required |-> \E n \in Kind[c.kind].object.required : c.path = <<n>>,
   fixed |-> \E f \in Parameter(c.kind, c.path) : f.fixed,
   always |-> \E f \in Parameter(c.kind, c.path) : f.always,
   late |-> LateInitializable(c.kind, c.path),
   observable |-> Observable(c.kind, c.path),
   published |-> Published(c.kind, c.path)]

Given(s) == s.for # Unset \/ s.init # Unset

\* Mutant of Admitted: the rule forgets the policies that are spelled out.
Admitted_default(s) == attr.required /\ "*" \in s.policies => Given(s)

\* The admission rules of the type ask for a required field only when the
\* policies let the provider create or update something.
Admitted(s) ==
  attr.required /\ (Allows(s, "Create") \/ Allows(s, "Update")) => Given(s)

\* What the user may write into a block, which has a field for it or not.
Writable(has) == IF has THEN AnyValue ELSE {Unset}

\* given remembers what the user last wrote into forProvider.
Written(f, i, P) == [for |-> f, init |-> i, given |-> f, policies |-> P]

NoCopy == [for |-> Unset, init |-> Unset, given |-> Unset, policies |-> {}]

Merged(s) == GetMergedParameters(s.for, s.init, enabled)

\* initProvider goes to ignore_changes, but for what forProvider has as well.
IgnoresChanges(s) == enabled /\ s.init # Unset /\ s.for = Unset

\* Without the feature an object with policies of its own is not reconciled.
Supported(s) == enabled \/ s.policies = {"*"}

Init ==
  /\ enabled \in Features
  /\ \E c \in Case : attr = Attribute(c)
  /\ \E f \in Writable(attr.for), i \in Writable(attr.init), P \in PolicySets :
       spec = Written(f, i, P) /\ Admitted(spec)
  /\ at = Unset /\ secret = Unset
  /\ cloud \in [exists : {TRUE}, val : AnyValue]
               \cup {[exists |-> FALSE, val |-> Unset]}
  /\ pc = "idle" /\ copy = NoCopy /\ fresh = FALSE /\ seen = Unset
  /\ edits = 0 /\ drifts = 0 /\ interrupts = 0

\* The user writes another value, or leaves the one in forProvider as it is.
Edit ==
  /\ edits < MaxEdits
  /\ \E f \in Writable(attr.for), i \in Writable(attr.init), P \in PolicySets :
       \/ spec' = Written(f, i, P)
       \/ spec' = [spec EXCEPT !.init = i, !.policies = P]
  /\ Admitted(spec')
  /\ fresh' = FALSE /\ edits' = edits + 1
  /\ UNCHANGED <<enabled, attr, at, secret, cloud, pc, copy, seen, drifts, interrupts>>

-------------------------------------------------------------------------------
(* The cloud *)

\* An autoscaler, the cloud itself or somebody at the console.
Drift ==
  /\ drifts < MaxDrifts /\ cloud.exists
  /\ \/ \E v \in AnyValue \ {cloud.val} : cloud' = [cloud EXCEPT !.val = v]
     \/ cloud' = [exists |-> FALSE, val |-> Unset]
  /\ drifts' = drifts + 1
  /\ UNCHANGED <<object, secret, worker, edits, interrupts>>

-------------------------------------------------------------------------------
(* The reconciler *)

Idle == pc' = "idle" /\ copy' = NoCopy /\ fresh' = FALSE /\ seen' = Unset

Read ==
  /\ pc = "idle" /\ Supported(spec)
  /\ pc' = "observe" /\ copy' = spec /\ fresh' = TRUE
  /\ UNCHANGED <<object, secret, cloud, seen, bounds>>

Observe ==
  /\ pc = "observe"
  /\ IF cloud.exists
     THEN pc' = "publish" /\ seen' = cloud.val /\ UNCHANGED <<copy, fresh>>
     ELSE IF Allows(copy, "Create")
          THEN pc' = "create" /\ UNCHANGED <<copy, fresh, seen>>
          ELSE Idle
  /\ UNCHANGED <<object, secret, cloud, bounds>>

\* The connection secret keeps the keys it is not given anew.
Publish ==
  /\ pc = "publish"
  /\ secret' = IF attr.published /\ ConnectionDetail(seen) # Unset
               THEN ConnectionDetail(seen) ELSE secret
  /\ pc' = IF /\ Allows(copy, "LateInitialize")
              /\ attr.late /\ LateInitializes(copy.for, seen, attr.always)
           THEN "late" ELSE "act"
  /\ UNCHANGED <<object, cloud, copy, fresh, seen, bounds>>

\* Mutant of WriteLateInit: written whatever happened to the object meanwhile.
WriteLateInit_blind ==
  /\ pc = "late"
  /\ spec' = [spec EXCEPT !.for = seen]
  /\ Idle
  /\ UNCHANGED <<enabled, attr, at, secret, cloud, bounds>>

\* The late-initialised spec reaches the API server, unless somebody wrote to the
\* object in between. The status waits for the next reconcile.
WriteLateInit ==
  /\ pc = "late"
  /\ spec' = IF fresh THEN [spec EXCEPT !.for = seen] ELSE spec
  /\ Idle
  /\ UNCHANGED <<enabled, attr, at, secret, cloud, bounds>>

\* The create-pending annotation is written first, and needs a fresh copy. What is
\* not set is for the cloud to choose, now or later.
Create ==
  /\ pc = "create"
  /\ IF fresh
     THEN \E v \in AnyValue :
            /\ Merged(copy) # Unset => v = Merged(copy)
            /\ cloud' = [exists |-> TRUE, val |-> v]
     ELSE UNCHANGED cloud
  /\ Idle
  /\ UNCHANGED <<object, secret, bounds>>

Drifted ==
  /\ Merged(copy) \notin {Unset, seen}
  /\ ~IgnoresChanges(copy)

\* terraform apply changes the attribute, and creates what is gone. A change that
\* would replace the resource may be refused.
Update ==
  /\ pc = "act" /\ Drifted /\ Allows(copy, "Update")
  /\ \/ cloud' = [exists |-> TRUE, val |-> Merged(copy)]
     \/ attr.fixed /\ UNCHANGED cloud
  /\ pc' = "finish"
  /\ UNCHANGED <<object, secret, copy, fresh, seen, bounds>>

Rest ==
  /\ pc = "act" /\ ~(Drifted /\ Allows(copy, "Update"))
  /\ pc' = "finish"
  /\ UNCHANGED <<object, secret, cloud, copy, fresh, seen, bounds>>

\* Mutant of Finish: the status is written once and then kept.
Finish_once ==
  /\ pc = "finish"
  /\ at' = IF fresh /\ attr.observable /\ at = Unset THEN seen ELSE at
  /\ Idle
  /\ UNCHANGED <<enabled, attr, spec, secret, cloud, bounds>>

Finish ==
  /\ pc = "finish"
  /\ at' = IF fresh /\ attr.observable THEN seen ELSE at
  /\ Idle
  /\ UNCHANGED <<enabled, attr, spec, secret, cloud, bounds>>

\* An error, the timeout of the reconcile or a crash.
Interrupt ==
  /\ pc # "idle" /\ Idle
  /\ interrupts < MaxInterrupts /\ interrupts' = interrupts + 1
  /\ UNCHANGED <<object, secret, cloud, edits, drifts>>

Reconcile ==
  Read \/ Observe \/ Publish \/ WriteLateInit \/ Create \/ Update \/ Rest \/ Finish

Next == Edit \/ Drift \/ Reconcile \/ Interrupt

Spec == Init /\ [][Next]_vars

\* Objects are polled and the queue's workers go on.
FairSpec == Spec /\ WF_vars(Reconcile)

-------------------------------------------------------------------------------
(* Properties *)

AttrType ==
  [kind : {c.kind : c \in Case}, path : {c.path : c \in Case},
   for : BOOLEAN, init : BOOLEAN, required : BOOLEAN, fixed : BOOLEAN, always : BOOLEAN,
   late : BOOLEAN, observable : BOOLEAN, published : BOOLEAN]
CloudType == [exists : BOOLEAN, val : AnyValue]
SpecType == [for : AnyValue, init : AnyValue, given : AnyValue,
             policies : PolicySets \cup {{}}]

TypeOK ==
  /\ enabled \in BOOLEAN /\ attr \in AttrType
  /\ spec \in SpecType /\ copy \in SpecType
  /\ at \in AnyValue /\ secret \in AnyValue \ {Zero}
  /\ cloud \in CloudType
  /\ pc \in {"idle", "observe", "publish", "late", "create", "act", "finish"}
  /\ fresh \in BOOLEAN /\ seen \in AnyValue
  /\ edits \in 0..MaxEdits /\ drifts \in 0..MaxDrifts
  /\ interrupts \in 0..MaxInterrupts

\* The provider never replaces what the user wrote into forProvider, not even
\* when the user writes between its observation and the write of the
\* late-initialised spec (LateInitialize, GetMergedParameters).
UserValueKept == spec.given # Unset => spec.for = spec.given

\* "pod_cidr will not be late-initialized" (docs/limitations.md, configure.go).
Is(cases) == [kind |-> attr.kind, path |-> attr.path] \in cases
UserControlled == {[kind |-> "kaas", path |-> <<"network", "pod_cidr">>]}
UserControlledStays == Is(UserControlled) => spec.for = spec.given

\* Nothing is created without a value for a field the type requires, however the
\* policies changed since the object was written (the admission rules), as long as
\* the feature is on that makes initProvider count.
CreatedComplete ==
  [][~cloud.exists /\ cloud'.exists /\ attr.required /\ enabled
     => Merged(copy) # Unset]_vars

\* An address or kubeconfig that the cloud stops to report stays in the secret.
DetailKept == [][secret # Unset => secret' \notin {Unset, Zero}]_secret

\* A value in forProvider comes to hold in the cloud, whatever initProvider says
\* and whoever changed it, if the policies and Terraform allow it.
FieldArrives ==
  <>[](/\ cloud.exists /\ Supported(spec) /\ Allows(spec, "Update") /\ ~attr.fixed
       /\ spec.given \in Value
       => cloud.val = spec.given)

\* The connection details that README and docs promise.
Promised ==
  [kind : {"elasticip"}, path : {<<"address">>}]
  \cup [kind : {"cloudserver"}, path : {<<"public_ip">>, <<"private_ip">>}]
  \cup [kind : {"kaas"}, path : {<<"kubeconfig">>, <<"management_ip">>}]

\* Once the cloud has a value for a promised detail the secret comes to hold it,
\* also when it appears or changes long after the creation.
DetailsArrive ==
  <>[](Is(Promised) /\ cloud.exists /\ Supported(spec) /\ cloud.val \in Value
       => secret = cloud.val)

\* status.atProvider comes to show what the cloud has, also for an attribute that
\* was late-initialised or reported in a reconcile that lost a conflict.
StatusCatchesUp ==
  <>[](cloud.exists /\ Supported(spec) /\ attr.observable => at = cloud.val)

\* The comment on initProvider in every zz_<kind>_types.go: its fields are merged
\* "when the resource is created" and not updated "after creation".
InitOnlyOnce ==
  [][cloud.exists /\ cloud'.exists /\ cloud'.val # cloud.val /\ drifts' = drifts
     => ~(copy.given = Unset /\ copy.init # Unset)]_vars
===============================================================================
