----------------------------- MODULE IdentityCycle -----------------------------
(***************************************************************************)
(* What happens to the identity of one cloud resource, of any kind, while  *)
(* the provider records it and rebuilds it: Terraform stores an id, the    *)
(* connector copies it into the annotation with GetExternalNameFn, the     *)
(* workspace (and the state in it) disappears with the pod, and a new      *)
(* state is written with the id that GetIDFn makes of the annotation.      *)
(* ManagedResource composes the same operators with the reconciler.        *)
(***************************************************************************)
EXTENDS ExternalName

CONSTANTS
  CheckedKinds,   \* the kinds of resource considered
  Resource,       \* the ids the cloud gives to its resources
  Value,          \* what a parameter may hold: a non-empty string or ""
  MaxSegments     \* bound: how long an annotation may grow

ASSUME CheckedKindsAreKinds == CheckedKinds \subseteq Kinds
ASSUME ResourceIsName == Resource \subseteq Name
ASSUME ValueIsFlat == Value \subseteq {<<s>> : s \in Name \cup {Blank}}
ASSUME MaxSegmentsIsNat == MaxSegments \in Nat

VARIABLES
  kind, params,   \* the managed resource: its kind and its parameters
  resource,       \* the cloud resource it stands for, a history variable
  tfid,           \* the id in the Terraform state; NoState: there is none
  annotation      \* crossplane.io/external-name

vars == <<kind, params, resource, tfid, annotation>>

NoState == <<>>
Config == ExternalNameConfigs[kind]

\* The provider identifies a resource by its leaf id or by its import path.
StoredIds(x) == {<<x>>} \cup {GetID(Config, <<x>>, params)}

\* A new managed resource has no annotation; an import sets it to the leaf id.
Init ==
  /\ kind \in CheckedKinds
  /\ params \in [Param -> Value]
  /\ resource \in Resource
  /\ tfid = NoState
  /\ annotation \in {EmptyStr, <<resource>>}

\* terraform apply creates the resource.
Create ==
  /\ annotation = EmptyStr /\ tfid = NoState
  /\ CanGetID(Config, params)
  /\ tfid' \in StoredIds(resource)
  /\ UNCHANGED <<kind, params, resource, annotation>>

\* An observation copies the id of the state into the annotation.
Record ==
  /\ tfid # NoState
  /\ CanGetExternalName(Config, tfid)
  /\ annotation' = GetExternalName(Config, tfid)
  /\ UNCHANGED <<kind, params, resource, tfid>>

\* A connection writes a new state for a resource that has been recorded.
Rebuild ==
  /\ annotation # EmptyStr /\ tfid = NoState
  /\ CanGetID(Config, params)
  /\ Len(annotation) <= MaxSegments
  /\ tfid' = GetID(Config, annotation, params)
  /\ UNCHANGED <<kind, params, resource, annotation>>

\* The pod restarts after the name has been recorded.
LoseWorkspace ==
  /\ tfid # NoState /\ annotation # EmptyStr
  /\ tfid' = NoState
  /\ UNCHANGED <<kind, params, resource, annotation>>

Next == Create \/ Record \/ Rebuild \/ LoseWorkspace

Spec == Init /\ [][Next]_vars

-------------------------------------------------------------------------------
TypeOK ==
  /\ kind \in CheckedKinds
  /\ params \in [Param -> Value]
  /\ resource \in Resource
  /\ tfid \in Str \cup {NoState}
  /\ annotation \in Str

\* The external name is always the leaf resource id (docs/external-names.md),
\* however often the state was lost and rebuilt: GetExternalNameFn must undo
\* what GetIDFn adds (config/external_name.go).
NameIsLeaf == annotation \in {EmptyStr, <<resource>>}

\* Terraform never holds an id that names anything but this resource: its leaf
\* id or its one import path. A wrong one makes the refresh find nothing, and
\* the reconciler create a second resource.
IdNamesResource == tfid = NoState \/ tfid \in StoredIds(resource)
===============================================================================
