---------------------------- MODULE ResourceContract ----------------------------
(***************************************************************************)
(* What a managed resource promises to the user who wrote it, whatever the *)
(* provider does to keep it: an object stands for at most one resource at  *)
(* a time, a resource appears only for an object that is there and owns    *)
(* none, goes only on request, and goes before the object does.            *)
(* ManagedResource implements this.                                        *)
(***************************************************************************)
CONSTANTS
  Resource    \* the ids of resources

VARIABLES
  object,     \* absent, present, deleting or gone
  keeps,      \* its policies keep the resource when the object goes
  live,       \* the resources that exist
  owned,      \* those the provider knows it made for the object or adopted
  mishaps     \* what nobody can promise anything about

contract == <<object, keeps, live, owned, mishaps>>

Init ==
  /\ object = "absent" /\ keeps \in BOOLEAN
  /\ live \subseteq Resource /\ owned = {}

\* The user writes the object.
Apply ==
  /\ object = "absent" /\ object' = "present" /\ keeps' \in BOOLEAN
  /\ UNCHANGED <<live, owned, mishaps>>

\* The user chooses other policies.
Reconsider ==
  /\ object = "present" /\ keeps' \in BOOLEAN
  /\ UNCHANGED <<object, live, owned, mishaps>>

\* The user deletes the object.
Delete ==
  /\ object = "present" /\ object' = "deleting"
  /\ UNCHANGED <<keeps, live, owned, mishaps>>

\* The provider takes charge of a resource that exists, the one the user names.
Adopt ==
  /\ object \in {"present", "deleting"} /\ owned \cap live = {}
  /\ \E x \in Resource : owned' = owned \cup {x}
  /\ UNCHANGED <<object, keeps, live, mishaps>>

\* A resource is created only for an object that owns none that exists, and after
\* the object is gone only where its policies keep what was made for it.
Provide ==
  /\ object \in {"present", "deleting"} \/ (object = "gone" /\ keeps)
  /\ owned \cap live = {}
  /\ \E x \in Resource \ live : live' = live \cup {x} /\ owned' = owned \cup {x}
  /\ UNCHANGED <<object, keeps, mishaps>>

\* A resource is destroyed only for an object that is being deleted.
Destroy ==
  /\ object = "deleting"
  /\ \E x \in live : live' = live \ {x}
  /\ UNCHANGED <<object, keeps, owned, mishaps>>

\* The object goes after what it owns, unless its policies keep that.
Finish ==
  /\ object \in {"present", "deleting"} /\ object' = "gone"
  /\ owned \cap live = {} \/ keeps
  /\ owned' \subseteq owned
  /\ UNCHANGED <<keeps, live, mishaps>>

\* What nobody can promise: resources get lost in the cloud, and the provider does
\* not know a resource it made when its pod died before the name was recorded.
Lose ==
  /\ \E x \in live : live' = live \ {x}
  /\ mishaps' # mishaps
  /\ UNCHANGED <<object, keeps, owned>>

Forget ==
  /\ owned' \subseteq owned
  /\ mishaps' # mishaps
  /\ UNCHANGED <<object, keeps, live>>

Next ==
  \/ Apply \/ Reconsider \/ Delete \/ Finish
  \/ Adopt \/ Provide \/ Destroy \/ Lose \/ Forget

Spec == Init /\ [][Next]_contract
===============================================================================
