---------------------------- MODULE AttributesProofs ----------------------------
(***************************************************************************)
(* What the provider may do to an attribute that a user controls, for      *)
(* every set of attributes, values and policies, and however often users,  *)
(* the cloud and interruptions intervene.                                  *)
(***************************************************************************)
EXTENDS Attributes, TLAPS

-------------------------------------------------------------------------------
(* Type correctness *)

LEMMA AttributeTyped == \A c \in Case : Attribute(c) \in AttrType
<1> SUFFICES ASSUME NEW c \in Case PROVE Attribute(c) \in AttrType
  OBVIOUS
<1>1. LateInitializable(c.kind, c.path) \in BOOLEAN
  BY DEF LateInitializable
<1>2. Observable(c.kind, c.path) \in BOOLEAN /\ Published(c.kind, c.path) \in BOOLEAN
  BY DEF Observable, Published
<1>3. HasField(c, "forProvider") \in BOOLEAN /\ HasField(c, "initProvider") \in BOOLEAN
  BY DEF HasField
<1>4. QED
  BY <1>1, <1>2, <1>3 DEF Attribute, AttrType

\* The values that the operators of a terraformed file give back.
LEMMA MergedTyped ==
  ASSUME NEW s, s.for \in AnyValue, s.init \in AnyValue
  PROVE  Merged(s) \in AnyValue
BY DEF Merged, GetMergedParameters

LEMMA DetailTyped ==
  ASSUME NEW v \in AnyValue
  PROVE  ConnectionDetail(v) \in AnyValue \ {Zero}
BY ValueAssumption DEF ConnectionDetail, AnyValue

LEMMA CloudTyped ==
  ASSUME NEW b \in BOOLEAN, NEW v \in AnyValue
  PROVE  [exists |-> b, val |-> v] \in CloudType
BY DEF CloudType

LEMMA NoCopyTyped == NoCopy \in SpecType
BY DEF NoCopy, SpecType, AnyValue

LEMMA WritableTyped ==
  ASSUME NEW has, NEW v \in Writable(has)
  PROVE  v \in AnyValue
BY DEF Writable, AnyValue

LEMMA WrittenTyped ==
  ASSUME NEW f \in AnyValue, NEW i \in AnyValue, NEW P \in PolicySets
  PROVE  Written(f, i, P) \in SpecType
BY DEF Written, SpecType

LEMMA InitType == Init => TypeOK
<1> SUFFICES ASSUME Init PROVE TypeOK
  OBVIOUS
<1>0. Unset \in AnyValue
  BY DEF AnyValue
<1>1. attr \in AttrType
  BY AttributeTyped DEF Init
<1>2. spec \in SpecType
  <2>1. PICK f \in Writable(attr.for), i \in Writable(attr.init), P \in PolicySets :
          spec = Written(f, i, P)
    BY DEF Init
  <2>2. QED
    BY <2>1, WritableTyped, WrittenTyped
<1>3. cloud \in CloudType
  <2>1. CASE cloud \in {[exists |-> FALSE, val |-> Unset]}
    BY <2>1, <1>0, CloudTyped
  <2>2. CASE cloud \in [exists : {TRUE}, val : AnyValue]
    BY <2>2 DEF CloudType
  <2>3. QED
    BY <2>1, <2>2 DEF Init
<1>4. at \in AnyValue /\ secret \in AnyValue \ {Zero} /\ seen \in AnyValue
  BY ValueAssumption DEF Init, AnyValue
<1>5. edits \in 0..MaxEdits /\ drifts \in 0..MaxDrifts /\ interrupts \in 0..MaxInterrupts
  BY AttributeBounds DEF Init
<1>6. QED
  BY <1>1, <1>2, <1>3, <1>4, <1>5, NoCopyTyped, FeaturesAreBoolean DEF Init, TypeOK

LEMMA EditType == TypeOK /\ Edit => TypeOK'
<1> SUFFICES ASSUME TypeOK, Edit PROVE TypeOK'
  OBVIOUS
<1>1. spec' \in SpecType
  <2>1. PICK f \in Writable(attr.for), i \in Writable(attr.init), P \in PolicySets :
          \/ spec' = Written(f, i, P)
          \/ spec' = [spec EXCEPT !.init = i, !.policies = P]
    BY DEF Edit
  <2>2. f \in AnyValue /\ i \in AnyValue
    BY WritableTyped
  <2>3. [spec EXCEPT !.init = i, !.policies = P] \in SpecType
    BY <2>2 DEF TypeOK, SpecType
  <2>4. QED
    BY <2>1, <2>2, <2>3, WrittenTyped
<1>2. edits' \in 0..MaxEdits
  BY AttributeBounds DEF Edit, TypeOK
<1>3. QED
  BY <1>1, <1>2 DEF Edit, TypeOK

LEMMA DriftType == TypeOK /\ Drift => TypeOK'
<1> SUFFICES ASSUME TypeOK, Drift PROVE TypeOK'
  OBVIOUS
<1>0. Unset \in AnyValue
  BY DEF AnyValue
<1>1. cloud' \in CloudType
  <2>1. CASE cloud' = [exists |-> FALSE, val |-> Unset]
    BY <2>1, <1>0, CloudTyped
  <2>2. ASSUME NEW v \in AnyValue, cloud' = [cloud EXCEPT !.val = v]
        PROVE  cloud' \in CloudType
    BY <2>2 DEF TypeOK, CloudType
  <2>3. QED
    BY <2>1, <2>2 DEF Drift
<1>2. drifts' \in 0..MaxDrifts
  BY AttributeBounds DEF Drift, TypeOK
<1>3. QED
  BY <1>1, <1>2 DEF Drift, TypeOK, object, worker

LEMMA ReconcileType == TypeOK /\ Reconcile => TypeOK'
<1> SUFFICES ASSUME TypeOK, Reconcile PROVE TypeOK'
  OBVIOUS
<1> USE DEF object, worker, bounds
<1>1. Unset \in AnyValue
  BY DEF AnyValue
<1>2. CASE Read
  BY <1>2 DEF Read, TypeOK
<1>3. CASE Observe
  <2>1. cloud.val \in AnyValue
    BY DEF TypeOK, CloudType
  <2>2. QED
    BY <1>3, <2>1, <1>1, NoCopyTyped DEF Observe, Idle, TypeOK
<1>4. CASE Publish
  <2>1. secret' \in AnyValue \ {Zero}
    BY <1>4, DetailTyped DEF Publish, TypeOK
  <2>2. QED
    BY <1>4, <2>1 DEF Publish, TypeOK
<1>5. CASE WriteLateInit
  <2>1. spec' \in SpecType
    BY <1>5 DEF WriteLateInit, TypeOK, SpecType
  <2>2. QED
    BY <1>5, <2>1, <1>1, NoCopyTyped DEF WriteLateInit, Idle, TypeOK
<1>6. CASE Create
  <2>1. cloud' \in CloudType
    BY <1>6, CloudTyped DEF Create, TypeOK
  <2>2. QED
    BY <1>6, <2>1, <1>1, NoCopyTyped DEF Create, Idle, TypeOK
<1>7. CASE Update
  <2>1. Merged(copy) \in AnyValue
    BY MergedTyped DEF TypeOK, SpecType
  <2>2. cloud' \in CloudType
    BY <1>7, <2>1, CloudTyped DEF Update, TypeOK
  <2>3. QED
    BY <1>7, <2>2 DEF Update, TypeOK
<1>8. CASE Rest
  BY <1>8 DEF Rest, TypeOK
<1>9. CASE Finish
  BY <1>9, <1>1, NoCopyTyped DEF Finish, Idle, TypeOK
<1>10. QED
  BY <1>2, <1>3, <1>4, <1>5, <1>6, <1>7, <1>8, <1>9 DEF Reconcile

LEMMA NextType == TypeOK /\ [Next]_vars => TypeOK'
<1> SUFFICES ASSUME TypeOK, [Next]_vars PROVE TypeOK'
  OBVIOUS
<1>1. CASE Interrupt
  <2>1. interrupts' \in 0..MaxInterrupts
    BY <1>1, AttributeBounds DEF Interrupt, TypeOK
  <2>2. QED
    BY <1>1, <2>1, NoCopyTyped DEF Interrupt, Idle, TypeOK, object, AnyValue
<1>2. CASE UNCHANGED vars
  BY <1>2 DEF TypeOK, vars, object, worker, bounds
<1>3. QED
  BY <1>1, <1>2, EditType, DriftType, ReconcileType DEF Next

\* Every variable keeps its type.
THEOREM AlwaysTypeOK == Spec => []TypeOK
BY InitType, NextType, PTL DEF Spec

-------------------------------------------------------------------------------
(* The worker's copy. What makes a late write harmless is not that it looks  *)
(* at the object, which it does not, but that a fresh copy is the object:    *)
(* the invariant ties the two, and the step to what the copy allowed.        *)

CopyInv ==
  /\ fresh => copy = spec
  /\ pc = "late" => copy.for = Unset /\ attr.late

Kept == CopyInv /\ UserValueKept

\* An edit gives forProvider the value it is said to give, or leaves it alone.
LEMMA EditForProvider ==
  TypeOK /\ Edit =>
    \/ spec'.for = spec'.given
    \/ spec'.for = spec.for /\ spec'.given = spec.given
<1> SUFFICES ASSUME TypeOK, Edit
             PROVE  \/ spec'.for = spec'.given
                    \/ spec'.for = spec.for /\ spec'.given = spec.given
  OBVIOUS
<1>1. PICK f \in Writable(attr.for), i \in Writable(attr.init), P \in PolicySets :
        \/ spec' = Written(f, i, P)
        \/ spec' = [spec EXCEPT !.init = i, !.policies = P]
  BY DEF Edit
<1>2. CASE spec' = Written(f, i, P)
  BY <1>2 DEF Written
<1>3. CASE spec' = [spec EXCEPT !.init = i, !.policies = P]
  BY <1>3 DEF TypeOK, SpecType
<1>4. QED
  BY <1>1, <1>2, <1>3

LEMMA InitKept == Init => Kept
<1> SUFFICES ASSUME Init PROVE Kept
  OBVIOUS
<1>1. PICK f \in Writable(attr.for), i \in Writable(attr.init), P \in PolicySets :
        spec = Written(f, i, P)
  BY DEF Init
<1>2. QED
  BY <1>1 DEF Init, Kept, CopyInv, UserValueKept, Written

LEMMA EditKept == TypeOK /\ Kept /\ Edit => Kept'
BY EditForProvider DEF Edit, Kept, CopyInv, UserValueKept

LEMMA NextKept == TypeOK /\ Kept /\ [Next]_vars => Kept'
<1> SUFFICES ASSUME TypeOK, Kept, [Next]_vars PROVE Kept'
  OBVIOUS
<1> USE DEF Kept, CopyInv, UserValueKept, object, worker
<1>1. CASE Drift
  BY <1>1 DEF Drift
<1>2. CASE Read
  BY <1>2 DEF Read
<1>3. CASE Observe
  BY <1>3 DEF Observe, Idle
<1>4. CASE Publish
  BY <1>4 DEF Publish, LateInitializes
<1>5. CASE WriteLateInit
  \* A fresh copy that lacks the value shows that the user gave none.
  <2>1. fresh => spec.given = Unset
    BY <1>5 DEF WriteLateInit
  <2>2. fresh => spec'.given = Unset
    BY <1>5, <2>1 DEF WriteLateInit, TypeOK, SpecType
  <2>3. QED
    BY <1>5, <2>2 DEF WriteLateInit, Idle
<1>6. CASE Create \/ Finish
  BY <1>6 DEF Create, Finish, Idle
<1>7. CASE Update \/ Rest
  BY <1>7 DEF Update, Rest
<1>8. CASE Interrupt
  BY <1>8 DEF Interrupt, Idle
<1>9. CASE UNCHANGED vars
  BY <1>9 DEF vars
<1>10. QED
  BY <1>1, <1>2, <1>3, <1>4, <1>5, <1>6, <1>7, <1>8, <1>9, EditKept
     DEF Next, Reconcile

\* What the user wrote into forProvider stays there, also when it was written
\* between the provider's observation and its write of the late-initialised spec.
THEOREM UserValueAlwaysKept == Spec => []UserValueKept
<1>1. Init => TypeOK /\ Kept
  BY InitType, InitKept
<1>2. (TypeOK /\ Kept) /\ [Next]_vars => (TypeOK /\ Kept)'
  BY NextType, NextKept
<1>3. Kept => UserValueKept
  BY DEF Kept
<1>4. QED
  BY <1>1, <1>2, <1>3, PTL DEF Spec

-------------------------------------------------------------------------------
(* The exception of kaas *)

IsAttribute == \E c \in Case : attr = Attribute(c)

\* pod_cidr of kaas is among the names that LateInitialize filters.
LEMMA PodCidrIsFiltered == IsAttribute /\ Is(UserControlled) => ~attr.late
<1> SUFFICES ASSUME NEW c \in Case, attr = Attribute(c), Is(UserControlled)
             PROVE  ~attr.late
  BY DEF IsAttribute
<1>1. attr.kind = "kaas" /\ attr.path = <<"network", "pod_cidr">>
  BY DEF Is, UserControlled
<1>2. attr.late = LateInitializable(attr.kind, attr.path)
  BY DEF Attribute
<1>3. Kind["kaas"].filtered = {<<"network", "pod_cidr">>}
  BY DEF Kind, KaasTF, Terraformed
<1>4. QED
  BY <1>1, <1>2, <1>3 DEF LateInitializable

Controlled == IsAttribute /\ CopyInv /\ UserControlledStays

LEMMA InitControlled == Init => Controlled
<1> SUFFICES ASSUME Init PROVE Controlled
  OBVIOUS
<1>1. PICK f \in Writable(attr.for), i \in Writable(attr.init), P \in PolicySets :
        spec = Written(f, i, P)
  BY DEF Init
<1>2. spec.for = spec.given
  BY <1>1 DEF Written
<1>3. CopyInv
  BY InitKept DEF Kept
<1>4. QED
  BY <1>2, <1>3 DEF Init, Controlled, IsAttribute, UserControlledStays

\* No step but an edit and a late initialisation writes to the spec.
LEMMA SpecChanges ==
  [Next]_vars => UNCHANGED spec \/ Edit \/ (WriteLateInit /\ pc = "late")
BY DEF Next, Reconcile, Drift, Read, Observe, Publish, WriteLateInit, Create,
       Update, Rest, Finish, Interrupt, vars, object

LEMMA NextControlled ==
  TypeOK /\ Kept /\ Controlled /\ [Next]_vars => Controlled'
<1> SUFFICES ASSUME TypeOK, Kept, Controlled, [Next]_vars PROVE Controlled'
  OBVIOUS
<1>1. UNCHANGED attr
  BY DEF Next, Reconcile, Edit, Drift, Read, Observe, Publish, WriteLateInit,
         Create, Update, Rest, Finish, Interrupt, vars, object
<1>2. CopyInv'
  BY NextKept DEF Kept
<1>3. UserControlledStays'
  <2>1. SUFFICES ASSUME Is(UserControlled) PROVE spec'.for = spec'.given
    BY <1>1 DEF UserControlledStays, Is
  <2>2. spec.for = spec.given /\ ~attr.late
    BY <2>1, PodCidrIsFiltered DEF Controlled, UserControlledStays
  <2>3. CASE UNCHANGED spec
    BY <2>2, <2>3
  <2>4. CASE Edit
    BY <2>4, <2>2, EditForProvider
  <2>5. ~(pc = "late")
    BY <2>2 DEF Controlled, CopyInv
  <2>6. QED
    BY <2>3, <2>4, <2>5, SpecChanges
<1>4. QED
  BY <1>1, <1>2, <1>3 DEF Controlled, IsAttribute

\* pod_cidr of a kaas cluster holds what the user wrote there and nothing else,
\* whatever the cloud assigns (docs/limitations.md).
THEOREM PodCidrStaysTheUsers == Spec => []UserControlledStays
<1>1. Init => TypeOK /\ Kept /\ Controlled
  BY InitType, InitKept, InitControlled
<1>2. (TypeOK /\ Kept /\ Controlled) /\ [Next]_vars => (TypeOK /\ Kept /\ Controlled)'
  BY NextType, NextKept, NextControlled
<1>3. Controlled => UserControlledStays
  BY DEF Controlled
<1>4. QED
  BY <1>1, <1>2, <1>3, PTL DEF Spec

-------------------------------------------------------------------------------
(* Admission. The rules are evaluated when the object is written, the values *)
(* are used when its copy is acted upon, and the policies may change between *)
(* the two: what carries the promise over is that a copy was admitted.       *)

AdmittedInv ==
  /\ Admitted(spec)
  /\ pc # "idle" => Admitted(copy)
  /\ pc = "create" => Allows(copy, "Create")

LEMMA InitAdmitted == Init => AdmittedInv
BY DEF Init, AdmittedInv

LEMMA NextAdmitted == TypeOK /\ CopyInv /\ AdmittedInv /\ [Next]_vars => AdmittedInv'
<1> SUFFICES ASSUME TypeOK, CopyInv, AdmittedInv, [Next]_vars PROVE AdmittedInv'
  OBVIOUS
<1> USE DEF AdmittedInv, Admitted, object, worker
<1>1. CASE Edit
  BY <1>1 DEF Edit
<1>2. CASE Drift
  BY <1>2 DEF Drift
<1>3. CASE Read
  BY <1>3 DEF Read
<1>4. CASE Observe
  BY <1>4 DEF Observe, Idle
<1>5. CASE Publish
  BY <1>5 DEF Publish
<1>6. CASE WriteLateInit
  <2>1. Admitted(spec')
    \* The value is written where there was none: what was given stays given.
    BY <1>6 DEF WriteLateInit, CopyInv, Given, Allows, TypeOK, SpecType
  <2>2. QED
    BY <1>6, <2>1 DEF WriteLateInit, Idle
<1>7. CASE Create \/ Finish
  BY <1>7 DEF Create, Finish, Idle
<1>8. CASE Update \/ Rest
  BY <1>8 DEF Update, Rest
<1>9. CASE Interrupt
  BY <1>9 DEF Interrupt, Idle
<1>10. CASE UNCHANGED vars
  BY <1>10 DEF vars
<1>11. QED
  BY <1>1, <1>2, <1>3, <1>4, <1>5, <1>6, <1>7, <1>8, <1>9, <1>10
     DEF Next, Reconcile

\* Whatever policies the object had when it was written and has now, nothing is
\* created without a value for a field that its type requires.
THEOREM AlwaysCreatedComplete == Spec => CreatedComplete
<1>1. Init => TypeOK /\ Kept /\ AdmittedInv
  BY InitType, InitKept, InitAdmitted
<1>2. (TypeOK /\ Kept /\ AdmittedInv) /\ [Next]_vars => (TypeOK /\ Kept /\ AdmittedInv)'
  BY NextType, NextKept, NextAdmitted DEF Kept
<1>3. AdmittedInv /\ [Next]_vars
        => [~cloud.exists /\ cloud'.exists /\ attr.required /\ enabled
             => Merged(copy) # Unset]_vars
  <2> SUFFICES ASSUME AdmittedInv, Next, ~cloud.exists, cloud'.exists, attr.required, enabled
               PROVE  Merged(copy) # Unset
    OBVIOUS
  <2>0. Given(copy) => Merged(copy) # Unset
    BY DEF Given, Merged, GetMergedParameters
  <2>1. CASE Create
    BY <2>1, <2>0 DEF Create, AdmittedInv, Admitted
  <2>2. CASE Update
    BY <2>2, <2>0 DEF Update, AdmittedInv, Admitted
  <2>3. CASE Drift
    BY <2>3 DEF Drift
  <2>4. CASE UNCHANGED cloud
    BY <2>4
  <2>5. QED
    BY <2>1, <2>2, <2>3, <2>4
       DEF Next, Reconcile, Edit, Read, Observe, Publish, WriteLateInit, Rest,
           Finish, Interrupt
<1>4. QED
  BY <1>1, <1>2, <1>3, PTL DEF Spec, CreatedComplete

-------------------------------------------------------------------------------
\* What the connection secret holds stays, or is replaced by another value: an
\* attribute that becomes empty does not empty it.
THEOREM DetailAlwaysKept == Spec => DetailKept
<1>1. [Next]_vars => [secret # Unset => secret' \notin {Unset, Zero}]_secret
  <2> SUFFICES ASSUME [Next]_vars, secret' # secret
               PROVE  secret' \notin {Unset, Zero}
    OBVIOUS
  <2>1. Publish
    BY DEF Next, Reconcile, Edit, Drift, Read, Observe, WriteLateInit, Create,
           Update, Rest, Finish, Interrupt, vars
  <2>2. secret' = ConnectionDetail(seen) /\ ConnectionDetail(seen) # Unset
    BY <2>1 DEF Publish
  <2>3. QED
    BY <2>2, ValueAssumption DEF ConnectionDetail
<1>2. QED
  BY <1>1, PTL DEF Spec, DetailKept
===============================================================================
