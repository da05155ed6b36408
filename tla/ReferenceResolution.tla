--------------------------- MODULE ReferenceResolution ---------------------------
(***************************************************************************)
(* Objects that refer to each other, each under its own controller. A      *)
(* reconcile first runs the ResolveReferences method of the object's kind  *)
(* (zz_generated.resolvers.go), which reads one referenced object after    *)
(* the other while users create, delete and re-create them, and then works *)
(* with what it found. The life of a resource is kept short here: its      *)
(* creation and the record of its name are one step (ManagedResource has   *)
(* the steps between them).                                                *)
(***************************************************************************)
EXTENDS References

CONSTANTS
  Object,       \* the names of the managed resources
  KindOf,       \* the kind of each
  Target,       \* the object each reference of an object names; None: the
                \* field was given a value instead
  Refuses,      \* does the cloud refuse to delete what is in use?
  TakesPaths,   \* does it take an import path for the id of a parent?
  None,
  MaxChanges,   \* bound: objects created and deletions requested
  MaxFailures   \* bound: reconciles that fail although they need not

ASSUME KindOfAssumption == KindOf \in [Object -> Kinds]
ASSUME NoneIsNoObject == None \notin Object
ASSUME TargetAssumption ==
  /\ Target \in [Object -> Seq(Object \cup {None})]
  /\ \A o \in Object :
       /\ Len(Target[o]) = Len(Resolver[KindOf[o]])
       /\ \A i \in DOMAIN Target[o] :
            Target[o][i] # None => KindOf[Target[o][i]] = Resolver[KindOf[o]][i][2]
ASSUME CloudAssumption == Refuses \in BOOLEAN /\ TakesPaths \in BOOLEAN
ASSUME LimitsAreNat == MaxChanges \in Nat /\ MaxFailures \in Nat

\* The n-th resource created for an object has the id <<o, n>>; <<o, 0>> is the
\* display name they share, and <<None, 0>> stands for what a user gave.
Resource == Object \X (1..MaxChanges)
ASSUME NameAssumption == (Object \cup {None}) \X (0..MaxChanges) \subseteq Name
Given == <<<<None, 0>>>>
Uri(x) == <<Blank, x>>       \* a URI starts with a slash

VARIABLES
  obj,        \* the objects in the API server
  step,       \* where each object's worker is
  buf,        \* the values its worker has resolved so far
  live,       \* the resources in the cloud
  uses,       \* which resource was created with which other one
  born,       \* how many resources were created for each object
  built,      \* history: the Terraform id of each object's last resource
  changes, failures

cloud == <<live, uses, born, built>>
bounds == <<changes, failures>>
vars == <<obj, step, buf, cloud, bounds>>

Refs(o) == Resolver[KindOf[o]]
Config(o) == ExternalNameConfigs[KindOf[o]]

NewObject(o) ==
  [phase |-> "present", deleting |-> FALSE, keep |-> FALSE, finalizer |-> FALSE,
   name |-> EmptyStr, uri |-> EmptyStr,
   vals |-> [i \in DOMAIN Refs(o) |-> IF Target[o][i] = None THEN Given
                                                             ELSE EmptyStr]]
Absent(o) == [NewObject(o) EXCEPT !.phase = "absent"]

Present(o) == obj[o].phase = "present"

\* What GetIDFn is given: the fields that are references, and others that users
\* fill in.
Params(o) ==
  [q \in Param |->
     LET I == {i \in DOMAIN Refs(o) : Refs(o)[i][1] = q}
     IN IF I = {} THEN Given ELSE obj[o].vals[CHOOSE i \in I : TRUE]]

-------------------------------------------------------------------------------
(* Names. The fourteen kinds that read the whole id back are named by the leaf  *)
(* or, once Terraform has worked with the id that GetIDFn builds, by the import *)
(* path, which starts with the project's id.                                    *)

Projects == {<<None, 0>>} \cup {x \in Resource : KindOf[x[1]] = "project"}
Paths(x) == IF KindOf[x[1]] \in ReversibleKinds THEN {}
                                                ELSE {<<p, x>> : p \in Projects}
Names(x) == {<<x>>} \cup Paths(x)
IsPath(v) == \E x \in Resource : v \in Paths(x)

\* Which of its two forms the Terraform provider stores as the id of a resource is
\* not for this repository to say: the leaf, or the path through the parents' leaves.
Leaves(o) == [q \in Param |-> LET v == Params(o)[q] IN <<v[Len(v)]>>]
Ids(o, x) == {<<x>>, GetID(Config(o), <<x>>, Leaves(o))}

Init ==
  /\ obj = [o \in Object |-> Absent(o)]
  /\ step = [o \in Object |-> "idle"] /\ buf = [o \in Object |-> <<>>]
  /\ live = {} /\ uses = {} /\ born = [o \in Object |-> 0]
  /\ built = [o \in Object |-> EmptyStr]
  /\ changes = 0 /\ failures = 0

-------------------------------------------------------------------------------
(* Users *)

CreateObject(o) ==
  /\ ~Present(o) /\ changes < MaxChanges
  /\ obj' = [obj EXCEPT ![o] = NewObject(o)]
  /\ changes' = changes + 1
  /\ UNCHANGED <<step, buf, cloud, failures>>

\* With a policy that keeps the resource, or without one. Without a finalizer the
\* object goes at once, and a reconcile of it can write nothing any more.
DeleteObject(o) ==
  /\ Present(o) /\ ~obj[o].deleting /\ changes < MaxChanges
  /\ IF obj[o].finalizer
     THEN /\ \E keep \in BOOLEAN :
               obj' = [obj EXCEPT ![o].deleting = TRUE, ![o].keep = keep]
          /\ UNCHANGED step
     ELSE /\ obj' = [obj EXCEPT ![o] = Absent(o)]
          /\ step' = [step EXCEPT ![o] = IF @ = "idle" THEN "idle" ELSE "stale"]
  /\ changes' = changes + 1
  /\ UNCHANGED <<buf, cloud, failures>>

-------------------------------------------------------------------------------
(* ResolveReferences *)

Enter(o, s) == step' = [step EXCEPT ![o] = s]
Idle(o) == Enter(o, "idle") /\ buf' = [buf EXCEPT ![o] = <<>>]

\* An object that is being deleted is not resolved any more.
Start(o) ==
  /\ step[o] = "idle" /\ Present(o)
  /\ Enter(o, IF obj[o].deleting THEN "connect" ELSE "resolve")
  /\ UNCHANGED <<obj, buf, cloud, bounds>>

\* What the reference r to the object t extracts, as t is now.
Extract(t, r) ==
  IF ~Present(t) THEN EmptyStr
  ELSE CASE r[3] = "id"   -> obj[t].name
         [] r[3] = "uri"  -> obj[t].uri
         [] r[3] = "name" -> <<<<t, 0>>>>

\* Mutant of Value: the policy Always, which looks every time.
Value_always(o, i) ==
  IF Target[o][i] = None THEN Given ELSE Extract(Target[o][i], Refs(o)[i])

\* A field that has a value keeps it.
Value(o, i) ==
  IF obj[o].vals[i] # EmptyStr THEN obj[o].vals[i]
                               ELSE Extract(Target[o][i], Refs(o)[i])

Resolving(o) ==
  step[o] = "resolve" /\ Len(buf[o]) < Len(Refs(o))

\* Mutant of Resolve: the error of a reference that is not ready is dropped.
Resolve_drops(o) ==
  /\ Resolving(o)
  /\ buf' = [buf EXCEPT ![o] = Append(@, Value(o, Len(@) + 1))]
  /\ UNCHANGED <<obj, step, cloud, bounds>>

Resolve(o) ==
  /\ Resolving(o) /\ Value(o, Len(buf[o]) + 1) # EmptyStr
  /\ buf' = [buf EXCEPT ![o] = Append(@, Value(o, Len(@) + 1))]
  /\ UNCHANGED <<obj, step, cloud, bounds>>

\* Mutant of ResolveFails: what was resolved before the error is written.
ResolveFails_writes(o) ==
  /\ Resolving(o) /\ Value(o, Len(buf[o]) + 1) = EmptyStr
  /\ obj' = [obj EXCEPT ![o].vals =
               [i \in DOMAIN @ |-> IF i \in DOMAIN buf[o] THEN buf[o][i] ELSE @[i]]]
  /\ Idle(o)
  /\ UNCHANGED <<cloud, bounds>>

\* The first reference that is not ready ends the method with an error; what it
\* resolved before is not written.
ResolveFails(o) ==
  /\ Resolving(o) /\ Value(o, Len(buf[o]) + 1) = EmptyStr
  /\ Idle(o)
  /\ UNCHANGED <<obj, cloud, bounds>>

\* Mutants of WriteResolved: it does not wait for the last reference; the object
\* is resolved in memory only.
WriteResolved_memory(o) ==
  /\ step[o] = "resolve" /\ Len(buf[o]) = Len(Refs(o))
  /\ Enter(o, "connect") /\ buf' = [buf EXCEPT ![o] = <<>>]
  /\ UNCHANGED <<obj, cloud, bounds>>
WriteResolved_early(o) ==
  /\ step[o] = "resolve" /\ Len(buf[o]) + 1 >= Len(Refs(o))
  /\ obj' = [obj EXCEPT ![o].vals = buf[o]]
  /\ Enter(o, "connect") /\ buf' = [buf EXCEPT ![o] = <<>>]
  /\ UNCHANGED <<cloud, bounds>>

\* The values of one run are written together.
WriteResolved(o) ==
  /\ step[o] = "resolve" /\ Len(buf[o]) = Len(Refs(o))
  /\ obj' = [obj EXCEPT ![o].vals = buf[o]]
  /\ Enter(o, "connect") /\ buf' = [buf EXCEPT ![o] = <<>>]
  /\ UNCHANGED <<cloud, bounds>>

-------------------------------------------------------------------------------
(* The rest of a reconcile *)

\* Terraform's id is built from the resolved fields, at every reconcile.
Connect(o) ==
  /\ step[o] = "connect"
  /\ IF CanGetID(Config(o), Params(o)) THEN Enter(o, "act") /\ UNCHANGED buf
                                       ELSE Idle(o)
  /\ UNCHANGED <<obj, cloud, bounds>>

Acting(o) == step[o] = "act"
HasResource(o) == \E x \in live : obj[o].name \in Names(x)

AddFinalizer(o) ==
  /\ Acting(o) /\ ~obj[o].deleting /\ ~obj[o].finalizer
  /\ obj' = [obj EXCEPT ![o].finalizer = TRUE]
  /\ UNCHANGED <<step, buf, cloud, bounds>>

\* The resources a value names for the cloud: an id, a URI or a display name, and a
\* path if it takes one.
Named(v) ==
  {x \in live : v \in {<<x>>, Uri(x), <<<<x[1], 0>>>>}
                       \cup IF TakesPaths THEN Paths(x) ELSE {}}
Creatable(o) ==
  \A i \in DOMAIN Refs(o) : obj[o].vals[i] = Given \/ Named(obj[o].vals[i]) # {}

\* The cloud creates nothing with a parent it does not know.
Create(o) ==
  /\ Acting(o) /\ ~obj[o].deleting /\ obj[o].finalizer /\ obj[o].name = EmptyStr
  /\ Creatable(o) /\ born[o] < MaxChanges
  /\ LET x == <<o, born[o] + 1>> IN
       /\ live' = live \cup {x}
       /\ uses' = uses \cup
            {<<x, y>> : y \in UNION {Named(obj[o].vals[i]) : i \in DOMAIN Refs(o)}}
       /\ \E id \in Ids(o, x) :
            obj' = [obj EXCEPT ![o].name = GetExternalName(Config(o), id)]
       /\ built' = [built EXCEPT ![o] = GetID(Config(o), <<x>>, Params(o))]
  /\ born' = [born EXCEPT ![o] = @ + 1]
  /\ Idle(o)
  /\ UNCHANGED bounds

\* An observation fills in the status, and reads the name from the id in Terraform's
\* state: after a restart that is the id just built, when the refresh finds the
\* resource by it. (What follows when it finds nothing is in ManagedResource.)
Observe(o) ==
  /\ Acting(o) /\ ~obj[o].deleting /\ obj[o].finalizer
  /\ \E x \in live :
       /\ obj[o].name \in Names(x)
       /\ \E name \in {obj[o].name} \cup
            {GetExternalName(Config(o), id) :
               id \in Ids(o, x) \cap {GetID(Config(o), obj[o].name, Params(o))}} :
            obj' = [obj EXCEPT ![o].name = name, ![o].uri = Uri(x)]
  /\ Idle(o)
  /\ UNCHANGED <<cloud, bounds>>

InUse(x) == \E y \in live : <<y, x>> \in uses

Destroy(o) ==
  /\ Acting(o) /\ obj[o].deleting /\ ~obj[o].keep
  /\ \E x \in live : /\ obj[o].name \in Names(x) /\ ~(Refuses /\ InUse(x))
                     /\ live' = live \ {x}
  /\ Idle(o)
  /\ UNCHANGED <<obj, uses, born, built, bounds>>

\* Mutant of Release: it waits for a name.
Release_named(o) ==
  /\ Acting(o) /\ obj[o].deleting
  /\ obj[o].keep \/ (obj[o].name # EmptyStr /\ ~HasResource(o))
  /\ obj' = [obj EXCEPT ![o] = Absent(o)]
  /\ Idle(o)
  /\ UNCHANGED <<cloud, bounds>>

Release(o) ==
  /\ Acting(o) /\ obj[o].deleting
  /\ obj[o].keep \/ ~HasResource(o)
  /\ obj' = [obj EXCEPT ![o] = Absent(o)]
  /\ Idle(o)
  /\ UNCHANGED <<cloud, bounds>>

\* The cloud refuses, the object is gone, or there is nothing to do.
Refused(o) ==
  \/ step[o] = "stale"
  \/ /\ Acting(o) /\ ~obj[o].deleting /\ obj[o].finalizer
     /\ IF obj[o].name = EmptyStr THEN ~Creatable(o) \/ born[o] = MaxChanges
                                  ELSE ~HasResource(o)
  \/ /\ Acting(o) /\ obj[o].deleting /\ ~obj[o].keep
     /\ \E x \in live : obj[o].name \in Names(x) /\ Refuses /\ InUse(x)
GiveUp(o) == Refused(o) /\ Idle(o) /\ UNCHANGED <<obj, cloud, bounds>>

\* A call fails, or the pod dies.
Fail(o) ==
  /\ step[o] # "idle" /\ failures < MaxFailures /\ failures' = failures + 1
  /\ Idle(o)
  /\ UNCHANGED <<obj, cloud, changes>>

Work(o) ==
  \/ Start(o) \/ Resolve(o) \/ ResolveFails(o) \/ WriteResolved(o)
  \/ Connect(o) \/ AddFinalizer(o) \/ Create(o) \/ Observe(o) \/ Destroy(o)
  \/ Release(o) \/ GiveUp(o)

Next == \E o \in Object : CreateObject(o) \/ DeleteObject(o) \/ Work(o) \/ Fail(o)

Spec == Init /\ [][Next]_vars

\* Every object has a key in the queue, which comes back after each reconcile.
FairSpec == Spec /\ \A o \in Object : WF_vars(Work(o))

-------------------------------------------------------------------------------
(* Properties *)

ObjectType(o) ==
  [phase : {"absent", "present"}, deleting : BOOLEAN, keep : BOOLEAN,
   finalizer : BOOLEAN, name : Str, uri : Str, vals : [DOMAIN Refs(o) -> Str]]

TypeOK ==
  /\ DOMAIN obj = Object /\ \A o \in Object : obj[o] \in ObjectType(o)
  /\ step \in [Object -> {"idle", "resolve", "connect", "act", "stale"}]
  /\ buf \in [Object -> Seq(Str)]
  /\ \A o \in Object : Len(buf[o]) <= Len(Refs(o))
  /\ live \subseteq Resource /\ uses \subseteq Resource \X Resource
  /\ born \in [Object -> 0..MaxChanges] /\ built \in [Object -> Str]
  /\ changes \in 0..MaxChanges /\ failures \in 0..MaxFailures

\* Nothing is created, and nothing gets a finalizer that later needs its Terraform
\* id for the deletion, before every one of its references is resolved: a method
\* that fails half-way leaves no half-resolved resource behind.
NothingHalfResolved ==
  \A o \in Object :
    obj[o].finalizer => \A i \in DOMAIN Refs(o) : obj[o].vals[i] # EmptyStr

\* The Terraform id of a resource keeps naming the parents it was created under,
\* also when a parent's object is deleted and created again with another id:
\* resolved fields never follow the replacement, nor the name of a parent that
\* turns from the leaf into the path.
IdKeepsParents ==
  \A o \in Object : \A x \in live :
    obj[o].name \in Names(x) => GetID(Config(o), <<x>>, Params(o)) = built[o]

\* Every reference field configure.go declares holds, once the object may be
\* created, what it declares: the external name, the URI or the display name that
\* the object it refers to has had, never one in place of the other.
Made(t, n) == {t} \X (1..n)
Declared(how, t, n) ==
  IF t = None THEN {Given}
  ELSE CASE how = "id"   -> UNION {Names(x) : x \in Made(t, n)}
         [] how = "uri"  -> {Uri(x) : x \in Made(t, n)}
         [] how = "name" -> {<<<<t, 0>>>>}
FieldsAsConfigured ==
  \A o \in Object : obj[o].finalizer =>
    \A r \in Configured[KindOf[o]] : \E i \in DOMAIN Refs(o) :
      /\ Refs(o)[i][1] = r[1]
      /\ obj[o].vals[i] \in Declared(r[3], Target[o][i], born[Target[o][i]])

\* The id that GetIDFn builds from the resolved fields of an existing resource reads
\* back as its name exactly when no parent in it was named by its import path at the
\* time it was resolved: GetExternalNameFn takes a segment by its index, and a path
\* in front of it moves every segment. URIs and display names never get there.
IdReadsBack ==
  \A o \in Object : HasResource(o) /\ KindOf[o] \in ReversibleKinds =>
    ( GetExternalName(Config(o), GetID(Config(o), obj[o].name, Params(o))) = obj[o].name
      <=> \A q \in Required(Config(o)) : ~IsPath(Params(o)[q]) )

\* The references of an object are bound all in one step, by the last write of a
\* resolution that read one object after the other while users changed them, and
\* stay bound as they are; BindingContract has the details.
Binding == INSTANCE BindingContract WITH
  Fresh  <- [o \in Object |-> Absent(o).vals],
  Open   <- EmptyStr,
  Offers <- [o \in Object |-> [i \in DOMAIN Refs(o) |-> [n \in 0..MaxChanges |->
              Declared(Refs(o)[i][3], Target[o][i], n)]]],
  phase  <- [o \in Object |-> IF Present(o) /\ obj[o].deleting THEN "deleting"
                                                              ELSE obj[o].phase],
  bound  <- [o \in Object |-> obj[o].vals],
  named  <- [o \in Object |-> obj[o].name # EmptyStr],
  issued <- born

ImplementsBinding == Binding!Spec

Ready(o) == HasResource(o) /\ obj[o].uri # EmptyStr

\* Created in any order, objects that stay all become ready, unless one of them
\* holds on to a parent that was replaced since.
AllBecomeReady ==
  <>[](\/ \A o \in Object : Ready(o)
       \/ \E o \in Object :
            \/ ~Present(o) \/ obj[o].deleting
            \/ \E i \in DOMAIN Refs(o) : /\ obj[o].vals[i] \notin {Given, EmptyStr}
                                         /\ Named(obj[o].vals[i]) = {})

\* Deletions requested in any order complete, although the cloud refuses to delete
\* what is in use and the parents' objects may be gone: only a resource that
\* something else uses for ever stays.
DeletionsComplete ==
  \A o \in Object :
    \/ []<>(~obj[o].deleting)
    \/ <>[](\E x \in live : obj[o].name \in Names(x) /\ InUse(x))
===============================================================================
