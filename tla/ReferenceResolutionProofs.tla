------------------------ MODULE ReferenceResolutionProofs ------------------------
(***************************************************************************)
(* Nothing is created half-resolved, every field holds what configure.go   *)
(* declares, every id keeps naming the parents it was built with, and it   *)
(* reads back as its name exactly when no parent is named by a path: for   *)
(* any objects, any references between them and any interleaving of their  *)
(* controllers and users. The methods implement BindingContract, their     *)
(* waits form no circle, and the cloud's refusals leave something to       *)
(* delete.                                                                 *)
(***************************************************************************)
EXTENDS ReferenceResolution, ExternalNameProofs

\* Every conjunct speaks of one object and its worker; At(o) collects them.
Steps == {"idle", "resolve", "connect", "act", "stale"}
Filled == Str \ {EmptyStr}

Resolved(o) == \A i \in DOMAIN Refs(o) : obj[o].vals[i] # EmptyStr

\* A worker has only found non-empty values so far.
Typed(o) ==
  obj[o] \in ObjectType(o) /\ step[o] \in Steps /\ buf[o] \in Seq(Filled)

\* A worker past the resolution of an object that stays has resolved it. (One that
\* is being deleted got there without: it never gets a finalizer any more.)
PastResolution(o) ==
  step[o] \in {"connect", "act"} /\ ~obj[o].deleting => Resolved(o)

\* No worker acts for an object that is gone, so that a new one starts afresh.
NoGhost(o) == ~Present(o) => step[o] \in {"idle", "stale"} /\ obj[o] = Absent(o)

\* A field without a value has an object to look at.
HasTarget(o) ==
  \A i \in DOMAIN Refs(o) : Target[o][i] = None => obj[o].vals[i] # EmptyStr

At(o) ==
  /\ Typed(o) /\ PastResolution(o) /\ NoGhost(o) /\ HasTarget(o)
  /\ obj[o].finalizer => Resolved(o)
  /\ obj[o].deleting => obj[o].finalizer

Functions ==
  /\ DOMAIN obj = Object /\ DOMAIN step = Object /\ DOMAIN buf = Object
  /\ live \subseteq Resource /\ born \in [Object -> 0..MaxChanges]

Inv == Functions /\ \A o \in Object : At(o)

-------------------------------------------------------------------------------
(* The tables: configure.go and the methods generated from it. *)

Elements(s) == {s[i] : i \in DOMAIN s}

LEMMA ElementsOfTuples ==
  /\ Elements(<<>>) = {}
  /\ \A a : Elements(<<a>>) = {a}
  /\ \A a, b : Elements(<<a, b>>) = {a, b}
  /\ \A a, b, c : Elements(<<a, b, c>>) = {a, b, c}
  /\ \A a, b, c, d : Elements(<<a, b, c, d>>) = {a, b, c, d}
  /\ \A a, b, c, d, e : Elements(<<a, b, c, d, e>>) = {a, b, c, d, e}
  /\ \A a, b, c, d, e, f : Elements(<<a, b, c, d, e, f>>) = {a, b, c, d, e, f}
  /\ \A a, b, c, d, e, f, g : Elements(<<a, b, c, d, e, f, g>>) = {a, b, c, d, e, f, g}
BY DEF Elements

\* The generated methods resolve what configure.go declares, for each kind.
LEMMA RefsAsConfigured ==
  ASSUME NEW k \in Kinds
  PROVE  RefsOf(k) = Configured[k]
<1>1. \A q : RefsOf(q) = Elements(Resolver[q])
  BY DEF RefsOf, Elements
<1> USE <1>1, ElementsOfTuples DEF Resolver, Configured
<1>2. RefsOf("project") = Configured["project"]
  OBVIOUS
<1>3. RefsOf("vpc") = Configured["vpc"]
  BY DEF VpcRefs
<1>4. RefsOf("subnet") = Configured["subnet"]
  BY DEF SubnetRefs
<1>5. RefsOf("keypair") = Configured["keypair"]
  BY DEF KeypairRefs
<1>6. RefsOf("elasticip") = Configured["elasticip"]
  BY DEF ElasticipRefs
<1>7. RefsOf("blockstorage") = Configured["blockstorage"]
  BY DEF BlockstorageRefs
<1>8. RefsOf("cloudserver") = Configured["cloudserver"]
  <2>1. RefsOf("cloudserver") = Elements(CloudserverRefs)
    OBVIOUS
  <2>2. QED
    BY <2>1 DEF CloudserverRefs, CloudserverConfigured
<1>9. RefsOf("snapshot") = Configured["snapshot"]
  BY DEF SnapshotRefs
<1>10. RefsOf("backup") = Configured["backup"]
  BY DEF BackupRefs
<1>11. RefsOf("restore") = Configured["restore"]
  BY DEF RestoreRefs
<1>12. RefsOf("securitygroup") = Configured["securitygroup"]
  BY DEF SecuritygroupRefs
<1>13. RefsOf("securityrule") = Configured["securityrule"]
  BY DEF SecurityruleRefs
<1>14. RefsOf("vpcpeering") = Configured["vpcpeering"]
  BY DEF VpcpeeringRefs
<1>15. RefsOf("vpntunnel") = Configured["vpntunnel"]
  <2>1. RefsOf("vpntunnel") = Elements(VpntunnelRefs)
    OBVIOUS
  <2>2. QED
    BY <2>1 DEF VpntunnelRefs, VpntunnelConfigured
<1>16. RefsOf("vpcpeeringroute") = Configured["vpcpeeringroute"]
  BY DEF VpcpeeringrouteRefs
<1>17. RefsOf("vpnroute") = Configured["vpnroute"]
  BY DEF VpnrouteRefs
<1>18. RefsOf("kaas") = Configured["kaas"]
  BY DEF KaasRefs, KaasConfigured
<1>19. RefsOf("dbaas") = Configured["dbaas"]
  BY DEF DbaasRefs, DbaasConfigured
<1>20. RefsOf("containerregistry") = Configured["containerregistry"]
  BY DEF ContainerregistryRefs, ContainerregistryConfigured
<1>21. RefsOf("database") = Configured["database"]
  BY DEF DatabaseRefs
<1>22. RefsOf("dbaasuser") = Configured["dbaasuser"]
  BY DEF DbaasuserRefs
<1>23. RefsOf("databasegrant") = Configured["databasegrant"]
  <2>1. RefsOf("databasegrant") = Elements(DatabasegrantRefs)
    OBVIOUS
  <2>2. QED
    BY <2>1 DEF DatabasegrantRefs
<1>24. RefsOf("databasebackup") = Configured["databasebackup"]
  BY DEF DatabasebackupRefs
<1>25. RefsOf("kms") = Configured["kms"]
  BY DEF KmsRefs
<1>26. RefsOf("schedulejob") = Configured["schedulejob"]
  BY DEF SchedulejobRefs
<1> HIDE <1>1, ElementsOfTuples DEF Resolver, Configured
<1>27. QED
  BY <1>2, <1>3, <1>4, <1>5, <1>6, <1>7, <1>8, <1>9, <1>10, <1>11, <1>12,
     <1>13, <1>14, <1>15, <1>16, <1>17, <1>18, <1>19, <1>20, <1>21, <1>22,
     <1>23, <1>24, <1>25, <1>26, KindList

\* A reference reads an id, a URI or a display name; what ends up in a Terraform id
\* is read as an id, and the first of them from a project.
LEMMA WhatIsExtracted ==
  ASSUME NEW k \in Kinds, NEW i \in DOMAIN Resolver[k]
  PROVE  /\ Resolver[k][i][3] \in {"id", "uri", "name"}
         /\ Resolver[k][i][1] \in Param => Resolver[k][i][3] = "id"
         /\ Resolver[k][i][1] = "project_id" => Resolver[k][i][2] = "project"
<1>1. Resolver[k][i] \in Configured[k]
  BY RefsAsConfigured DEF RefsOf
<1> DEFINE Readable(r) ==
      /\ r[3] \in {"id", "uri", "name"}
      /\ r[1] \in Param => r[3] = "id"
      /\ r[1] = "project_id" => r[2] = "project"
<1>2. /\ Readable(Project) /\ Readable(Vpc) /\ Readable(Dbaas)
      /\ \A f, q : f # "project_id" => Readable(ByID(f, q))
      /\ \A f, q : f \notin Param => Readable(ByURI(f, q)) /\ Readable(ByName(f, q))
  BY DEF Project, Vpc, Dbaas, ByID, ByURI, ByName, Param
<1>3. \A r \in Configured[k] : Readable(r)
  BY <1>2, KindList
     DEF Configured, CloudserverConfigured, KaasConfigured,
         ContainerregistryConfigured, DbaasConfigured, VpntunnelConfigured, Param
<1>4. QED
  BY <1>1, <1>3

-------------------------------------------------------------------------------
(* Facts about the operators. *)

LEMMA StrFacts ==
  /\ EmptyStr \in Str /\ Given \in Str /\ Given # EmptyStr
  /\ \A x \in Resource : <<x>> \in Str /\ Uri(x) \in Str
  /\ \A t \in Object : <<<<t, 0>>>> \in Str
<1>1. 0 \in 0..MaxChanges
  BY LimitsAreNat
<1>2. /\ Resource \subseteq Name
      /\ \A t \in Object : <<t, 0>> \in Name
      /\ <<None, 0>> \in Name
  <2>1. Resource \subseteq (Object \cup {None}) \X (0..MaxChanges)
    BY LimitsAreNat DEF Resource
  <2>2. QED
    BY <1>1, <2>1, NameAssumption
<1>3. \A n \in Name \cup {Blank} : <<n>> \in Str
  BY DEF Str
<1>4. \A n \in Name \cup {Blank} : <<Blank, n>> \in Str
  BY DEF Str
<1>5. Given # EmptyStr
  BY <1>2, BlankIsNoName DEF Given, EmptyStr
<1>6. QED
  BY <1>2, <1>3, <1>4, <1>5 DEF EmptyStr, Given, Uri

LEMMA RefsAreSeq ==
  ASSUME NEW o \in Object
  PROVE  /\ Len(Refs(o)) \in Nat /\ DOMAIN Refs(o) = 1..Len(Refs(o))
         /\ Target[o] \in Seq(Object \cup {None}) /\ DOMAIN Target[o] = DOMAIN Refs(o)
<1>1. Target[o] \in Seq(Object \cup {None}) /\ Len(Target[o]) = Len(Refs(o))
  BY TargetAssumption DEF Refs
<1>2. QED
  BY <1>1

LEMMA RefReads ==
  ASSUME NEW o \in Object, NEW i \in DOMAIN Refs(o)
  PROVE  /\ Refs(o)[i][3] \in {"id", "uri", "name"}
         /\ Refs(o)[i][1] \in Param => Refs(o)[i][3] = "id"
         /\ Refs(o)[i][1] = "project_id" => Refs(o)[i][2] = "project"
BY KindOfAssumption, WhatIsExtracted DEF Refs

\* Names are strings that end with the resource they name.
LEMMA NameFacts ==
  ASSUME NEW x \in Resource, NEW v \in Names(x)
  PROVE  /\ v \in Str /\ v # EmptyStr /\ v[Len(v)] = x
         /\ v = <<x>> \/ Len(v) = 2
<1>1. Projects \subseteq Name /\ Resource \subseteq Name
  <2>1. /\ <<None, 0>> \in (Object \cup {None}) \X (0..MaxChanges)
        /\ Resource \subseteq (Object \cup {None}) \X (0..MaxChanges)
    BY LimitsAreNat DEF Resource
  <2>2. QED
    BY <2>1, NameAssumption DEF Projects
<1>2. CASE v = <<x>>
  <2>1. v \in Str /\ v # EmptyStr
    BY <1>1, <1>2, StrFacts, BlankIsNoName DEF EmptyStr
  <2>2. QED
    BY <1>2, <2>1
<1>3. CASE v # <<x>>
  <2>1. PICK p \in Projects : v = <<p, x>>
    BY <1>3 DEF Names, Paths
  <2>2. Len(v) = 2 /\ v[2] = x
    BY <2>1
  <2>3. p \in Name \cup {Blank} /\ x \in Name \cup {Blank}
    BY <1>1, <2>1
  <2>4. <<p, x>> \in Str
    BY <2>3 DEF Str
  <2>5. v # EmptyStr
    BY <2>2 DEF EmptyStr
  <2>6. QED
    BY <2>1, <2>2, <2>4, <2>5
<1>4. QED
  BY <1>2, <1>3

\* No two resources share a name.
LEMMA NamesDiffer ==
  ASSUME NEW x \in Resource, NEW y \in Resource, NEW v \in Names(x), v \in Names(y)
  PROVE  x = y
BY NameFacts

LEMMA PathIsLong ==
  ASSUME NEW v, IsPath(v)
  PROVE  Len(v) = 2
<1>1. PICK x \in Resource : v \in Paths(x)
  BY DEF IsPath
<1>2. PICK p \in Projects : v = <<p, x>>
  BY <1>1 DEF Paths
<1>3. QED
  BY <1>2

LEMMA NewObjectType ==
  ASSUME NEW o \in Object
  PROVE  NewObject(o) \in ObjectType(o) /\ Absent(o) \in ObjectType(o)
BY StrFacts DEF NewObject, Absent, ObjectType

\* A step of one object's worker or user leaves the others alone.
LEMMA Frame ==
  ASSUME Inv, NEW o \in Object, Functions', At(o)',
         \A p \in Object \ {o} :
           obj'[p] = obj[p] /\ step'[p] = step[p] /\ buf'[p] = buf[p]
  PROVE  Inv'
<1>1. ASSUME NEW p \in Object, p # o PROVE At(p)'
  BY <1>1 DEF Inv, At, Typed, PastResolution, NoGhost, HasTarget, Resolved, Present
<1>2. QED
  BY <1>1 DEF Inv

\* What a reference is given is a string, empty or not.
LEMMA ValueTyped ==
  ASSUME Inv, NEW o \in Object, NEW i \in DOMAIN Refs(o)
  PROVE  Value(o, i) \in Str
<1> USE DEF Inv, At, Typed
<1>1. CASE obj[o].vals[i] # EmptyStr
  BY <1>1 DEF Value, ObjectType
<1>2. CASE obj[o].vals[i] = EmptyStr
  <2>1. Target[o][i] \in Object
    BY <1>2, RefsAreSeq DEF HasTarget
  <2>2. obj[Target[o][i]] \in ObjectType(Target[o][i])
    BY <2>1
  <2>3. QED
    BY <1>2, <2>1, <2>2, StrFacts, RefReads DEF Value, Extract, ObjectType
<1>3. QED
  BY <1>1, <1>2

LEMMA ParamsAreStr ==
  ASSUME Inv, NEW o \in Object
  PROVE  Params(o) \in [Param -> Str]
<1>1. obj[o].vals \in [DOMAIN Refs(o) -> Str]
  BY DEF Inv, At, Typed, ObjectType
<1>2. ASSUME NEW q \in Param PROVE Params(o)[q] \in Str
  <2> DEFINE I == {i \in DOMAIN Refs(o) : Refs(o)[i][1] = q}
  <2>1. CASE I = {}
    BY <2>1, StrFacts DEF Params
  <2>2. CASE I # {}
    <3>1. (CHOOSE i \in I : TRUE) \in I
      BY <2>2
    <3>2. Params(o)[q] = obj[o].vals[CHOOSE i \in I : TRUE]
      BY <2>2 DEF Params
    <3>3. QED
      BY <1>1, <3>1, <3>2
  <2>3. QED
    BY <2>1, <2>2
<1>3. QED
  BY <1>2 DEF Params

LEMMA LeavesFlat ==
  ASSUME Inv, NEW o \in Object
  PROVE  Flat(Leaves(o))
<1>1. ASSUME NEW q \in Param
      PROVE  Leaves(o)[q] \in {<<s>> : s \in Segment}
  <2> DEFINE v == Params(o)[q]
  <2>1. v \in Seq(Segment) /\ Len(v) > 0
    BY ParamsAreStr, StrAsSeq
  <2>2. Leaves(o)[q] = <<v[Len(v)]>>
    BY DEF Leaves
  <2> HIDE DEF v
  <2>3. v[Len(v)] \in Segment
    BY <2>1
  <2>4. QED
    BY <2>2, <2>3
<1>2. QED
  BY <1>1 DEF Flat, Leaves

\* Both forms of an id are strings, and so is what is read from them.
LEMMA IdsAreStr ==
  ASSUME Inv, NEW o \in Object, NEW x \in Resource, NEW id \in Ids(o, x)
  PROVE  GetExternalName(Config(o), id) \in Str
<1>1. KindOf[o] \in Kinds /\ <<x>> \in Str
  BY KindOfAssumption, StrFacts
<1>2. Leaves(o) \in [Param -> Str]
  BY LeavesFlat, FlatIsStr
<1>3. id \in Str
  BY <1>1, <1>2, GetIDIsStr DEF Ids, Config
<1>4. QED
  BY <1>1, <1>3, GetExternalNameIsStr DEF Config

-------------------------------------------------------------------------------
(* The invariant holds initially and is kept by every step. *)

LEMMA InitInv == Init => Inv
<1> SUFFICES ASSUME Init PROVE Inv
  OBVIOUS
<1>1. Functions
  BY LimitsAreNat DEF Init, Functions
<1>2. ASSUME NEW o \in Object PROVE At(o)
  <2>1. obj[o] = Absent(o) /\ step[o] = "idle" /\ buf[o] = <<>>
    BY DEF Init
  <2>2. obj[o] \in ObjectType(o) /\ ~obj[o].finalizer /\ ~obj[o].deleting
    BY <2>1, NewObjectType DEF Absent, NewObject
  <2>3. HasTarget(o)
    BY <2>1, StrFacts, RefsAreSeq DEF HasTarget, Absent, NewObject
  <2>4. QED
    BY <2>1, <2>2, <2>3 DEF At, Typed, Steps, PastResolution, NoGhost
<1>3. QED
  BY <1>1, <1>2 DEF Inv

LEMMA UsersKeepInv ==
  ASSUME Inv, NEW o \in Object, CreateObject(o) \/ DeleteObject(o)
  PROVE  Inv'
<1> USE DEF Inv, Functions
<1>1. At(o)
  OBVIOUS
<1>2. CASE CreateObject(o)
  <2>1. /\ obj'[o] = NewObject(o) /\ step'[o] = step[o] /\ buf'[o] = buf[o]
        /\ step[o] \in {"idle", "stale"}
    BY <1>1, <1>2 DEF CreateObject, At, NoGhost
  <2>2. /\ obj'[o] \in ObjectType(o) /\ obj'[o].phase = "present"
        /\ ~obj'[o].finalizer /\ ~obj'[o].deleting
    BY <2>1, NewObjectType DEF NewObject
  <2>3. HasTarget(o)'
    BY <2>1, StrFacts, RefsAreSeq DEF HasTarget, NewObject
  <2>4. At(o)'
    BY <1>1, <2>1, <2>2, <2>3 DEF At, Typed, PastResolution, NoGhost, Present
  <2>5. QED
    BY <1>2, <2>4, Frame DEF CreateObject, cloud
<1>3. CASE DeleteObject(o) /\ obj[o].finalizer
  <2>1. PICK keep \in BOOLEAN :
          obj' = [obj EXCEPT ![o].deleting = TRUE, ![o].keep = keep]
    BY <1>3 DEF DeleteObject
  <2>2. obj'[o] = [obj[o] EXCEPT !.deleting = TRUE, !.keep = keep]
    BY <2>1
  <2>3. /\ obj'[o] \in ObjectType(o) /\ obj'[o].deleting
        /\ obj'[o].vals = obj[o].vals /\ obj'[o].phase = obj[o].phase
        /\ obj'[o].finalizer = obj[o].finalizer
    BY <1>1, <2>2 DEF At, Typed, ObjectType
  <2>4. step' = step /\ buf' = buf
    BY <1>3 DEF DeleteObject
  <2>5. At(o)'
    BY <1>1, <1>3, <2>3, <2>4
       DEF At, Typed, PastResolution, NoGhost, HasTarget, Resolved, Present, DeleteObject
  <2>6. QED
    BY <1>3, <2>1, <2>5, Frame DEF DeleteObject, cloud
<1>4. CASE DeleteObject(o) /\ ~obj[o].finalizer
  <2>1. /\ obj'[o] = Absent(o) /\ buf'[o] = buf[o]
        /\ step'[o] \in {"idle", "stale"}
    BY <1>4 DEF DeleteObject
  <2>2. obj'[o] \in ObjectType(o) /\ ~obj'[o].finalizer /\ ~obj'[o].deleting
    BY <2>1, NewObjectType DEF Absent, NewObject
  <2>3. HasTarget(o)'
    BY <2>1, StrFacts, RefsAreSeq DEF HasTarget, Absent, NewObject
  <2>4. At(o)'
    BY <1>1, <2>1, <2>2, <2>3 DEF At, Typed, Steps, PastResolution, NoGhost
  <2>5. QED
    BY <1>4, <2>4, Frame DEF DeleteObject, cloud
<1>5. QED
  BY <1>2, <1>3, <1>4

\* Giving up a reconcile keeps everything: nothing was written.
LEMMA IdleKeepsInv ==
  ASSUME Inv, NEW o \in Object, Idle(o), UNCHANGED <<obj, live, born>>
  PROVE  Inv'
<1> USE DEF Inv, Functions
<1>1. step'[o] = "idle" /\ buf'[o] = <<>>
  BY DEF Idle, Enter
<1>2. At(o)'
  BY <1>1 DEF At, Typed, Steps, PastResolution, NoGhost, HasTarget, Resolved, Present
<1>3. QED
  BY <1>2, Frame DEF Idle, Enter

LEMMA ResolutionKeepsInv ==
  ASSUME Inv, NEW o \in Object,
         Start(o) \/ Resolve(o) \/ ResolveFails(o) \/ WriteResolved(o)
  PROVE  Inv'
<1> USE DEF Inv, Functions
<1>1. At(o)
  OBVIOUS
<1>2. CASE Start(o)
  <2>1. /\ obj' = obj /\ buf' = buf /\ Present(o)
        /\ step'[o] = IF obj[o].deleting THEN "connect" ELSE "resolve"
    BY <1>2 DEF Start, Enter
  <2>2. At(o)'
    BY <1>1, <2>1
       DEF At, Typed, Steps, PastResolution, NoGhost, HasTarget, Resolved, Present
  <2>3. QED
    BY <1>2, <2>2, Frame DEF Start, Enter, cloud
<1>3. CASE Resolve(o)
  <2> DEFINE n == Len(buf[o]) + 1
             v == Value(o, n)
  <2>1. buf[o] \in Seq(Filled) /\ Len(buf[o]) < Len(Refs(o)) /\ v # EmptyStr
    BY <1>1, <1>3 DEF Resolve, Resolving, At, Typed
  <2>2. n \in DOMAIN Refs(o)
    BY <2>1, RefsAreSeq
  <2>3. v \in Filled
    BY <2>1, <2>2, ValueTyped DEF Filled
  <2> HIDE DEF v
  <2>4. Append(buf[o], v) \in Seq(Filled)
    BY <2>1, <2>3
  <2>5. buf'[o] = Append(buf[o], v) /\ obj' = obj /\ step' = step
    BY <1>3 DEF Resolve, v
  <2>6. At(o)'
    BY <1>1, <2>4, <2>5
       DEF At, Typed, PastResolution, NoGhost, HasTarget, Resolved, Present
  <2>7. QED
    BY <1>3, <2>6, Frame DEF Resolve, cloud
<1>4. CASE ResolveFails(o)
  BY <1>4, IdleKeepsInv DEF ResolveFails, cloud
<1>5. CASE WriteResolved(o)
  <2>1. /\ obj'[o] = [obj[o] EXCEPT !.vals = buf[o]]
        /\ step'[o] = "connect" /\ buf'[o] = <<>>
    BY <1>5 DEF WriteResolved, Enter
  <2>2. Len(buf[o]) = Len(Refs(o)) /\ buf[o] \in Seq(Filled) /\ step[o] = "resolve"
    BY <1>1, <1>5 DEF WriteResolved, At, Typed
  <2>3. buf[o] \in [DOMAIN Refs(o) -> Filled]
    BY <2>2, RefsAreSeq
  <2>4. /\ obj'[o] \in ObjectType(o) /\ obj'[o].vals = buf[o]
        /\ obj'[o].phase = obj[o].phase
    BY <1>1, <2>1, <2>3 DEF At, Typed, ObjectType, Filled
  <2>5. Resolved(o)' /\ HasTarget(o)'
    BY <2>3, <2>4 DEF Resolved, HasTarget, Filled
  <2>6. obj'[o].phase = "present"
    BY <1>1, <2>2, <2>4 DEF At, Typed, ObjectType, NoGhost, Present
  <2>7. At(o)'
    BY <2>1, <2>4, <2>5, <2>6
       DEF At, Typed, Steps, PastResolution, NoGhost, Present
  <2>8. QED
    BY <1>5, <2>7, Frame DEF WriteResolved, Enter, cloud
<1>6. QED
  BY <1>2, <1>3, <1>4, <1>5

\* Writing to an object whose references stay as they are.
LEMMA WriteKeepsAt ==
  ASSUME Inv, NEW o \in Object, step[o] = "act", obj'[o] \in ObjectType(o),
         obj'[o].vals = obj[o].vals, obj'[o].phase = obj[o].phase,
         obj'[o].deleting = obj[o].deleting,
         obj'[o].finalizer => obj[o].finalizer \/ ~obj[o].deleting,
         obj[o].finalizer => obj'[o].finalizer,
         step'[o] \in {step[o], "idle"}, buf'[o] \in {buf[o], <<>>}
  PROVE  At(o)'
<1>1. At(o)
  BY DEF Inv
<1>2. obj'[o].finalizer => Resolved(o)'
  BY <1>1 DEF At, PastResolution, Resolved
<1>3. NoGhost(o)' /\ HasTarget(o)' /\ PastResolution(o)'
  BY <1>1 DEF At, NoGhost, HasTarget, PastResolution, Resolved, Present
<1>4. Typed(o)'
  <2>1. buf[o] \in Seq(Filled) /\ <<>> \in Seq(Filled)
    BY <1>1 DEF At, Typed
  <2>2. buf'[o] \in Seq(Filled)
    BY <2>1
  <2>3. step'[o] \in Steps
    BY <1>1 DEF At, Typed, Steps
  <2>4. QED
    BY <2>2, <2>3 DEF Typed
<1>5. obj'[o].deleting => obj'[o].finalizer
  BY <1>1 DEF At
<1>6. QED
  BY <1>2, <1>3, <1>4, <1>5 DEF At

LEMMA ReconcileKeepsInv ==
  ASSUME Inv, NEW o \in Object,
         \/ Connect(o) \/ AddFinalizer(o) \/ Create(o) \/ Observe(o)
         \/ Destroy(o) \/ Release(o) \/ GiveUp(o) \/ Fail(o)
  PROVE  Inv'
<1> USE DEF Inv, Functions
<1>1. At(o) /\ obj[o] \in ObjectType(o)
  BY DEF At, Typed
<1>2. CASE Connect(o)
  <2>1. CASE CanGetID(Config(o), Params(o))
    <3>1. obj' = obj /\ buf' = buf /\ step[o] = "connect" /\ step'[o] = "act"
      BY <1>2, <2>1 DEF Connect, Enter
    <3>2. At(o)'
      BY <1>1, <3>1
         DEF At, Typed, Steps, PastResolution, NoGhost, HasTarget, Resolved, Present
    <3>3. QED
      BY <1>2, <2>1, <3>2, Frame DEF Connect, Enter, cloud
  <2>2. CASE ~CanGetID(Config(o), Params(o))
    BY <1>2, <2>2, IdleKeepsInv DEF Connect, cloud
  <2>3. QED
    BY <2>1, <2>2
<1>3. CASE AddFinalizer(o)
  <2>1. obj'[o] = [obj[o] EXCEPT !.finalizer = TRUE]
    BY <1>3 DEF AddFinalizer
  <2>2. obj'[o] \in ObjectType(o)
    BY <1>1, <2>1 DEF ObjectType
  <2>3. At(o)'
    BY <1>1, <1>3, <2>1, <2>2, WriteKeepsAt DEF AddFinalizer, Acting, ObjectType
  <2>4. QED
    BY <1>3, <2>3, Frame DEF AddFinalizer, cloud
<1>4. CASE Create(o)
  <2> DEFINE n == born[o] + 1
             x == <<o, n>>
  <2>1. n \in 1..MaxChanges
    BY <1>4, LimitsAreNat DEF Create
  <2>2. x \in Resource
    BY <2>1 DEF Resource
  <2>3. PICK id \in Ids(o, x) :
          obj' = [obj EXCEPT ![o].name = GetExternalName(Config(o), id)]
    BY <1>4 DEF Create
  <2> DEFINE name == GetExternalName(Config(o), id)
  <2>4. name \in Str
    BY <2>2, IdsAreStr
  <2>5. obj'[o] = [obj[o] EXCEPT !.name = name]
    BY <2>3
  <2> HIDE DEF name
  <2>6. obj'[o] \in ObjectType(o)
    BY <1>1, <2>4, <2>5 DEF ObjectType
  <2>7. At(o)'
    BY <1>1, <1>4, <2>5, <2>6, WriteKeepsAt DEF Create, Acting, Idle, Enter, ObjectType
  <2>8. live' \subseteq Resource
    BY <1>4, <2>2 DEF Create
  <2>9. born' \in [Object -> 0..MaxChanges]
    BY <1>4, <2>1, LimitsAreNat DEF Create
  <2>10. QED
    BY <1>4, <2>3, <2>7, <2>8, <2>9, Frame DEF Create, Idle, Enter
<1>5. CASE Observe(o)
  <2>1. PICK x \in live :
          \E name \in {obj[o].name} \cup
            {GetExternalName(Config(o), id) :
               id \in Ids(o, x) \cap {GetID(Config(o), obj[o].name, Params(o))}} :
            obj' = [obj EXCEPT ![o].name = name, ![o].uri = Uri(x)]
    BY <1>5 DEF Observe
  <2> DEFINE read == {GetExternalName(Config(o), id) : id \in Ids(o, x)}
             got  == {GetExternalName(Config(o), id) :
                        id \in Ids(o, x) \cap {GetID(Config(o), obj[o].name, Params(o))}}
  <2>2. PICK name \in {obj[o].name} \cup read :
          obj' = [obj EXCEPT ![o].name = name, ![o].uri = Uri(x)]
    <3>1. got \subseteq read
      OBVIOUS
    <3>2. PICK name \in {obj[o].name} \cup got :
            obj' = [obj EXCEPT ![o].name = name, ![o].uri = Uri(x)]
      BY <2>1
    <3> HIDE DEF read, got
    <3>3. QED
      BY <3>1, <3>2
  <2>3. obj'[o] = [obj[o] EXCEPT !.name = name, !.uri = Uri(x)]
    BY <2>2
  <2>4. read \subseteq Str
    BY IdsAreStr
  <2> HIDE DEF read
  <2>5. Uri(x) \in Str
    BY StrFacts
  <2>6. name \in Str
    BY <1>1, <2>2, <2>4 DEF ObjectType
  <2>7. obj'[o] \in ObjectType(o)
    BY <1>1, <2>3, <2>5, <2>6 DEF ObjectType
  <2>8. At(o)'
    BY <1>1, <1>5, <2>3, <2>7, WriteKeepsAt DEF Observe, Acting, Idle, Enter, ObjectType
  <2>9. QED
    BY <1>5, <2>2, <2>8, Frame DEF Observe, Idle, Enter, cloud
<1>6. CASE Destroy(o)
  <2>1. live' \subseteq Resource
    BY <1>6 DEF Destroy
  <2>2. At(o)'
    BY <1>1, <1>6, WriteKeepsAt DEF Destroy, Acting, Idle, Enter
  <2>3. QED
    BY <1>6, <2>1, <2>2, Frame DEF Destroy, Idle, Enter
<1>7. CASE Release(o)
  <2>1. obj'[o] = Absent(o) /\ step'[o] = "idle" /\ buf'[o] = <<>>
    BY <1>7 DEF Release, Idle, Enter
  <2>2. obj'[o] \in ObjectType(o) /\ ~obj'[o].finalizer /\ ~obj'[o].deleting
    BY <2>1, NewObjectType DEF Absent, NewObject
  <2>3. HasTarget(o)'
    BY <2>1, StrFacts, RefsAreSeq DEF HasTarget, Absent, NewObject
  <2>4. At(o)'
    BY <2>1, <2>2, <2>3 DEF At, Typed, Steps, PastResolution, NoGhost
  <2>5. QED
    BY <1>7, <2>4, Frame DEF Release, Idle, Enter, cloud
<1>8. CASE GiveUp(o)
  BY <1>8, IdleKeepsInv DEF GiveUp, cloud
<1>9. CASE Fail(o)
  BY <1>9, IdleKeepsInv DEF Fail, cloud
<1>10. QED
  BY <1>2, <1>3, <1>4, <1>5, <1>6, <1>7, <1>8, <1>9

LEMMA NextInv == Inv /\ [Next]_vars => Inv'
<1> SUFFICES ASSUME Inv, [Next]_vars PROVE Inv'
  OBVIOUS
<1>1. CASE UNCHANGED vars
  BY <1>1 DEF vars, cloud, Inv, Functions, At, Typed, PastResolution, NoGhost,
              HasTarget, Resolved, Present
<1>2. ASSUME NEW o \in Object, Work(o) PROVE Inv'
  BY <1>2, ResolutionKeepsInv, ReconcileKeepsInv DEF Work
<1>3. QED
  BY <1>1, <1>2, UsersKeepInv, ReconcileKeepsInv DEF Next

\* No object ever gets a finalizer, and with it a resource, before each of its
\* references has a value, whatever becomes of the objects it refers to.
THEOREM NeverHalfResolved == Spec => []NothingHalfResolved
<1>1. Inv => NothingHalfResolved
  BY DEF Inv, At, Resolved, NothingHalfResolved
<1>2. QED
  BY <1>1, InitInv, NextInv, PTL DEF Spec

-------------------------------------------------------------------------------
(* What the fields hold, and the ids that are built from them. *)

Own(o) == Made(o, born[o])
Declares(o, i) == Declared(Refs(o)[i][3], Target[o][i], born[Target[o][i]])
Builds(o) == \A x \in Resource : obj[o].name \in Names(x) =>
               GetID(Config(o), <<x>>, Params(o)) = built[o]

\* Fields, resolved values, name and URI are what they are declared to be.
Faithful(o) ==
  /\ Len(buf[o]) <= Len(Refs(o))
  /\ \A i \in DOMAIN Refs(o) : obj[o].vals[i] \in {EmptyStr} \cup Declares(o, i)
  /\ \A i \in DOMAIN buf[o] : buf[o][i] \in Declares(o, i)
  /\ obj[o].name \in {EmptyStr} \cup UNION {Names(x) : x \in Own(o)}
  /\ obj[o].uri \in {EmptyStr} \cup {Uri(x) : x \in Own(o)}

\* A worker that resolves again finds what the fields have.
Frozen(o) ==
  /\ step[o] = "idle" => buf[o] = <<>>
  /\ step[o] = "resolve" => \A i \in DOMAIN buf[o] :
       obj[o].vals[i] # EmptyStr => buf[o][i] = obj[o].vals[i]

\* What has a name has a finalizer, so that its fields have their values for good.
Built(o) == obj[o].name # EmptyStr => obj[o].finalizer /\ Builds(o)

Says(o) == Faithful(o) /\ Frozen(o) /\ Built(o)

Types ==
  /\ step \in [Object -> Steps] /\ buf \in [Object -> Seq(Str)]
  /\ uses \subseteq Resource \X Resource /\ built \in [Object -> Str]
  /\ changes \in 0..MaxChanges /\ failures \in 0..MaxFailures

More == Types /\ \A o \in Object : Says(o)

\* What was declared, or made, stays so.
Grows == \A o \in Object : 1..born[o] \subseteq 1..born'[o]

LEMMA DeclaresGrow ==
  ASSUME Grows, NEW o \in Object
  PROVE  /\ Own(o) \subseteq Own(o)'
         /\ \A i \in DOMAIN Refs(o) : Declares(o, i) \subseteq Declares(o, i)'
<1>1. \A p \in Object : Made(p, born[p]) \subseteq Made(p, born'[p])
  BY DEF Grows, Made
<1>2. ASSUME NEW i \in DOMAIN Refs(o)
      PROVE  Declares(o, i) \subseteq Declares(o, i)'
  <2>1. Target[o][i] \in Object \cup {None} /\ Refs(o)[i][3] \in {"id", "uri", "name"}
    BY RefsAreSeq, RefReads
  <2>2. QED
    BY <1>1, <2>1 DEF Declares, Declared
<1>3. QED
  BY <1>1, <1>2 DEF Own

LEMMA FaithfulKept ==
  ASSUME Grows, NEW o \in Object, Faithful(o), buf[o] \in Seq(Str),
         obj'[o].vals = obj[o].vals, obj'[o].name = obj[o].name,
         obj'[o].uri = obj[o].uri, buf'[o] \in {buf[o], <<>>}
  PROVE  Faithful(o)'
<1>1. Len(<<>>) = 0 /\ DOMAIN <<>> = {} /\ Len(Refs(o)) \in Nat
  BY RefsAreSeq
<1>2. /\ Len(buf'[o]) <= Len(Refs(o))
      /\ \A i \in DOMAIN buf'[o] : i \in DOMAIN buf[o] /\ buf'[o][i] = buf[o][i]
  BY <1>1 DEF Faithful
<1>3. \A i \in DOMAIN buf[o] : i \in DOMAIN Refs(o)
  BY RefsAreSeq DEF Faithful
<1>4. QED
  BY <1>2, <1>3, DeclaresGrow DEF Faithful

\* The parameters depend on the fields alone.
LEMMA ParamsKept ==
  ASSUME NEW o \in Object, obj'[o].vals = obj[o].vals
  PROVE  Params(o)' = Params(o)
BY DEF Params

LEMMA SayKept ==
  ASSUME Grows, NEW o \in Object, Says(o), buf[o] \in Seq(Str),
         obj'[o] = obj[o], step'[o] = step[o], buf'[o] = buf[o], built'[o] = built[o]
  PROVE  Says(o)'
<1>1. Params(o)' = Params(o) /\ Faithful(o)'
  BY ParamsKept, FaithfulKept DEF Says
<1>2. QED
  BY <1>1 DEF Says, Frozen, Built, Builds

LEMMA OwnIsResource ==
  ASSUME Functions, NEW o \in Object, NEW x \in Own(o)
  PROVE  x \in Resource /\ x[1] = o
<1>1. born[o] \in 0..MaxChanges
  BY DEF Functions
<1>2. 1..born[o] \subseteq 1..MaxChanges
  BY <1>1, LimitsAreNat
<1>3. QED
  BY <1>2 DEF Own, Made, Resource

\* What goes into the id of a resolved object: a name of its parent's resource, or
\* what a user gave.
LEMMA ParamValue ==
  ASSUME Functions, NEW o \in Object, Faithful(o), Resolved(o), NEW q \in Param
  PROVE  \/ Params(o)[q] = Given
         \/ \E i \in DOMAIN Refs(o) :
              /\ Refs(o)[i][1] = q /\ Target[o][i] # None
              /\ \E y \in Own(Target[o][i]) : Params(o)[q] \in Names(y)
<1> DEFINE I == {i \in DOMAIN Refs(o) : Refs(o)[i][1] = q}
<1>1. CASE I = {}
  BY <1>1 DEF Params
<1>2. CASE I # {}
  <2>1. (CHOOSE i \in I : TRUE) \in I
    BY <1>2
  <2>2. Params(o)[q] = obj[o].vals[CHOOSE i \in I : TRUE]
    BY <1>2 DEF Params
  <2> HIDE DEF I
  <2>3. PICK i \in I : Params(o)[q] = obj[o].vals[i]
    BY <2>1, <2>2
  <2>4. i \in DOMAIN Refs(o) /\ Refs(o)[i][1] = q
    BY <2>3 DEF I
  <2>5. obj[o].vals[i] \in Declared("id", Target[o][i], born[Target[o][i]])
    BY <2>4, RefReads DEF Faithful, Resolved, Declares
  <2>6. CASE Target[o][i] = None
    BY <2>3, <2>5, <2>6 DEF Declared
  <2>7. CASE Target[o][i] # None
    BY <2>3, <2>4, <2>5, <2>7 DEF Declared, Own
  <2>8. QED
    BY <2>6, <2>7
<1>3. QED
  BY <1>1, <1>2

\* The project in a path is a project.
LEMMA LeafOfProject ==
  ASSUME Functions, NEW o \in Object, Faithful(o), Resolved(o)
  PROVE  \E p \in Projects : Leaves(o)["project_id"] = <<p>>
<1> DEFINE v == Params(o)["project_id"]
<1>1. "project_id" \in Param
  BY DEF Param
<1>2. Leaves(o)["project_id"] = <<v[Len(v)]>>
  BY <1>1 DEF Leaves
<1>3. CASE v = Given
  <2>1. v[Len(v)] = <<None, 0>>
    BY <1>3 DEF Given
  <2>2. QED
    BY <1>2, <2>1 DEF Projects
<1>4. CASE v # Given
  <2>1. PICK i \in DOMAIN Refs(o) :
          /\ Refs(o)[i][1] = "project_id" /\ Target[o][i] # None
          /\ \E y \in Own(Target[o][i]) : v \in Names(y)
    BY <1>1, <1>4, ParamValue
  <2>2. Target[o][i] \in Object /\ KindOf[Target[o][i]] = "project"
    <3>1. Target[o][i] \in Object
      BY <2>1, RefsAreSeq
    <3>2. KindOf[Target[o][i]] = Resolver[KindOf[o]][i][2]
      BY <2>1, TargetAssumption, RefsAreSeq
    <3>3. QED
      BY <2>1, <3>1, <3>2, RefReads DEF Refs
  <2>3. PICK y \in Own(Target[o][i]) : v \in Names(y)
    BY <2>1
  <2>4. y \in Resource /\ KindOf[y[1]] = "project"
    BY <2>2, <2>3, OwnIsResource
  <2> HIDE DEF v
  <2>5. v[Len(v)] = y
    BY <2>3, <2>4, NameFacts
  <2>6. QED
    BY <1>2, <2>4, <2>5 DEF Projects
<1>5. QED
  BY <1>3, <1>4

\* Whichever form of an id the provider stores, what is read from it names the
\* resource.
LEMMA NameRead ==
  ASSUME Inv, NEW o \in Object, Faithful(o), Resolved(o),
         NEW x \in Resource, x[1] = o, NEW id \in Ids(o, x)
  PROVE  GetExternalName(Config(o), id) \in Names(x)
<1>1. /\ KindOf[o] \in Kinds /\ x \in Segment
      /\ Config(o) = ExternalNameConfigs[KindOf[o]]
  <2>1. x \in (Object \cup {None}) \X (0..MaxChanges)
    BY LimitsAreNat DEF Resource
  <2>2. QED
    BY <2>1, KindOfAssumption, NameAssumption DEF Config, Segment
<1>2. <<x>> \in Names(x)
  BY DEF Names
<1>3. CASE id = <<x>>
  BY <1>1, <1>2, <1>3, LeafStaysLeaf
<1>4. CASE id = GetID(Config(o), <<x>>, Leaves(o)) /\ KindOf[o] \in ReversibleKinds
  <2>1. GetExternalName(Config(o), id) = <<x>>
    BY <1>1, <1>4, LeavesFlat, RoundTrip
  <2>2. QED
    BY <1>2, <2>1
<1>5. CASE id = GetID(Config(o), <<x>>, Leaves(o)) /\ KindOf[o] \notin ReversibleKinds
  <2>1. Config(o) = WithProjectID
    BY <1>1, <1>5, ReversibleConfigs
  <2>2. PICK p \in Projects : Leaves(o)["project_id"] = <<p>>
    BY LeafOfProject DEF Inv
  <2>3. id = (<<p>> \o <<x>>) \o <<>>
    <3>1. /\ Joined(WithProjectID.parents, Leaves(o)) = <<p>>
          /\ Joined(WithProjectID.suffix, Leaves(o)) = <<>>
      BY <2>2 DEF Joined, WithProjectID, IdentifierFromProvider
    <3>2. QED
      BY <1>5, <2>1, <3>1 DEF GetID
  <2>4. id = <<p, x>>
    <3> DEFINE s == <<p>> \o <<x>>
    <3>1. /\ <<p>> \in Seq({p, x}) /\ Len(<<p>>) = 1 /\ <<p>>[1] = p
          /\ <<x>> \in Seq({p, x}) /\ Len(<<x>>) = 1 /\ <<x>>[1] = x
      OBVIOUS
    <3>2. s \in Seq({p, x}) /\ Len(s) = 2 /\ s[1] = p /\ s[2] = x
      BY <3>1, ConcatProperties
    <3> HIDE DEF s
    <3>3. s = <<p, x>>
      BY <3>2
    <3>4. s \o <<>> = s
      BY <3>2, ConcatEmptySeq
    <3>5. QED
      BY <2>3, <3>3, <3>4 DEF s
  <2>5. GetExternalName(Config(o), id) = id
    BY <2>1 DEF GetExternalName, WithProjectID, IdentifierFromProvider
  <2>6. QED
    BY <1>5, <2>2, <2>4, <2>5 DEF Names, Paths
<1>6. QED
  BY <1>3, <1>4, <1>5 DEF Ids

\* What Create and Observe write as the name.
LEMMA NameCreated ==
  ASSUME Inv, NEW o \in Object, Says(o), Create(o)
  PROVE  /\ <<o, born[o] + 1>> \in Resource
         /\ \E name \in Names(<<o, born[o] + 1>>) :
              obj' = [obj EXCEPT ![o].name = name]
<1> DEFINE x == <<o, born[o] + 1>>
<1>1. x \in Resource /\ x[1] = o
  <2>1. born[o] \in 0..MaxChanges /\ born[o] < MaxChanges
    BY DEF Inv, Functions, Create
  <2>2. born[o] + 1 \in 1..MaxChanges
    BY <2>1, LimitsAreNat
  <2>3. QED
    BY <2>2 DEF Resource
<1>2. PICK id \in Ids(o, x) :
        obj' = [obj EXCEPT ![o].name = GetExternalName(Config(o), id)]
  BY DEF Create
<1>3. Faithful(o) /\ Resolved(o)
  BY DEF Says, Inv, At, Create
<1> HIDE DEF x
<1>4. GetExternalName(Config(o), id) \in Names(x)
  BY <1>1, <1>3, NameRead
<1>5. QED
  BY <1>1, <1>2, <1>4 DEF x

LEMMA NameObserved ==
  ASSUME Inv, NEW o \in Object, Says(o), Observe(o)
  PROVE  \E x \in Own(o) : \E name \in Names(x) :
           /\ obj[o].name \in Names(x)
           /\ obj' = [obj EXCEPT ![o].name = name, ![o].uri = Uri(x)]
<1>1. PICK x \in live :
        /\ obj[o].name \in Names(x)
        /\ \E name \in {obj[o].name} \cup
             {GetExternalName(Config(o), id) :
                id \in Ids(o, x) \cap {GetID(Config(o), obj[o].name, Params(o))}} :
             obj' = [obj EXCEPT ![o].name = name, ![o].uri = Uri(x)]
  BY DEF Observe
<1>2. x \in Resource
  BY DEF Inv, Functions
<1>3. Faithful(o) /\ Resolved(o)
  BY DEF Says, Inv, At, Observe
<1>4. x \in Own(o) /\ x[1] = o
  <2>1. PICK y \in Own(o) : obj[o].name \in Names(y)
    BY <1>1, <1>2, <1>3, NameFacts DEF Faithful
  <2>2. y \in Resource /\ y[1] = o
    BY OwnIsResource DEF Inv
  <2>3. x = y
    BY <1>1, <1>2, <2>1, <2>2, NamesDiffer
  <2>4. QED
    BY <2>2, <2>3
<1> DEFINE read == {GetExternalName(Config(o), id) : id \in Ids(o, x)}
<1>5. read \subseteq Names(x)
  BY <1>2, <1>3, <1>4, NameRead
<1>6. PICK name \in {obj[o].name} \cup read :
        obj' = [obj EXCEPT ![o].name = name, ![o].uri = Uri(x)]
  BY <1>1
<1> HIDE DEF read
<1>7. name \in Names(x)
  BY <1>1, <1>5, <1>6
<1>8. QED
  BY <1>1, <1>4, <1>6, <1>7

LEMMA MoreKept ==
  ASSUME More, Inv', Grows, NEW o \in Object, NEW s, NEW b, Says(o)',
         step' \in {step, [step EXCEPT ![o] = s]},
         buf' \in {buf, [buf EXCEPT ![o] = b]},
         \A p \in Object \ {o} : obj'[p] = obj[p],
         UNCHANGED <<uses, built>>,
         changes' \in 0..MaxChanges, failures' \in 0..MaxFailures
  PROVE  More'
<1>1. At(o)' /\ Types
  BY DEF Inv, More
<1>2. step' \in [Object -> Steps]
  <2>1. step'[o] \in Steps
    BY <1>1 DEF At, Typed
  <2>2. QED
    BY <1>1, <2>1 DEF Types
<1>3. buf' \in [Object -> Seq(Str)]
  <2>1. buf'[o] \in Seq(Filled)
    BY <1>1 DEF At, Typed
  <2>2. buf'[o] \in Seq(Str)
    BY <2>1, SeqMonotonic DEF Filled
  <2>3. QED
    BY <1>1, <2>2 DEF Types
<1>4. ASSUME NEW p \in Object, p # o PROVE Says(p)'
  <2>1. Says(p) /\ obj'[p] = obj[p] /\ built'[p] = built[p]
    BY <1>4 DEF More
  <2>2. step'[p] = step[p] /\ buf'[p] = buf[p] /\ buf[p] \in Seq(Str)
    BY <1>1, <1>4 DEF Types
  <2>3. QED
    BY <2>1, <2>2, SayKept
<1>5. QED
  BY <1>1, <1>2, <1>3, <1>4 DEF More, Types

\* A reconcile that ends keeps what the object says.
LEMMA IdleSays ==
  ASSUME More, Inv, Grows, NEW o \in Object, Idle(o), obj' = obj, built' = built
  PROVE  Says(o)'
<1>1. step'[o] = "idle" /\ buf'[o] = <<>>
  BY DEF Idle, Enter, Inv, Functions
<1>2. Params(o)' = Params(o) /\ Says(o) /\ buf[o] \in Seq(Str)
  BY ParamsKept DEF More, Types
<1>3. Faithful(o)'
  BY <1>1, <1>2, FaithfulKept DEF Says
<1>4. QED
  BY <1>1, <1>2, <1>3 DEF Says, Frozen, Built, Builds

LEMMA IdleMore ==
  ASSUME More, Inv, Inv', Grows, NEW o \in Object, Idle(o),
         UNCHANGED <<obj, uses, built>>, changes' = changes, failures' \in 0..MaxFailures
  PROVE  More'
<1>1. Says(o)'
  BY IdleSays
<1>2. QED
  BY <1>1, MoreKept DEF Idle, Enter, More, Types

\* An object that is new, or gone, says nothing.
LEMMA NewSays ==
  ASSUME More, Grows, NEW o \in Object, obj'[o] \in {NewObject(o), Absent(o)},
         buf'[o] \in {buf[o], <<>>}, step'[o] \in {"idle", "stale"},
         step'[o] = "idle" => buf'[o] = <<>>
  PROVE  Says(o)'
<1>1. Says(o)
  BY DEF More
<1>2. /\ obj'[o].name = EmptyStr /\ obj'[o].uri = EmptyStr
      /\ obj'[o].vals = [i \in DOMAIN Refs(o) |-> IF Target[o][i] = None
                                                  THEN Given ELSE EmptyStr]
  <2>1. CASE obj'[o] = NewObject(o)
    BY <2>1 DEF NewObject
  <2>2. CASE obj'[o] = Absent(o)
    BY <2>2 DEF NewObject, Absent
  <2>3. QED
    BY <2>1, <2>2
<1>3. \A i \in DOMAIN Refs(o) : obj'[o].vals[i] \in {EmptyStr} \cup Declares(o, i)'
  BY <1>2 DEF Declares, Declared
<1>4. Len(<<>>) = 0 /\ DOMAIN <<>> = {} /\ Len(Refs(o)) \in Nat
  BY RefsAreSeq
<1>5. /\ Len(buf'[o]) <= Len(Refs(o))
      /\ \A i \in DOMAIN buf'[o] : i \in DOMAIN Refs(o) /\ buf'[o][i] \in Declares(o, i)
  <2>1. buf[o] \in Seq(Str)
    BY DEF More, Types
  <2>2. \A i \in DOMAIN buf[o] : i \in DOMAIN Refs(o)
    BY <1>1, <2>1, RefsAreSeq DEF Says, Faithful
  <2>3. QED
    BY <1>1, <1>4, <2>2 DEF Says, Faithful
<1>6. Faithful(o)'
  BY <1>2, <1>3, <1>5, DeclaresGrow DEF Faithful
<1>7. QED
  BY <1>2, <1>6 DEF Says, Frozen, Built

LEMMA UsersSay ==
  ASSUME More, Inv, Inv', NEW o \in Object, CreateObject(o) \/ DeleteObject(o)
  PROVE  More'
<1>1. /\ At(o) /\ Functions /\ Says(o) /\ changes' \in 0..MaxChanges /\ Types
      /\ Grows /\ buf[o] \in Seq(Str)
  BY LimitsAreNat DEF Inv, More, Types, CreateObject, DeleteObject, Grows, cloud
<1>2. CASE CreateObject(o)
  <2>1. obj'[o] = NewObject(o) /\ UNCHANGED <<step, buf>>
    BY <1>1, <1>2 DEF CreateObject, Functions
  <2>2. step[o] \in {"idle", "stale"}
    BY <1>1, <1>2 DEF CreateObject, At, NoGhost
  <2>3. Says(o)'
    BY <1>1, <2>1, <2>2, NewSays DEF Says, Frozen
  <2>4. QED
    BY <1>1, <1>2, <2>3, MoreKept DEF CreateObject, cloud, Types, Functions
<1>3. CASE DeleteObject(o) /\ obj[o].finalizer
  <2>1. /\ UNCHANGED <<step, buf, built>>
        /\ obj'[o].vals = obj[o].vals /\ obj'[o].name = obj[o].name
        /\ obj'[o].uri = obj[o].uri /\ obj'[o].finalizer = obj[o].finalizer
    <3>1. PICK keep \in BOOLEAN :
            obj' = [obj EXCEPT ![o].deleting = TRUE, ![o].keep = keep]
      BY <1>3 DEF DeleteObject
    <3>2. obj'[o] = [obj[o] EXCEPT !.deleting = TRUE, !.keep = keep]
      BY <1>1, <3>1 DEF Functions
    <3>3. QED
      BY <1>1, <1>3, <3>2 DEF DeleteObject, cloud, At, Typed, ObjectType
  <2>2. Params(o)' = Params(o)
    BY <2>1, ParamsKept
  <2>3. Says(o)'
    BY <1>1, <2>1, <2>2, FaithfulKept DEF Says, Frozen, Built, Builds
  <2>4. QED
    BY <1>1, <1>3, <2>3, MoreKept DEF DeleteObject, cloud, Types, Functions
<1>4. CASE DeleteObject(o) /\ ~obj[o].finalizer
  <2>1. /\ obj'[o] = Absent(o) /\ buf' = buf
        /\ step'[o] = IF step[o] = "idle" THEN "idle" ELSE "stale"
    BY <1>1, <1>4 DEF DeleteObject, Functions
  <2>2. Says(o)'
    BY <1>1, <2>1, NewSays DEF Says, Frozen
  <2>3. QED
    BY <1>1, <1>4, <2>2, MoreKept DEF DeleteObject, cloud, Types, Functions
<1>5. QED
  BY <1>2, <1>3, <1>4

\* What a reference is given is what it declares, and what the field already has.
LEMMA ValueDeclared ==
  ASSUME More, Inv, NEW o \in Object, NEW i \in DOMAIN Refs(o), Value(o, i) # EmptyStr
  PROVE  Value(o, i) \in Declares(o, i)
<1>1. Says(o) /\ At(o)
  BY DEF More, Inv
<1>2. CASE obj[o].vals[i] # EmptyStr
  BY <1>1, <1>2 DEF Says, Faithful, Value
<1>3. CASE obj[o].vals[i] = EmptyStr
  <2> DEFINE t == Target[o][i]
  <2>1. t \in Object /\ t # None
    BY <1>1, <1>3, RefsAreSeq, NoneIsNoObject DEF At, HasTarget
  <2>2. Says(t)
    BY <2>1 DEF More
  <2>3. Value(o, i) = Extract(t, Refs(o)[i]) /\ Present(t)
    BY <1>3 DEF Value, Extract
  <2>4. QED
    BY <2>1, <2>2, <2>3, RefReads
       DEF Extract, Declares, Declared, Says, Faithful, Own
<1>4. QED
  BY <1>2, <1>3

LEMMA ResolutionSays ==
  ASSUME More, Inv, Inv', NEW o \in Object,
         Start(o) \/ Resolve(o) \/ ResolveFails(o) \/ WriteResolved(o)
  PROVE  More'
<1>1. /\ At(o) /\ Functions /\ Says(o) /\ Types
      /\ UNCHANGED <<uses, built, born, changes, failures>>
      /\ Grows /\ buf[o] \in Seq(Str)
  BY DEF Inv, More, Types, Start, Resolve, ResolveFails, WriteResolved, cloud, bounds,
         Grows
<1>2. CASE Start(o)
  <2>1. /\ UNCHANGED <<obj, buf>> /\ step'[o] \in {"connect", "resolve"}
        /\ step[o] = "idle"
    BY <1>1, <1>2 DEF Start, Enter, Functions
  <2>2. Params(o)' = Params(o) /\ DOMAIN <<>> = {}
    BY <2>1, ParamsKept
  <2>3. Says(o)'
    BY <1>1, <2>1, <2>2, FaithfulKept DEF Says, Frozen, Built, Builds
  <2>4. QED
    BY <1>1, <1>2, <2>3, MoreKept DEF Start, Enter, Types
<1>3. CASE Resolve(o)
  <2> DEFINE n == Len(buf[o]) + 1
             v == Value(o, n)
  <2>1. buf[o] \in Seq(Filled) /\ Len(buf[o]) < Len(Refs(o)) /\ v # EmptyStr
    BY <1>1, <1>3 DEF Resolve, Resolving, At, Typed
  <2>2. n \in DOMAIN Refs(o)
    BY <2>1, RefsAreSeq
  <2>3. v \in Declares(o, n) /\ (obj[o].vals[n] # EmptyStr => v = obj[o].vals[n])
    BY <2>1, <2>2, ValueDeclared DEF Value
  <2>4. v \in Filled
    BY <2>1, <2>2, ValueTyped DEF Filled
  <2> HIDE DEF v
  <2>5. buf'[o] = Append(buf[o], v) /\ UNCHANGED <<obj, step>> /\ step[o] = "resolve"
    BY <1>1, <1>3 DEF Resolve, Resolving, v, Functions
  <2>6. /\ DOMAIN Append(buf[o], v) = 1..n /\ Len(Append(buf[o], v)) = n
        /\ DOMAIN buf[o] = 1..Len(buf[o]) /\ Len(buf[o]) \in Nat
        /\ Append(buf[o], v)[n] = v
        /\ \A i \in 1..Len(buf[o]) : Append(buf[o], v)[i] = buf[o][i]
    BY <2>1, <2>4
  <2>7. Faithful(o)'
    <3>1. Len(buf'[o]) <= Len(Refs(o))
      BY <2>1, <2>5, <2>6, RefsAreSeq
    <3>2. \A i \in DOMAIN buf'[o] : buf'[o][i] \in Declares(o, i)
      BY <1>1, <2>3, <2>5, <2>6 DEF Says, Faithful
    <3>3. DOMAIN buf'[o] \subseteq DOMAIN Refs(o)
      BY <2>2, <2>5, <2>6, RefsAreSeq
    <3>4. QED
      BY <1>1, <2>5, <3>1, <3>2, <3>3, DeclaresGrow DEF Says, Faithful
  <2>8. Frozen(o)'
    BY <1>1, <2>3, <2>5, <2>6 DEF Says, Frozen
  <2>9. Params(o)' = Params(o)
    BY <2>5, ParamsKept
  <2>10. Built(o)'
    BY <1>1, <2>5, <2>9 DEF Says, Built, Builds
  <2>11. QED
    BY <1>1, <1>3, <2>7, <2>8, <2>10, MoreKept DEF Resolve, Says, Types
<1>4. CASE ResolveFails(o)
  BY <1>1, <1>4, IdleMore DEF ResolveFails, Types
<1>5. CASE WriteResolved(o)
  <2>1. /\ obj'[o] = [obj[o] EXCEPT !.vals = buf[o]]
        /\ step'[o] = "connect" /\ buf'[o] = <<>>
    BY <1>1, <1>5 DEF WriteResolved, Enter, Functions
  <2>2. Len(buf[o]) = Len(Refs(o)) /\ buf[o] \in Seq(Filled) /\ step[o] = "resolve"
    BY <1>1, <1>5 DEF WriteResolved, At, Typed
  <2>3. DOMAIN buf[o] = DOMAIN Refs(o) /\ buf[o] \in [DOMAIN Refs(o) -> Filled]
    BY <2>2, RefsAreSeq
  <2>4. /\ obj'[o].vals = buf[o] /\ obj'[o].name = obj[o].name
        /\ obj'[o].uri = obj[o].uri /\ obj'[o].finalizer = obj[o].finalizer
    BY <1>1, <2>1 DEF At, Typed, ObjectType
  <2>5. Len(<<>>) = 0 /\ DOMAIN <<>> = {} /\ Len(Refs(o)) \in Nat
    BY RefsAreSeq
  <2>6. Faithful(o)'
    BY <1>1, <2>1, <2>3, <2>4, <2>5, DeclaresGrow DEF Says, Faithful
  \* A second resolution writes what is there already.
  <2>7. obj[o].name # EmptyStr => obj'[o].vals = obj[o].vals
    <3>1. SUFFICES ASSUME obj[o].name # EmptyStr PROVE buf[o] = obj[o].vals
      BY <2>4
    <3>2. obj[o].vals \in [DOMAIN Refs(o) -> Str]
      BY <1>1 DEF At, Typed, ObjectType
    <3>3. \A i \in DOMAIN Refs(o) : buf[o][i] = obj[o].vals[i]
      BY <1>1, <2>2, <2>3, <3>1 DEF Says, Built, Frozen, At, Resolved
    <3>4. QED
      BY <2>3, <3>2, <3>3
  <2>8. Built(o)'
    BY <1>1, <2>4, <2>7, ParamsKept DEF Says, Built, Builds
  <2>9. Says(o)'
    BY <2>1, <2>6, <2>8 DEF Says, Frozen
  <2>10. QED
    BY <1>1, <1>5, <2>9, MoreKept DEF WriteResolved, Enter, Types, Functions
<1>6. QED
  BY <1>2, <1>3, <1>4, <1>5

\* The creation writes the name and, as history, the id that is built from it.
LEMMA CreateSays ==
  ASSUME More, Inv, Inv', NEW o \in Object, Create(o)
  PROVE  More'
<1> DEFINE x == <<o, born[o] + 1>>
<1>1. At(o) /\ Functions /\ Says(o) /\ Types
  BY DEF Inv, More
<1>2. x \in Own(o)' /\ x \in Resource /\ Grows /\ buf[o] \in Seq(Str)
  <2>1. born' = [born EXCEPT ![o] = @ + 1] /\ born[o] < MaxChanges
    BY DEF Create
  <2>2. QED
    BY <1>1, <2>1, LimitsAreNat DEF Own, Made, Resource, Functions, Grows, Types
<1>3. PICK name \in Names(x) : obj' = [obj EXCEPT ![o].name = name]
  BY <1>1, NameCreated
<1>4. /\ obj'[o] = [obj[o] EXCEPT !.name = name]
      /\ built' = [built EXCEPT ![o] = GetID(Config(o), <<x>>, Params(o))]
      /\ step'[o] = "idle" /\ buf'[o] = <<>> /\ obj[o].finalizer
  BY <1>1, <1>3 DEF Create, Idle, Enter, Functions
<1>5. /\ obj'[o].vals = obj[o].vals /\ obj'[o].name = name
      /\ obj'[o].uri = obj[o].uri /\ obj'[o].finalizer = obj[o].finalizer
  BY <1>1, <1>4 DEF At, Typed, ObjectType
<1> HIDE DEF x
<1>6. GetID(Config(o), <<x>>, Params(o)) \in Str
  <2>1. Params(o) \in [Param -> Str] /\ <<x>> \in Str /\ KindOf[o] \in Kinds
    BY <1>2, ParamsAreStr, StrFacts, KindOfAssumption
  <2>2. QED
    BY <2>1, GetIDIsStr DEF Config
<1>7. Params(o)' = Params(o) /\ built'[o] = GetID(Config(o), <<x>>, Params(o))
  BY <1>1, <1>4, <1>5, ParamsKept DEF Types
<1>8. Len(<<>>) = 0 /\ DOMAIN <<>> = {} /\ Len(Refs(o)) \in Nat
  BY RefsAreSeq
<1>9. Faithful(o)'
  <2>1. obj'[o].name \in UNION {Names(y) : y \in Own(o)'}
    BY <1>2, <1>5
  <2>2. QED
    BY <1>1, <1>2, <1>4, <1>5, <1>8, <2>1, DeclaresGrow DEF Says, Faithful
<1>10. Says(o)'
  <2>1. \A y \in Resource : name \in Names(y) => y = x
    BY <1>2, NamesDiffer
  <2>2. Builds(o)'
    BY <1>5, <1>7, <2>1 DEF Builds
  <2>3. QED
    BY <1>4, <1>5, <1>9, <2>2 DEF Says, Frozen, Built
<1>11. ASSUME NEW p \in Object, p # o PROVE Says(p)'
  <2>1. /\ Says(p) /\ obj'[p] = obj[p] /\ step'[p] = step[p] /\ buf'[p] = buf[p]
        /\ built'[p] = built[p] /\ buf[p] \in Seq(Str)
    BY <1>1, <1>3, <1>4, <1>11 DEF More, Create, Idle, Enter, Functions, Types
  <2>2. QED
    BY <1>2, <2>1, SayKept
<1>12. uses' \subseteq Resource \X Resource
  <2>1. \A v : Named(v) \subseteq Resource
    BY <1>1 DEF Named, Functions
  <2>2. uses' \subseteq uses \cup ({x} \X UNION {Named(obj[o].vals[i]) : i \in DOMAIN Refs(o)})
    BY DEF Create, x
  <2>3. UNION {Named(obj[o].vals[i]) : i \in DOMAIN Refs(o)} \subseteq Resource
    BY <2>1
  <2>4. QED
    BY <1>1, <1>2, <2>2, <2>3 DEF Types
<1>13. Types'
  <2>1. step' \in [Object -> Steps]
    BY <1>1 DEF Create, Idle, Enter, Types, Steps
  <2>2. buf' \in [Object -> Seq(Str)]
    <3>1. <<>> \in Seq(Str)
      OBVIOUS
    <3>2. QED
      BY <1>1, <3>1 DEF Create, Idle, Types
  <2>3. built' \in [Object -> Str]
    BY <1>1, <1>4, <1>6 DEF Types
  <2>4. QED
    BY <1>1, <1>12, <2>1, <2>2, <2>3 DEF Types, Create, bounds
<1>14. QED
  BY <1>10, <1>11, <1>13 DEF More

LEMMA ReconcileSays ==
  ASSUME More, Inv, Inv', NEW o \in Object,
         \/ Connect(o) \/ AddFinalizer(o) \/ Create(o) \/ Observe(o)
         \/ Destroy(o) \/ Release(o) \/ GiveUp(o) \/ Fail(o)
  PROVE  More'
<1>1. /\ At(o) /\ Functions /\ Says(o) /\ Types /\ obj[o] \in ObjectType(o)
      /\ buf[o] \in Seq(Str)
      /\ \/ Connect(o) \/ AddFinalizer(o) \/ Observe(o) \/ Destroy(o) \/ Release(o)
         \/ GiveUp(o) \/ Fail(o)
         => Grows
  BY DEF Inv, More, Types, At, Typed, Connect, AddFinalizer, Observe, Destroy, Release,
         GiveUp, Fail, cloud, Grows
<1>2. CASE Connect(o)
  <2>1. CASE CanGetID(Config(o), Params(o))
    <3>1. UNCHANGED <<obj, buf, cloud, bounds>> /\ step'[o] = "act"
      BY <1>1, <1>2, <2>1 DEF Connect, Enter, Functions
    <3>2. Says(o)'
      BY <1>1, <1>2, <3>1, ParamsKept, FaithfulKept DEF Says, Frozen, Built, Builds, cloud
    <3>3. QED
      BY <1>1, <1>2, <2>1, <3>1, <3>2, MoreKept DEF Connect, Enter, cloud, bounds, Types
  <2>2. CASE ~CanGetID(Config(o), Params(o))
    BY <1>1, <1>2, <2>2, IdleMore DEF Connect, cloud, bounds, Types
  <2>3. QED
    BY <2>1, <2>2
<1>3. CASE AddFinalizer(o)
  <2>1. obj'[o] = [obj[o] EXCEPT !.finalizer = TRUE] /\ UNCHANGED <<step, buf, built>>
    BY <1>1, <1>3 DEF AddFinalizer, Functions, cloud
  <2>2. /\ obj'[o].vals = obj[o].vals /\ obj'[o].name = obj[o].name
        /\ obj'[o].uri = obj[o].uri /\ obj'[o].finalizer
    BY <1>1, <2>1 DEF ObjectType
  <2>3. Says(o)'
    BY <1>1, <1>3, <2>1, <2>2, ParamsKept, FaithfulKept DEF Says, Frozen, Built, Builds
  <2>4. QED
    BY <1>1, <1>3, <2>3, MoreKept DEF AddFinalizer, cloud, bounds, Types
<1>4. CASE Observe(o)
  <2>1. PICK x \in Own(o) : \E name \in Names(x) :
          /\ obj[o].name \in Names(x)
          /\ obj' = [obj EXCEPT ![o].name = name, ![o].uri = Uri(x)]
    BY <1>1, <1>4, NameObserved
  <2>2. PICK name \in Names(x) : obj' = [obj EXCEPT ![o].name = name, ![o].uri = Uri(x)]
    BY <2>1
  <2>3. /\ obj'[o].vals = obj[o].vals /\ obj'[o].name = name
        /\ obj'[o].uri = Uri(x) /\ obj'[o].finalizer = obj[o].finalizer
    <3>1. obj'[o] = [obj[o] EXCEPT !.name = name, !.uri = Uri(x)]
      BY <1>1, <2>2 DEF Functions
    <3>2. QED
      BY <1>1, <3>1 DEF ObjectType
  <2>4. /\ x \in Resource /\ obj[o].name # EmptyStr
        /\ \A y \in Resource : name \in Names(y) => y = x
    BY <1>1, <2>1, OwnIsResource, NameFacts, NamesDiffer
  <2>5. step'[o] = "idle" /\ buf'[o] = <<>> /\ UNCHANGED built
    BY <1>1, <1>4 DEF Observe, Idle, Enter, Functions, cloud
  <2>6. Len(<<>>) = 0 /\ DOMAIN <<>> = {} /\ Len(Refs(o)) \in Nat
    BY RefsAreSeq
  <2>7. Says(o)'
    <3>1. Faithful(o)'
      <4>1. /\ obj'[o].name \in UNION {Names(y) : y \in Own(o)}
            /\ obj'[o].uri \in {Uri(y) : y \in Own(o)}
        BY <2>2, <2>3
      <4>2. Own(o) \subseteq Own(o)'
        BY <1>1, <1>4, DeclaresGrow
      <4>3. /\ obj'[o].name \in UNION {Names(y) : y \in Own(o)'}
            /\ obj'[o].uri \in {Uri(y) : y \in Own(o)'}
        BY <4>1, <4>2
      <4>4. \A i \in DOMAIN Refs(o) :
              obj'[o].vals[i] \in {EmptyStr} \cup Declares(o, i)'
        BY <1>1, <1>4, <2>3, DeclaresGrow DEF Says, Faithful
      <4>5. QED
        BY <2>5, <2>6, <4>3, <4>4 DEF Faithful
    <3>2. GetID(Config(o), <<x>>, Params(o)) = built[o]
      BY <1>1, <2>1, <2>4 DEF Says, Built, Builds
    <3>3. Builds(o)'
      BY <2>3, <2>4, <2>5, <3>2, ParamsKept DEF Builds
    <3>4. QED
      BY <1>1, <2>3, <2>4, <2>5, <3>1, <3>3 DEF Says, Frozen, Built
  <2>8. /\ \A p \in Object \ {o} : obj'[p] = obj[p]
        /\ step' = [step EXCEPT ![o] = "idle"] /\ buf' = [buf EXCEPT ![o] = <<>>]
        /\ UNCHANGED <<uses, built>>
    BY <1>1, <1>4, <2>2 DEF Observe, Idle, Enter, cloud, Functions
  <2>9. changes' \in 0..MaxChanges /\ failures' \in 0..MaxFailures
    BY <1>1, <1>4 DEF Observe, bounds, Types
  <2>10. QED
    BY <1>1, <1>4, <2>7, <2>8, <2>9, MoreKept
<1>5. CASE Destroy(o)
  <2>1. Idle(o) /\ UNCHANGED <<obj, uses, built>>
    BY <1>5 DEF Destroy
  <2>2. changes' = changes /\ failures' \in 0..MaxFailures
    BY <1>1, <1>5 DEF Destroy, bounds, Types
  <2>3. QED
    BY <1>1, <1>5, <2>1, <2>2, IdleMore
<1>6. CASE GiveUp(o)
  <2>1. Idle(o) /\ UNCHANGED <<obj, uses, built>>
    BY <1>6 DEF GiveUp, cloud
  <2>2. changes' = changes /\ failures' \in 0..MaxFailures
    BY <1>1, <1>6 DEF GiveUp, bounds, Types
  <2>3. QED
    BY <1>1, <1>6, <2>1, <2>2, IdleMore
<1>7. CASE Fail(o)
  <2>1. Idle(o) /\ UNCHANGED <<obj, uses, built>>
    BY <1>7 DEF Fail, cloud
  <2>2. changes' = changes /\ failures' \in 0..MaxFailures
    BY <1>1, <1>7, LimitsAreNat DEF Fail, Types
  <2>3. QED
    BY <1>1, <1>7, <2>1, <2>2, IdleMore
<1>8. CASE Release(o)
  <2>1. obj'[o] = Absent(o) /\ step'[o] = "idle" /\ buf'[o] = <<>>
    BY <1>1, <1>8 DEF Release, Idle, Enter, Functions
  <2>2. Says(o)'
    BY <1>1, <1>8, <2>1, NewSays
  <2>3. /\ \A p \in Object \ {o} : obj'[p] = obj[p]
        /\ step' = [step EXCEPT ![o] = "idle"] /\ buf' = [buf EXCEPT ![o] = <<>>]
        /\ UNCHANGED <<uses, built>>
    BY <1>1, <1>8 DEF Release, Idle, Enter, cloud, Functions
  <2>4. changes' \in 0..MaxChanges /\ failures' \in 0..MaxFailures
    BY <1>1, <1>8 DEF Release, bounds, Types
  <2>5. QED
    BY <1>1, <1>8, <2>2, <2>3, <2>4, MoreKept
<1>9. QED
  BY <1>2, <1>3, <1>4, <1>5, <1>6, <1>7, <1>8, CreateSays

LEMMA InitMore == Init => More
<1> SUFFICES ASSUME Init PROVE More
  OBVIOUS
<1>1. Types
  <2>1. <<>> \in Seq(Str) /\ EmptyStr \in Str
    BY StrFacts
  <2>2. QED
    BY <2>1, LimitsAreNat DEF Init, Types, Steps
<1>2. ASSUME NEW o \in Object PROVE Says(o)
  <2>1. /\ obj[o].name = EmptyStr /\ obj[o].uri = EmptyStr
        /\ obj[o].vals = [i \in DOMAIN Refs(o) |-> IF Target[o][i] = None
                                                   THEN Given ELSE EmptyStr]
        /\ buf[o] = <<>> /\ step[o] = "idle"
    BY DEF Init, Absent, NewObject
  <2>2. Len(<<>>) = 0 /\ DOMAIN <<>> = {} /\ Len(Refs(o)) \in Nat
    BY RefsAreSeq
  <2>3. QED
    BY <2>1, <2>2 DEF Says, Faithful, Frozen, Built, Declares, Declared
<1>3. QED
  BY <1>1, <1>2 DEF More

LEMMA NextMore == More /\ Inv /\ Inv' /\ [Next]_vars => More'
<1> SUFFICES ASSUME More, Inv, Inv', [Next]_vars PROVE More'
  OBVIOUS
<1>1. CASE UNCHANGED vars
  <2>1. Grows /\ UNCHANGED <<obj, step, buf, uses, built, changes, failures>>
    BY <1>1 DEF vars, cloud, bounds, Grows
  <2>2. \A o \in Object : Says(o)'
    BY <2>1, SayKept DEF More, Types
  <2>3. QED
    BY <2>1, <2>2 DEF More, Types
<1>2. ASSUME NEW o \in Object, Work(o) PROVE More'
  BY <1>2, ResolutionSays, ReconcileSays DEF Work
<1>3. QED
  BY <1>1, <1>2, UsersSay, ReconcileSays DEF Next

LEMMA AlwaysMore == Spec => [](Inv /\ More)
BY InitInv, NextInv, InitMore, NextMore, PTL DEF Spec

\* Type correctness: every value a worker writes into a field, a name or a URI is a
\* string of the right kind, and no run resolves more than the references there are.
THEOREM ReferencesTypeOK == Spec => []TypeOK
<1>1. Inv /\ More => TypeOK
  <2> SUFFICES ASSUME Inv, More PROVE TypeOK
    OBVIOUS
  <2>1. \A o \in Object : obj[o] \in ObjectType(o) /\ Len(buf[o]) <= Len(Refs(o))
    BY DEF Inv, At, Typed, More, Says, Faithful
  <2>2. QED
    BY <2>1 DEF Inv, Functions, More, Types, Steps, TypeOK
<1>2. QED
  BY <1>1, AlwaysMore, PTL

LEMMA HasBuilt ==
  ASSUME Inv, More, NEW o \in Object, NEW x \in live, obj[o].name \in Names(x)
  PROVE  /\ x \in Resource /\ x[1] = o /\ Faithful(o) /\ Resolved(o)
         /\ GetID(Config(o), <<x>>, Params(o)) = built[o]
<1>1. x \in Resource /\ Says(o) /\ At(o)
  BY DEF Inv, Functions, More
<1>2. obj[o].name # EmptyStr
  BY <1>1, NameFacts
<1>3. PICK y \in Own(o) : obj[o].name \in Names(y)
  BY <1>1, <1>2 DEF Says, Faithful
<1>4. y \in Resource /\ y[1] = o
  BY OwnIsResource DEF Inv
<1>5. y = x
  BY <1>1, <1>3, <1>4, NamesDiffer
<1>6. QED
  BY <1>1, <1>2, <1>4, <1>5 DEF Says, Built, Builds, At

\* The Terraform id of a resource names the parents it was created under for as long
\* as the resource exists, whatever becomes of the parents' objects.
THEOREM IdsKeepParents == Spec => []IdKeepsParents
<1>1. Inv /\ More => IdKeepsParents
  BY HasBuilt DEF IdKeepsParents
<1>2. QED
  BY <1>1, AlwaysMore, PTL

\* Whatever may be created holds, in every field configure.go declares, what it
\* declares of the object the field refers to: the id, the URI or the name.
THEOREM FieldsAlwaysAsConfigured == Spec => []FieldsAsConfigured
<1>1. Inv /\ More => FieldsAsConfigured
  <2> SUFFICES ASSUME Inv, More, NEW o \in Object, obj[o].finalizer,
                      NEW r \in Configured[KindOf[o]]
               PROVE  \E i \in DOMAIN Refs(o) :
                        /\ Refs(o)[i][1] = r[1]
                        /\ obj[o].vals[i]
                             \in Declared(r[3], Target[o][i], born[Target[o][i]])
    BY DEF FieldsAsConfigured
  <2>1. PICK i \in DOMAIN Refs(o) : Refs(o)[i] = r
    BY KindOfAssumption, RefsAsConfigured DEF RefsOf, Refs
  <2>2. obj[o].vals[i] # EmptyStr
    BY DEF Inv, At, Resolved
  <2>3. obj[o].vals[i] \in {EmptyStr} \cup Declares(o, i)
    BY DEF More, Says, Faithful
  <2>4. QED
    BY <2>1, <2>2, <2>3 DEF Declares
<1>2. QED
  BY <1>1, AlwaysMore, PTL

-------------------------------------------------------------------------------
(* The resolutions implement BindingContract: the last write of each binds, its *)
(* reads and its failures are stuttering steps.                                 *)

PhaseOf(o) == IF Present(o) /\ obj[o].deleting THEN "deleting" ELSE obj[o].phase
IsNamed(o) == obj[o].name # EmptyStr

Phase  == [o \in Object |-> PhaseOf(o)]
Bound  == [o \in Object |-> obj[o].vals]
HasName == [o \in Object |-> IsNamed(o)]
Fresh  == [o \in Object |-> Absent(o).vals]
Offers == [o \in Object |-> [i \in DOMAIN Refs(o) |-> [n \in 0..MaxChanges |->
             Declared(Refs(o)[i][3], Target[o][i], n)]]]

BindingStep == Binding!Next \/ UNCHANGED <<Phase, Bound, HasName, born>>

\* A step of one object is a step of one binding.
LEMMA OneBinding ==
  ASSUME Inv, Inv', NEW o \in Object, \A p \in Object \ {o} : obj'[p] = obj[p]
  PROVE  /\ Phase' = [Phase EXCEPT ![o] = PhaseOf(o)']
         /\ Bound' = [Bound EXCEPT ![o] = obj'[o].vals]
         /\ HasName' = [HasName EXCEPT ![o] = IsNamed(o)']
BY DEF Phase, PhaseOf, Present, Bound, HasName, IsNamed

LEMMA SameBinding ==
  ASSUME Inv, Inv', NEW o \in Object, \A p \in Object \ {o} : obj'[p] = obj[p],
         obj'[o].phase = obj[o].phase, obj'[o].deleting = obj[o].deleting,
         obj'[o].vals = obj[o].vals, IsNamed(o)' = IsNamed(o), born' = born
  PROVE  BindingStep
<1>1. ASSUME NEW p \in Object
      PROVE  /\ PhaseOf(p)' = PhaseOf(p) /\ IsNamed(p)' = IsNamed(p)
             /\ obj'[p].vals = obj[p].vals
  BY DEF PhaseOf, IsNamed, Present
<1>2. QED
  BY <1>1 DEF BindingStep, Phase, Bound, HasName

\* What an object is while it is not there, and when it appears.
LEMMA FreshIs ==
  ASSUME NEW o \in Object
  PROVE  /\ Absent(o).phase = "absent" /\ Absent(o).name = EmptyStr
         /\ NewObject(o).phase = "present" /\ ~NewObject(o).deleting
         /\ NewObject(o).name = EmptyStr /\ NewObject(o).vals = Absent(o).vals
BY DEF Absent, NewObject

LEMMA GoStep ==
  ASSUME Inv, Inv', NEW o \in Object, Present(o), obj'[o] = Absent(o),
         \A p \in Object \ {o} : obj'[p] = obj[p], born' = born
  PROVE  BindingStep
<1>1. PhaseOf(o) \in {"present", "deleting"} /\ PhaseOf(o)' = "absent" /\ ~IsNamed(o)'
  BY FreshIs DEF PhaseOf, IsNamed, Present
<1>2. Binding!Go(o)
  BY <1>1, OneBinding
     DEF Binding!Go, Phase, Bound, HasName, Fresh, PhaseOf, IsNamed, Present
<1>3. QED
  BY <1>2 DEF BindingStep, Binding!Next

LEMMA UsersBind ==
  ASSUME Inv, Inv', NEW o \in Object, CreateObject(o) \/ DeleteObject(o)
  PROVE  BindingStep
<1>1. At(o) /\ obj[o] \in ObjectType(o) /\ Functions
  BY DEF Inv, At, Typed
<1>2. (\A p \in Object \ {o} : obj'[p] = obj[p]) /\ born' = born
  BY <1>1 DEF CreateObject, DeleteObject, cloud, Functions
<1>3. CASE CreateObject(o)
  <2>1. obj[o] = Absent(o) /\ obj'[o] = NewObject(o)
    BY <1>1, <1>3 DEF CreateObject, At, NoGhost, Functions
  <2>2. /\ PhaseOf(o) = "absent" /\ PhaseOf(o)' = "present"
        /\ ~IsNamed(o) /\ ~IsNamed(o)' /\ obj'[o].vals = obj[o].vals
    BY <2>1, FreshIs DEF PhaseOf, IsNamed, Present
  <2>3. Binding!Appear(o)
    BY <1>2, <2>2, OneBinding
       DEF Binding!Appear, Phase, Bound, HasName, PhaseOf, IsNamed
  <2>4. QED
    BY <2>3 DEF BindingStep, Binding!Next
<1>4. CASE DeleteObject(o) /\ obj[o].finalizer
  <2>1. PICK keep \in BOOLEAN :
          obj' = [obj EXCEPT ![o].deleting = TRUE, ![o].keep = keep]
    BY <1>4 DEF DeleteObject
  <2>2. obj'[o] = [obj[o] EXCEPT !.deleting = TRUE, !.keep = keep]
    BY <1>1, <2>1 DEF Functions
  <2>3. /\ PhaseOf(o) = "present" /\ PhaseOf(o)' = "deleting"
        /\ IsNamed(o)' = IsNamed(o) /\ obj'[o].vals = obj[o].vals
    BY <1>1, <1>4, <2>2 DEF DeleteObject, ObjectType, PhaseOf, IsNamed, Present
  <2>4. Binding!Delete(o)
    BY <1>2, <2>3, OneBinding
       DEF Binding!Delete, Phase, Bound, HasName, PhaseOf, IsNamed
  <2>5. QED
    BY <2>4 DEF BindingStep, Binding!Next
<1>5. CASE DeleteObject(o) /\ ~obj[o].finalizer
  <2>1. obj'[o] = Absent(o) /\ Present(o)
    BY <1>1, <1>5 DEF DeleteObject, Functions
  <2>2. QED
    BY <1>2, <2>1, GoStep
<1>6. QED
  BY <1>3, <1>4, <1>5

\* The only write of a resolution. What it leaves alone was bound before, also by
\* an earlier resolution; an object whose references are open is not being deleted.
LEMMA WriteBinds ==
  ASSUME Inv, Inv', More, NEW o \in Object, WriteResolved(o)
  PROVE  BindingStep
<1>1. /\ At(o) /\ Says(o) /\ Functions /\ obj[o] \in ObjectType(o)
      /\ step[o] = "resolve" /\ buf[o] \in Seq(Filled) /\ Len(buf[o]) = Len(Refs(o))
  BY DEF Inv, More, At, Typed, WriteResolved
<1>2. DOMAIN buf[o] = DOMAIN Refs(o) /\ buf[o] \in [DOMAIN Refs(o) -> Filled]
  BY <1>1, RefsAreSeq
<1>3. obj'[o] = [obj[o] EXCEPT !.vals = buf[o]]
  BY <1>1 DEF WriteResolved, Functions
<1>4. /\ obj'[o].vals = buf[o] /\ obj'[o].phase = obj[o].phase
      /\ obj'[o].deleting = obj[o].deleting /\ obj'[o].name = obj[o].name
  BY <1>1, <1>3 DEF ObjectType
<1>5. (\A p \in Object \ {o} : obj'[p] = obj[p]) /\ born' = born
  BY DEF WriteResolved, cloud
<1>6. DOMAIN obj[o].vals = DOMAIN Refs(o)
  BY <1>1 DEF ObjectType
<1>7. \A i \in DOMAIN Refs(o) : obj[o].vals[i] # EmptyStr => buf[o][i] = obj[o].vals[i]
  BY <1>1, <1>2 DEF Says, Frozen
<1>8. CASE Resolved(o)
  <2>1. buf[o] = obj[o].vals
    BY <1>1, <1>2, <1>7, <1>8 DEF Resolved, ObjectType
  <2>2. QED
    BY <1>4, <1>5, <2>1, SameBinding DEF IsNamed
<1>9. CASE ~Resolved(o)
  <2>1. PhaseOf(o) = "present" /\ PhaseOf(o)' = "present" /\ IsNamed(o)' = IsNamed(o)
    <3>1. Present(o) /\ ~obj[o].deleting
      BY <1>1, <1>9 DEF At, NoGhost
    <3>2. QED
      BY <1>4, <3>1 DEF PhaseOf, Present, IsNamed
  <2>2. \A i \in DOMAIN Refs(o) : obj[o].vals[i] = EmptyStr =>
          buf[o][i] \in Offers[o][i][born[Target[o][i]]] \ {EmptyStr}
    <3> SUFFICES ASSUME NEW i \in DOMAIN Refs(o), obj[o].vals[i] = EmptyStr
                 PROVE  buf[o][i] \in Offers[o][i][born[Target[o][i]]] \ {EmptyStr}
      OBVIOUS
    <3>1. Target[o][i] \in Object
      BY <1>1, RefsAreSeq DEF At, HasTarget
    <3>2. born[Target[o][i]] \in 0..MaxChanges
      BY <1>1, <3>1 DEF Functions
    <3>3. Offers[o][i][born[Target[o][i]]] = Declares(o, i)
      BY <3>2 DEF Offers, Declares
    <3>4. QED
      BY <1>1, <1>2, <3>3 DEF Says, Faithful, Filled
  <2>3. Binding!IsOpen(o)
    BY <1>6, <1>9 DEF Binding!IsOpen, Resolved
  <2>4. Binding!Bind(o)
    <3>1. Phase' = Phase /\ HasName' = HasName /\ Phase[o] = "present"
      BY <2>1, <1>5, OneBinding DEF Phase, HasName
    <3>2. Bound[o] = obj[o].vals /\ Bound'[o] = buf[o] /\ Bound' = [Bound EXCEPT ![o] = Bound'[o]]
      BY <1>4, <1>5, OneBinding DEF Bound
    <3>3. DOMAIN Bound'[o] = DOMAIN Bound[o]
      BY <1>2, <1>6, <3>2
    <3>4. \A i \in DOMAIN Bound[o] :
            IF Bound[o][i] # EmptyStr THEN Bound'[o][i] = Bound[o][i]
            ELSE Bound'[o][i] \in Offers[o][i][born[Target[o][i]]] \ {EmptyStr}
      BY <1>6, <1>7, <2>2, <3>2
    <3>5. QED
      BY <1>5, <2>3, <3>1, <3>2, <3>3, <3>4
         DEF Binding!Bind, Phase, Bound, HasName, Offers, PhaseOf, IsNamed
  <2>5. QED
    BY <2>4 DEF BindingStep, Binding!Next
<1>10. QED
  BY <1>8, <1>9

LEMMA CreateBinds ==
  ASSUME Inv, Inv', More, NEW o \in Object, Create(o)
  PROVE  BindingStep
<1>1. At(o) /\ obj[o] \in ObjectType(o) /\ Functions
  BY DEF Inv, At, Typed
<1>2. PICK name \in Names(<<o, born[o] + 1>>) :
        obj' = [obj EXCEPT ![o].name = name] /\ name # EmptyStr
  BY NameCreated, NameFacts DEF More
<1>3. /\ \A p \in Object \ {o} : obj'[p] = obj[p]
      /\ obj'[o] = [obj[o] EXCEPT !.name = name]
      /\ born' = [born EXCEPT ![o] = @ + 1] /\ born[o] < MaxChanges
      /\ ~obj[o].deleting /\ obj[o].finalizer /\ obj[o].name = EmptyStr /\ step[o] = "act"
  BY <1>1, <1>2 DEF Create, Acting, Functions
<1>4. /\ PhaseOf(o) = "present" /\ PhaseOf(o)' = "present"
      /\ ~IsNamed(o) /\ IsNamed(o)' /\ obj'[o].vals = obj[o].vals
  <2>1. Present(o)
    BY <1>1, <1>3 DEF At, NoGhost
  <2>2. QED
    BY <1>1, <1>2, <1>3, <2>1 DEF PhaseOf, IsNamed, Present, ObjectType
<1>5. ~Binding!IsOpen(o)
  BY <1>1, <1>3 DEF Binding!IsOpen, At, Resolved, ObjectType
<1>6. Binding!Provide(o)
  <2>1. Phase[o] = "present" /\ Phase' = Phase /\ Bound' = Bound
    <3>1. Phase' = [Phase EXCEPT ![o] = PhaseOf(o)'] /\ Phase[o] = PhaseOf(o)
      BY <1>3, OneBinding DEF Phase
    <3>2. Bound' = [Bound EXCEPT ![o] = obj'[o].vals] /\ Bound[o] = obj[o].vals
      BY <1>3, OneBinding DEF Bound
    <3>3. QED
      BY <1>4, <3>1, <3>2 DEF Phase, Bound
  <2>2. ~HasName[o] /\ HasName' = [HasName EXCEPT ![o] = TRUE]
    <3>1. IsNamed(o)' = TRUE /\ IsNamed(o) = FALSE
      BY <1>4 DEF IsNamed
    <3>2. QED
      BY <1>3, <3>1, OneBinding DEF HasName
  <2>3. QED
    BY <1>3, <1>5, <2>1, <2>2 DEF Binding!Provide, Phase, Bound, HasName, PhaseOf, IsNamed
<1>7. QED
  BY <1>6 DEF BindingStep, Binding!Next

LEMMA WorkBinds ==
  ASSUME Inv, Inv', More, NEW o \in Object, Work(o) \/ Fail(o)
  PROVE  BindingStep
<1>1. At(o) /\ obj[o] \in ObjectType(o) /\ Functions
  BY DEF Inv, At, Typed
<1>2. CASE \/ Start(o) \/ Resolve(o) \/ ResolveFails(o) \/ Connect(o) \/ Destroy(o)
           \/ GiveUp(o) \/ Fail(o)
  <2>1. obj' = obj /\ born' = born
    BY <1>2 DEF Start, Resolve, ResolveFails, Connect, Destroy, GiveUp, Fail, cloud
  <2>2. QED
    BY <2>1, SameBinding DEF IsNamed
<1>3. CASE AddFinalizer(o)
  <2>1. /\ obj'[o] = [obj[o] EXCEPT !.finalizer = TRUE] /\ born' = born
        /\ \A p \in Object \ {o} : obj'[p] = obj[p]
    BY <1>1, <1>3 DEF AddFinalizer, cloud, Functions
  <2>2. QED
    BY <1>1, <2>1, SameBinding DEF ObjectType, IsNamed
<1>4. CASE Observe(o)
  <2>1. PICK x \in Own(o) : \E name \in Names(x) :
          /\ obj[o].name \in Names(x)
          /\ obj' = [obj EXCEPT ![o].name = name, ![o].uri = Uri(x)]
    BY <1>4, NameObserved DEF More
  <2>2. PICK name \in Names(x) : obj' = [obj EXCEPT ![o].name = name, ![o].uri = Uri(x)]
    BY <2>1
  <2>3. /\ obj'[o] = [obj[o] EXCEPT !.name = name, !.uri = Uri(x)] /\ born' = born
        /\ \A p \in Object \ {o} : obj'[p] = obj[p]
    BY <1>1, <1>4, <2>2 DEF Observe, cloud, Functions
  <2>4. name # EmptyStr /\ obj[o].name # EmptyStr
    BY <1>1, <2>1, OwnIsResource, NameFacts
  <2>5. QED
    BY <1>1, <2>3, <2>4, SameBinding DEF ObjectType, IsNamed
<1>5. CASE Release(o)
  <2>1. /\ obj'[o] = Absent(o) /\ born' = born /\ step[o] = "act"
        /\ \A p \in Object \ {o} : obj'[p] = obj[p]
    BY <1>1, <1>5 DEF Release, Acting, cloud, Functions
  <2>2. Present(o)
    BY <1>1, <2>1 DEF At, NoGhost
  <2>3. QED
    BY <2>1, <2>2, GoStep
<1>6. QED
  BY <1>2, <1>3, <1>4, <1>5, WriteBinds, CreateBinds DEF Work

\* Whatever users do to the objects it reads while it runs, a resolution binds all
\* the references of its object in one step, or none; nobody changes them later;
\* and nothing is created before.
THEOREM BindingImplemented == Spec => ImplementsBinding
<1>1. Init => Binding!Init
  <2> SUFFICES ASSUME Init PROVE Binding!Init
    OBVIOUS
  <2>1. \A o \in Object : obj[o] = Absent(o)
    BY DEF Init
  <2>2. Phase = [o \in Object |-> "absent"] /\ Bound = Fresh
        /\ HasName = [o \in Object |-> FALSE]
    BY <2>1, FreshIs DEF Phase, PhaseOf, Present, Bound, Fresh, HasName, IsNamed
  <2>3. QED
    BY <2>2 DEF Init, Binding!Init, Phase, PhaseOf, Bound, Fresh, HasName, IsNamed
<1>2. Inv /\ Inv' /\ More /\ [Next]_vars => [Binding!Next]_Binding!binding
  <2> SUFFICES ASSUME Inv, Inv', More, [Next]_vars
               PROVE  Binding!Next \/ UNCHANGED Binding!binding
    OBVIOUS
  <2>1. BindingStep
    <3>1. CASE UNCHANGED vars
      <4>1. obj' = obj /\ born' = born
        BY <3>1 DEF vars, cloud
      <4>2. QED
        BY <4>1 DEF BindingStep, Phase, PhaseOf, Present, Bound, HasName, IsNamed
    <3>2. QED
      BY <3>1, UsersBind, WorkBinds DEF Next
  <2>2. QED
    BY <2>1 DEF BindingStep, Binding!binding, Phase, PhaseOf, Bound, HasName, IsNamed
<1>3. QED
  BY <1>1, <1>2, AlwaysMore, PTL DEF Spec, ImplementsBinding, Binding!Spec

-------------------------------------------------------------------------------
(* References lead towards the project: nobody waits in a circle. *)

LEMMA ReferenceDescends ==
  ASSUME NEW k \in Kinds, NEW r \in RefsOf(k)
  PROVE  r[2] \in Kinds /\ Rank[k] \in 0..5 /\ Rank[r[2]] \in 0..5 /\ Rank[r[2]] < Rank[k]
<1>1. r \in Configured[k]
  BY RefsAsConfigured
<1>2. \A f, q : ByID(f, q)[2] = q /\ ByURI(f, q)[2] = q /\ ByName(f, q)[2] = q
  BY DEF ByID, ByURI, ByName
<1>3. Project[2] = "project" /\ Vpc[2] = "vpc" /\ Dbaas[2] = "dbaas"
  BY <1>2 DEF Project, Vpc, Dbaas
<1>4. QED
  BY <1>1, <1>2, <1>3, KindList
     DEF Configured, CloudserverConfigured, KaasConfigured,
         ContainerregistryConfigured, DbaasConfigured, VpntunnelConfigured, Rank

LEMMA TargetDescends ==
  ASSUME NEW o \in Object, NEW i \in DOMAIN Refs(o), Target[o][i] # None
  PROVE  /\ Target[o][i] \in Object
         /\ Rank[KindOf[Target[o][i]]] < Rank[KindOf[o]]
<1>1. /\ Target[o][i] \in Object /\ KindOf[Target[o][i]] = Refs(o)[i][2]
  BY RefsAreSeq, TargetAssumption DEF Refs
<1>2. KindOf[o] \in Kinds /\ Refs(o)[i] \in RefsOf(KindOf[o])
  BY KindOfAssumption DEF Refs, RefsOf
<1>3. QED
  BY <1>1, <1>2, ReferenceDescends

LEMMA RankType == \A o \in Object : Rank[KindOf[o]] \in 0..5
BY KindOfAssumption, KindList DEF Rank

\* The objects that o waits for: those whose values are not there yet.
WaitsFor(o) ==
  {Target[o][i] : i \in {j \in DOMAIN Refs(o) : Value(o, j) = EmptyStr}}

\* However many objects wait for each other's names and URIs, one of them waits for
\* none of the others.
SomeoneGoesOn ==
  \A W \in SUBSET Object : W # {} => \E o \in W : WaitsFor(o) \cap W = {}

\* Resolution cannot deadlock, whatever objects refer to each other: the references
\* that configure.go declares lead from higher kinds to lower ones.
THEOREM NobodyWaitsInACircle == Spec => []SomeoneGoesOn
<1>1. Inv => SomeoneGoesOn
  <2> SUFFICES ASSUME Inv, NEW W \in SUBSET Object, W # {}
               PROVE  \E o \in W : WaitsFor(o) \cap W = {}
    BY DEF SomeoneGoesOn
  <2> DEFINE Has(n) == \E o \in W : Rank[KindOf[o]] = n
  <2>1. Has(0) \/ Has(1) \/ Has(2) \/ Has(3) \/ Has(4) \/ Has(5)
    BY RankType
  <2> HIDE DEF Has
  <2>2. PICK n \in 0..5 : Has(n) /\ \A m \in 0..5 : m < n => ~Has(m)
    BY <2>1
  <2>3. PICK o \in W : Rank[KindOf[o]] = n
    BY <2>2 DEF Has
  <2>4. ASSUME NEW p \in WaitsFor(o) \cap W PROVE FALSE
    <3>1. PICK i \in DOMAIN Refs(o) : p = Target[o][i]
      BY <2>4 DEF WaitsFor
    <3>2. p # None
      BY <2>4, NoneIsNoObject
    <3>3. Rank[KindOf[p]] < n /\ Rank[KindOf[p]] \in 0..5
      BY <2>3, <3>1, <3>2, TargetDescends, RankType
    <3>4. QED
      BY <2>2, <2>4, <3>3 DEF Has
  <2>5. QED
    BY <2>4
<1>2. QED
  BY <1>1, InitInv, NextInv, PTL DEF Spec

\* What uses what in the cloud is a matter of ranks too.
UsesDescend ==
  \A u \in uses : Rank[KindOf[u[2][1]]] < Rank[KindOf[u[1][1]]]

\* A value names resources of the object its reference is to, or none.
LEMMA NamedIsOwn ==
  ASSUME Functions, NEW o \in Object, NEW i \in DOMAIN Refs(o), Faithful(o),
         NEW x \in Named(obj[o].vals[i])
  PROVE  Target[o][i] # None /\ x[1] = Target[o][i]
<1> DEFINE v == obj[o].vals[i]
           t == Target[o][i]
<1>1. x \in Resource /\ (v \in Names(x) \/ v = Uri(x) \/ v = <<<<x[1], 0>>>>)
  BY DEF Named, Functions, Names
<1>2. PICK p \in Object, n \in 1..MaxChanges : x = <<p, n>>
  BY <1>1 DEF Resource
<1>3. /\ <<p, 0>> \in Name /\ p # None /\ n # 0
      /\ Projects \subseteq Name /\ Resource \subseteq Name
  <2>1. /\ {<<p, 0>>, <<None, 0>>} \subseteq (Object \cup {None}) \X (0..MaxChanges)
        /\ Resource \subseteq (Object \cup {None}) \X (0..MaxChanges)
    BY LimitsAreNat DEF Resource
  <2>2. QED
    BY <2>1, NameAssumption, NoneIsNoObject DEF Projects
<1>4. v # EmptyStr /\ v # Given
  <2>1. CASE v = Uri(x)
    BY <2>1 DEF Uri, EmptyStr, Given
  <2>2. CASE v = <<<<p, 0>>>>
    BY <1>3, <2>2, BlankIsNoName DEF EmptyStr, Given
  <2>3. CASE v \in Names(x)
    <3>1. v # EmptyStr /\ (v = <<x>> \/ Len(v) = 2)
      BY <1>1, <2>3, NameFacts
    <3>2. <<x>> # Given /\ Len(Given) = 1
      BY <1>2, <1>3 DEF Given
    <3>3. QED
      BY <3>1, <3>2
  <2>4. QED
    BY <1>1, <1>2, <2>1, <2>2, <2>3
<1>5. v \in Declares(o, i)
  BY <1>4 DEF Faithful
<1>6. t # None
  BY <1>4, <1>5 DEF Declares, Declared
<1>7. t \in Object /\ Refs(o)[i][3] \in {"id", "uri", "name"}
  BY <1>6, RefsAreSeq, RefReads
<1>8. \/ \E y \in Own(t) : v \in Names(y)
      \/ \E y \in Own(t) : v = Uri(y)
      \/ v = <<<<t, 0>>>>
  BY <1>5, <1>6, <1>7 DEF Declares, Declared, Own
<1> HIDE DEF v, t
\* A name is no URI, and a display name neither.
<1>9. ASSUME NEW y \in Resource, v \in Names(y)
      PROVE  /\ \A z \in Resource : v # Uri(z)
             /\ \A q \in Object : v # <<<<q, 0>>>>
  <2>1. CASE v = <<y>>
    <3>1. y[2] # 0
      BY <1>9, LimitsAreNat DEF Resource
    <3>2. QED
      BY <2>1, <3>1 DEF Uri
  <2>2. CASE v # <<y>>
    <3>1. PICK r \in Projects : v = <<r, y>>
      BY <1>9, <2>2 DEF Names, Paths
    <3>2. r # Blank
      BY <1>3, BlankIsNoName
    <3>3. QED
      BY <3>1, <3>2 DEF Uri
  <2>3. QED
    BY <2>1, <2>2
<1>10. \A y \in Own(t) : y \in Resource /\ y[1] = t
  BY <1>7, OwnIsResource
<1>11. x[1] = t
  <2>1. CASE v \in Names(x)
    <3>1. PICK y \in Own(t) : v \in Names(y)
      BY <1>1, <1>7, <1>8, <1>9, <1>10, <2>1
    <3>2. QED
      BY <1>1, <1>10, <2>1, <3>1, NamesDiffer
  <2>2. CASE v = Uri(x)
    <3>1. PICK y \in Own(t) : v = Uri(y)
      BY <1>1, <1>8, <1>9, <1>10, <2>2 DEF Uri
    <3>2. x = y
      BY <2>2, <3>1 DEF Uri
    <3>3. QED
      BY <1>10, <3>1, <3>2
  <2>3. CASE v = <<<<p, 0>>>>
    <3>1. v = <<<<t, 0>>>>
      BY <1>8, <1>9, <1>10, <2>3 DEF Uri
    <3>2. QED
      BY <1>2, <2>3, <3>1
  <2>4. QED
    BY <1>1, <1>2, <2>1, <2>2, <2>3
<1>12. QED
  BY <1>6, <1>11 DEF t

LEMMA AlwaysUsesDescend == Spec => []UsesDescend
<1>1. Init => UsesDescend
  BY DEF Init, UsesDescend
<1>2. Inv /\ More /\ UsesDescend /\ [Next]_vars => UsesDescend'
  <2> SUFFICES ASSUME Inv, More, UsesDescend, [Next]_vars PROVE UsesDescend'
    OBVIOUS
  <2>1. CASE uses' = uses
    BY <2>1 DEF UsesDescend
  <2>2. ASSUME NEW o \in Object, Create(o) PROVE UsesDescend'
    <3>1. /\ uses' = uses \cup
               {<<<<o, born[o] + 1>>, y>> :
                   y \in UNION {Named(obj[o].vals[i]) : i \in DOMAIN Refs(o)}}
      BY <2>2 DEF Create
    <3>2. ASSUME NEW i \in DOMAIN Refs(o), NEW y \in Named(obj[o].vals[i])
          PROVE  Rank[KindOf[y[1]]] < Rank[KindOf[o]]
      BY NamedIsOwn, TargetDescends DEF Inv, More, Says
    <3>3. ASSUME NEW u \in uses', u \notin uses
          PROVE  Rank[KindOf[u[2][1]]] < Rank[KindOf[u[1][1]]]
      <4>1. PICK i \in DOMAIN Refs(o) : \E y \in Named(obj[o].vals[i]) :
                   u = <<<<o, born[o] + 1>>, y>>
        BY <3>1, <3>3
      <4>2. QED
        BY <3>2, <4>1
    <3>4. QED
      BY <3>3 DEF UsesDescend
  <2>3. QED
    BY <2>1, <2>2
       DEF Next, Work, vars, cloud, CreateObject, DeleteObject, Start, Resolve,
           ResolveFails, WriteResolved, Connect, AddFinalizer, Observe, Destroy,
           Release, GiveUp, Fail
<1>3. QED
  BY <1>1, <1>2, AlwaysMore, PTL DEF Spec

\* A cloud that refuses to delete what is in use never refuses everything: as long
\* as there are resources one of them is used by no other.
SomethingCanGo == live # {} => \E x \in live : ~InUse(x)

\* Deletions in any order cannot deadlock: the uses that resolved fields bring about
\* lead from higher kinds to lower ones too.
THEOREM DeletionsNeverDeadlock == Spec => []SomethingCanGo
<1>1. Inv /\ UsesDescend => SomethingCanGo
  <2> SUFFICES ASSUME Inv, UsesDescend, live # {} PROVE \E x \in live : ~InUse(x)
    BY DEF SomethingCanGo
  <2> DEFINE R(x) == Rank[KindOf[x[1]]]
  <2> DEFINE Has(n) == \E x \in live : R(x) = n
  <2>1. \A x \in live : R(x) \in 0..5
    BY RankType DEF Inv, Functions, Resource
  <2>2. Has(0) \/ Has(1) \/ Has(2) \/ Has(3) \/ Has(4) \/ Has(5)
    BY <2>1
  <2> HIDE DEF Has
  <2>3. PICK n \in 0..5 : Has(n) /\ \A m \in 0..5 : m > n => ~Has(m)
    BY <2>2
  <2>4. PICK x \in live : R(x) = n
    BY <2>3 DEF Has
  <2>5. ASSUME NEW y \in live, <<y, x>> \in uses PROVE FALSE
    <3>1. R(x) < R(y)
      BY <2>5 DEF UsesDescend
    <3>2. QED
      BY <2>1, <2>3, <2>4, <3>1 DEF Has
  <2>6. QED
    BY <2>5 DEF InUse
<1>2. QED
  BY <1>1, AlwaysUsesDescend, InitInv, NextInv, PTL DEF Spec

-------------------------------------------------------------------------------
(* What the ids are built from *)

Parents(k) == Elements(ExternalNameConfigs[k].parents)

\* The parents of a kind's ids are fields that its resolver fills in.
LEMMA ParentsReferred ==
  ASSUME NEW k \in Kinds, NEW q \in Parents(k)
  PROVE  q \in Param /\ \E r \in RefsOf(k) : r[1] = q
<1>1. \A f, c : ByID(f, c)[1] = f
  BY DEF ByID
<1>2. Project[1] = "project_id" /\ Vpc[1] = "vpc_id" /\ Dbaas[1] = "dbaas_id"
  BY <1>1 DEF Project, Vpc, Dbaas
<1>3. \A p, i : Leaf(p, i).parents = p
  BY DEF Leaf, IdentifierFromProvider
<1>4. /\ Elements(IdentifierFromProvider.parents) = {}
      /\ Elements(WithProjectID.parents) = {"project_id"}
      /\ Elements(Snapshot.parents) = {"project_id"}
  BY ElementsOfTuples DEF IdentifierFromProvider, WithProjectID, Snapshot
<1>5. q = "project_id" => Project \in Configured[k]
  <2>1. k # "project"
    BY <1>4 DEF Parents, ExternalNameConfigs
  <2>2. QED
    BY <2>1, KindList DEF Configured, CloudserverConfigured, KaasConfigured,
         ContainerregistryConfigured, DbaasConfigured, VpntunnelConfigured
<1>6. CASE k \in {"subnet", "securitygroup", "vpcpeering"}
  <2>1. Parents(k) = {"project_id", "vpc_id"}
    <3>1. ExternalNameConfigs[k] = Leaf(<<"project_id", "vpc_id">>, 2)
      BY <1>6 DEF ExternalNameConfigs, Subnet, SecurityGroup, VpcPeering
    <3>2. QED
      BY <1>3, <3>1, ElementsOfTuples DEF Parents
  <2>2. Vpc \in Configured[k]
    BY <1>6 DEF Configured
  <2>3. QED
    BY <1>2, <1>5, <2>1, <2>2, RefsAsConfigured DEF Param
<1>7. CASE k \in {"vpcpeeringroute", "securityrule"}
  <2>1. Parents("vpcpeeringroute") = {"project_id", "vpc_id", "vpc_peering_id"}
    BY <1>3, ElementsOfTuples DEF Parents, ExternalNameConfigs, VpcPeeringRoute
  <2>2. Parents("securityrule") = {"project_id", "vpc_id", "security_group_id"}
    BY <1>3, ElementsOfTuples DEF Parents, ExternalNameConfigs, SecurityRule
  <2>3. /\ ByID("vpc_peering_id", "vpcpeering") \in Configured["vpcpeeringroute"]
        /\ ByID("security_group_id", "securitygroup") \in Configured["securityrule"]
        /\ Vpc \in Configured[k]
    BY <1>7 DEF Configured
  <2>4. QED
    BY <1>1, <1>2, <1>5, <1>7, <2>1, <2>2, <2>3, RefsAsConfigured DEF Param
<1>8. CASE k \in {"database", "dbaasuser", "databasebackup", "databasegrant"}
  <2>1. /\ Parents(k) \subseteq {"project_id", "dbaas_id", "database"}
        /\ Dbaas \in Configured[k]
        /\ "database" \in Parents(k) => k = "databasegrant"
    BY <1>3, <1>8, ElementsOfTuples DEF Parents, ExternalNameConfigs, Database, DbaasUser,
                      DatabaseBackup, DatabaseGrant, Configured
  <2>2. ByID("database", "database") \in Configured["databasegrant"]
    BY DEF Configured
  <2>3. QED
    BY <1>1, <1>2, <1>5, <2>1, <2>2, RefsAsConfigured DEF Param
<1>9. CASE k \notin {"subnet", "securitygroup", "vpcpeering", "vpcpeeringroute",
                     "securityrule", "database", "dbaasuser", "databasebackup",
                     "databasegrant"}
  <2>1. ExternalNameConfigs[k] \in {IdentifierFromProvider, WithProjectID, Snapshot}
    BY <1>9, KindList DEF ExternalNameConfigs
  <2>2. q = "project_id"
    BY <1>4, <2>1 DEF Parents
  <2>3. QED
    BY <1>2, <1>5, <2>2, RefsAsConfigured DEF Param
<1>10. QED
  BY <1>6, <1>7, <1>8, <1>9

\* Each parent in the Terraform id of what may be created is the external name of a
\* resource of the very object its reference names, or what the user gave instead.
IdsNameParents ==
  \A o \in Object : obj[o].finalizer =>
    \A q \in Parents(KindOf[o]) : \E i \in DOMAIN Refs(o) :
      /\ Refs(o)[i][1] = q
      /\ Params(o)[q] \in IF Target[o][i] = None THEN {Given}
                          ELSE UNION {Names(x) : x \in Own(Target[o][i])}

\* GetIDFn never puts a URI, a display name or the id of another object's resource
\* into an id, for any of the kinds and any graph of references.
THEOREM IdsAlwaysNameParents == Spec => []IdsNameParents
<1>1. Inv /\ More => IdsNameParents
  <2> SUFFICES ASSUME Inv, More, NEW o \in Object, obj[o].finalizer,
                      NEW q \in Parents(KindOf[o])
               PROVE  \E i \in DOMAIN Refs(o) :
                        /\ Refs(o)[i][1] = q
                        /\ Params(o)[q] \in IF Target[o][i] = None THEN {Given}
                                            ELSE UNION {Names(x) : x \in Own(Target[o][i])}
    BY DEF IdsNameParents
  <2> DEFINE I == {i \in DOMAIN Refs(o) : Refs(o)[i][1] = q}
  <2>1. q \in Param /\ I # {}
    BY KindOfAssumption, ParentsReferred DEF RefsOf, Refs
  <2>2. (CHOOSE i \in I : TRUE) \in I
    BY <2>1
  <2>3. Params(o)[q] = obj[o].vals[CHOOSE i \in I : TRUE]
    BY <2>1 DEF Params
  <2> HIDE DEF I
  <2>4. PICK i \in I : Params(o)[q] = obj[o].vals[i]
    BY <2>2, <2>3
  <2>5. i \in DOMAIN Refs(o) /\ Refs(o)[i][1] = q /\ Refs(o)[i][3] = "id"
    BY <2>1, <2>4, RefReads DEF I
  <2>6. obj[o].vals[i] \in Declares(o, i)
    BY <2>5 DEF Inv, At, Resolved, More, Says, Faithful
  <2>7. QED
    BY <2>4, <2>5, <2>6 DEF Declares, Declared, Own
<1>2. QED
  BY <1>1, AlwaysMore, PTL

\* No parameter of a resource's id holds the resource: references descend.
LEMMA ParamsForeign ==
  ASSUME Functions, NEW o \in Object, Faithful(o), Resolved(o),
         NEW x \in Resource, x[1] = o, KindOf[o] # "project"
  PROVE  Params(o) \in [Param -> {s \in Seq(Segment \ {x}) : Len(s) > 0}]
<1> DEFINE S == Segment \ {x}
<1>1. /\ Resource \subseteq Segment /\ Projects \subseteq Segment
      /\ <<None, 0>> \in S /\ \A p \in Projects : p \in S
  <2>1. /\ <<None, 0>> \in (Object \cup {None}) \X (0..MaxChanges)
        /\ Resource \subseteq (Object \cup {None}) \X (0..MaxChanges)
    BY LimitsAreNat DEF Resource
  <2>2. <<None, 0>> # x
    BY NoneIsNoObject
  <2>3. QED
    BY <2>1, <2>2, NameAssumption DEF Projects, Segment
<1>2. ASSUME NEW q \in Param
      PROVE  Params(o)[q] \in {s \in Seq(S) : Len(s) > 0}
  <2>1. CASE Params(o)[q] = Given
    BY <1>1, <2>1 DEF Given
  <2>2. CASE Params(o)[q] # Given
    <3>1. PICK i \in DOMAIN Refs(o) :
            Target[o][i] # None /\ \E y \in Own(Target[o][i]) : Params(o)[q] \in Names(y)
      BY <2>2, ParamValue
    <3>2. PICK y \in Own(Target[o][i]) : Params(o)[q] \in Names(y)
      BY <3>1
    <3>3. Target[o][i] \in Object /\ Target[o][i] # o
      BY <3>1, TargetDescends, RankType
    <3>4. y \in S
      BY <1>1, <3>2, <3>3, OwnIsResource
    <3>5. CASE Params(o)[q] = <<y>>
      BY <3>4, <3>5
    <3>6. CASE Params(o)[q] # <<y>>
      <4>1. PICK p \in Projects : Params(o)[q] = <<p, y>>
        BY <3>2, <3>6 DEF Names, Paths
      <4>2. p \in S
        BY <1>1
      <4>3. <<p, y>> \in Seq(S) /\ Len(<<p, y>>) = 2
        BY <3>4, <4>2
      <4>4. QED
        BY <4>1, <4>3
    <3>7. QED
      BY <3>5, <3>6
  <2>3. QED
    BY <2>1, <2>2
<1>3. QED
  BY <1>2 DEF Params

\* A parameter that is no path is a single segment.
LEMMA LeafUnlessPath ==
  ASSUME Functions, NEW o \in Object, Faithful(o), Resolved(o), NEW q \in Param,
         ~IsPath(Params(o)[q])
  PROVE  Leaves(o)[q] = Params(o)[q]
<1> DEFINE v == Params(o)[q]
<1>1. Leaves(o)[q] = <<v[Len(v)]>>
  BY DEF Leaves
<1>2. CASE v = Given
  BY <1>1, <1>2 DEF Given
<1>3. CASE v # Given
  <2>1. PICK i \in DOMAIN Refs(o) :
          Target[o][i] # None /\ \E y \in Own(Target[o][i]) : v \in Names(y)
    BY <1>3, ParamValue
  <2>2. PICK y \in Own(Target[o][i]) : v \in Names(y)
    BY <2>1
  <2>3. y \in Resource
    BY <2>1, RefsAreSeq, OwnIsResource
  <2>4. v = <<y>>
    BY <2>2, <2>3 DEF Names, IsPath
  <2> HIDE DEF v
  <2>5. v[Len(v)] = y
    BY <2>4
  <2>6. QED
    BY <1>1, <2>4, <2>5 DEF v
<1>4. QED
  BY <1>2, <1>3

\* For any objects and any graph of references: the id built from the resolved fields
\* of a resource reads back as its name exactly when none of the names that
\* reference resolution put into the id is an import path. GetIDFn and
\* GetExternalNameFn fit each other for parents that are named by their leaf, as
\* external_name.go describes them, and for no others.
THEOREM IdsReadBack == Spec => []IdReadsBack
<1>1. Inv /\ More => IdReadsBack
  <2> SUFFICES ASSUME Inv, More, NEW o \in Object, HasResource(o),
                      KindOf[o] \in ReversibleKinds
               PROVE  GetExternalName(Config(o), GetID(Config(o), obj[o].name, Params(o)))
                        = obj[o].name
                      <=> \A q \in Required(Config(o)) : ~IsPath(Params(o)[q])
    BY DEF IdReadsBack
  <2> DEFINE Read(p) == GetExternalName(Config(o), GetID(Config(o), obj[o].name, p))
  <2>1. PICK x \in live : obj[o].name \in Names(x)
    BY DEF HasResource
  <2>2. x \in Resource /\ x[1] = o /\ Faithful(o) /\ Resolved(o) /\ Functions
    BY <2>1, HasBuilt DEF Inv
  <2>3. obj[o].name = <<x>>
    BY <2>1, <2>2 DEF Names, Paths
  <2>4. /\ KindOf[o] \in Kinds /\ Config(o) = ExternalNameConfigs[KindOf[o]]
        /\ x \in Segment /\ Required(Config(o)) \subseteq Param
    <3>1. KindOf[o] \in Kinds /\ Config(o) = ExternalNameConfigs[KindOf[o]]
      BY KindOfAssumption DEF Config
    <3>2. x \in (Object \cup {None}) \X (0..MaxChanges)
      BY <2>2, LimitsAreNat DEF Resource
    <3>3. AnyConfig(Config(o))
      BY <3>1, ConfigShapes
    <3>4. QED
      BY <3>1, <3>2, <3>3, NameAssumption DEF Segment, Required, AnyConfig
  <2>5. ASSUME \A q \in Required(Config(o)) : ~IsPath(Params(o)[q])
        PROVE  Read(Params(o)) = <<x>>
    <3>1. \A q \in Required(Config(o)) : Leaves(o)[q] = Params(o)[q]
      BY <2>2, <2>4, <2>5, LeafUnlessPath
    <3>2. Read(Params(o)) = Read(Leaves(o))
      BY <2>4, <3>1, IdFromRequired
    <3>3. Read(Leaves(o)) = <<x>>
      BY <2>3, <2>4, LeavesFlat, RoundTrip
    <3>4. QED
      BY <3>2, <3>3
  <2>6. ASSUME NEW q \in Required(Config(o)), IsPath(Params(o)[q])
        PROVE  Read(Params(o)) # <<x>>
    <3>1. SegmentConfig(Config(o))
      <4>1. Required(IdentifierFromProvider) = {}
        BY DEF Required, IdentifierFromProvider
      <4>2. QED
        BY <2>4, <2>6, <4>1, ReversibleConfigs
    <3>2. KindOf[o] # "project"
      <4>1. IdentifierFromProvider.extract = "id"
        BY DEF IdentifierFromProvider
      <4>2. Config(o).extract # "id"
        BY <3>1 DEF SegmentConfig
      <4>3. QED
        BY <2>4, <4>1, <4>2 DEF ExternalNameConfigs
    <3>3. Len(Params(o)[q]) > 1
      BY <2>6, PathIsLong
    <3>4. Params(o) \in [Param -> {s \in Seq(Segment \ {x}) : Len(s) > 0}]
      BY <2>2, <3>2, ParamsForeign
    <3>5. GetExternalName(Config(o), GetID(Config(o), <<x>>, Params(o))) # <<x>>
      BY <2>4, <3>1, <3>3, <3>4, PathMovesSegments
    <3>6. QED
      BY <2>3, <3>5
  <2>7. QED
    BY <2>3, <2>5, <2>6
<1>2. QED
  BY <1>1, AlwaysMore, PTL

===============================================================================
