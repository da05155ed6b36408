------------------------- MODULE ManagedResourceProofs -------------------------
(***************************************************************************)
(* Type correctness of ManagedResource and what its external name may be,  *)
(* for every kind, and that it is the leaf, for every kind whose           *)
(* GetExternalNameFn undoes GetIDFn; for every value of the constants.     *)
(***************************************************************************)
EXTENDS ManagedResource, ExternalNameProofs

-------------------------------------------------------------------------------
(* Ids and names are strings. *)

LEMMA ParamsFlat == Flat(Params)
BY ParamsAreFlat DEF Flat, Segment

LEMMA NamesAreStr ==
  EmptyStr \in Str /\ \A x \in Resource : <<x>> \in Str
BY StrAsSeq, ResourceAssumption DEF EmptyStr, Segment

LEMMA GetIDType ==
  ASSUME NEW s \in Str
  PROVE  GetID(Config, s, Params) \in Str
BY KindIsKind, ParamsFlat, FlatIsStr, GetIDIsStr DEF Config

\* GetExternalNameFn makes a string of a string.
LEMMA GetExternalNameType ==
  ASSUME NEW s \in Str
  PROVE  GetExternalName(Config, s) \in Str
BY KindIsKind, GetExternalNameIsStr DEF Config

-------------------------------------------------------------------------------
(* Type correctness. *)

\* Objects that reach the API server or the worker's copy.
LEMMA Objects ==
  /\ Absent \in ObjectType
  /\ \A n \in Str, P \in PolicySets : NewObject(n, P) \in ObjectType
<1>1. 0 \in 0..MaxGen
  BY BoundsAreNat
<1>2. ASSUME NEW n \in Str, NEW P \in PolicySets \cup {{}}
      PROVE  NewObject(n, P) \in ObjectType
  BY <1>1 DEF NewObject, ObjectType
<1>3. NewObject(EmptyStr, {}) \in ObjectType
  BY <1>2, NamesAreStr
<1>4. Absent \in ObjectType
  BY <1>3 DEF Absent, ObjectType
<1>5. QED
  BY <1>2, <1>4

LEMMA IdleType ==
  ASSUME Idle
  PROVE  /\ pc' = "idle" /\ seen' \in ObjectType
         /\ fresh' \in BOOLEAN /\ verdict' = "none"
BY Objects DEF Idle

\* Writing a well-typed object keeps the worker and the object well-typed.
LEMMA WriteType ==
  ASSUME TypeOK, NEW o \in ObjectType, NEW next \in {"idle", "act", "create"},
         Write(o, next)
  PROVE  /\ mr' \in ObjectType /\ seen' \in ObjectType
         /\ pc' \in {"idle", "connect", "observe", "act", "create", "created"}
         /\ fresh' \in BOOLEAN
         /\ verdict' \in {"none", "running", "missing", "unnamed", "unready",
                          "drifted", "current"}
         /\ adopted' \in Resource \cup {None}
         /\ made' \subseteq Resource /\ recorded' \subseteq Resource
         /\ exposed' \subseteq Resource
<1>1. CASE fresh
  BY <1>1, Objects DEF Write, TypeOK, Recording, Found
<1>2. CASE ~fresh
  BY <1>2, IdleType DEF Write, TypeOK, hist
<1>3. QED
  BY <1>1, <1>2

LEMMA InitType == Init => TypeOK
<1> SUFFICES ASSUME Init PROVE TypeOK
  OBVIOUS
<1>1. ws \in [tfid : Str \cup {NoState}, main : 0..MaxGen,
             op : {"none", "apply", "destroy"}, done : BOOLEAN,
             callback : BOOLEAN]
  BY BoundsAreNat DEF Init, NoWorkspace
<1>2. cloud \in [Resource -> [state : {"free", "live", "deleted"},
                             gen : 0..MaxGen]]
  BY BoundsAreNat DEF Init
<1>3. mr \in ObjectType /\ seen \in ObjectType
  BY Objects DEF Init
<1>4. crashes \in 0..MaxCrashes /\ losses \in 0..MaxLosses
  BY BoundsAreNat DEF Init
<1>5. /\ pc = "idle" /\ fresh \in BOOLEAN /\ verdict = "none"
      /\ adopted \in Resource \cup {None}
      /\ made \subseteq Resource /\ recorded \subseteq Resource
      /\ exposed \subseteq Resource
  BY DEF Init
<1>6. QED
  BY <1>1, <1>2, <1>3, <1>4, <1>5 DEF TypeOK

LEMMA UserStepType == TypeOK /\ UserStep => TypeOK'
<1> SUFFICES ASSUME TypeOK, UserStep PROVE TypeOK'
  OBVIOUS
<1>1. CASE CreateObject
  <2>1. mr' \in ObjectType
    BY <1>1, Objects, NamesAreStr DEF CreateObject
  <2>2. /\ adopted' \in Resource \cup {None} /\ recorded' \subseteq Resource
        /\ made' = made /\ exposed' = exposed
    BY <1>1 DEF CreateObject, TypeOK, hist
  <2>3. QED
    BY <1>1, <2>1, <2>2 DEF CreateObject, TypeOK, worker, bounds
<1>2. CASE EditSpec
  <2>1. mr' \in ObjectType
    <3>1. mr.gen + 1 \in 0..MaxGen
      BY <1>2, BoundsAreNat DEF EditSpec, TypeOK, ObjectType
    <3>2. QED
      BY <1>2, <3>1 DEF EditSpec, TypeOK, ObjectType
  <2>2. QED
    BY <1>2, <2>1 DEF EditSpec, TypeOK, bounds, hist
<1>3. CASE DeleteObject
  <2>1. mr' \in ObjectType
    BY <1>3 DEF DeleteObject, TypeOK, ObjectType
  <2>2. QED
    BY <1>3, <2>1 DEF DeleteObject, TypeOK, bounds, hist
<1>4. CASE ClearPending
  <2>1. mr' \in ObjectType
    BY <1>4 DEF ClearPending, TypeOK, ObjectType
  <2>2. QED
    BY <1>4, <2>1 DEF ClearPending, TypeOK, worker, bounds, hist
<1>5. QED
  BY <1>1, <1>2, <1>3, <1>4 DEF UserStep

WsType ==
  [tfid : Str \cup {NoState}, main : 0..MaxGen,
   op : {"none", "apply", "destroy"}, done : BOOLEAN, callback : BOOLEAN]

LEMMA StartOpType ==
  ASSUME TypeOK, NEW op \in {"apply", "destroy"}, StartOp(op)
  PROVE  ws' \in WsType
BY DEF StartOp, TypeOK, WsType

LEMMA RemoveFinalizerType ==
  ASSUME TypeOK, RemoveFinalizer
  PROVE  TypeOK'
<1>1. mr' \in ObjectType
  BY DEF RemoveFinalizer, TypeOK, ObjectType
<1>2. ws' \in WsType
  <2>1. ws \in WsType /\ 0 \in 0..MaxGen
    BY BoundsAreNat DEF TypeOK, WsType
  <2>2. QED
    BY <2>1 DEF RemoveFinalizer, WsType
<1>3. QED
  BY <1>1, <1>2, IdleType DEF RemoveFinalizer, TypeOK, WsType, bounds, hist

\* What reads the object or the cloud and prepares the act.
LEMMA ObservingType ==
  ASSUME TypeOK, Start \/ Connect \/ ConnectFails \/ Observe \/ ObserveFails
  PROVE  TypeOK'
<1>1. CASE Start
  BY <1>1 DEF Start, TypeOK, bounds, hist
<1>2. CASE Connect
  <2>1. seen.name \in Str /\ seen.gen \in 0..MaxGen /\ ws \in WsType
    BY DEF TypeOK, ObjectType, WsType
  <2>2. GetID(Config, seen.name, Params) \in Str
    BY <2>1, GetIDType
  <2>3. ws' \in WsType
    BY <1>2, <2>1, <2>2 DEF Connect, WsType
  <2>4. QED
    BY <1>2, <2>3 DEF Connect, TypeOK, WsType, bounds, hist
<1>3. CASE ConnectFails
  BY <1>3, IdleType DEF ConnectFails, TypeOK, bounds, hist
<1>4. CASE Observe
  <2>1. seen.name \in Str /\ ws \in WsType /\ seen \in ObjectType
    BY DEF TypeOK, ObjectType, WsType
  <2>2. GetID(Config, seen.name, Params) \in Str
    BY <2>1, GetIDType
  <2>3. CASE ws.op # "none"
    BY <1>4, <2>3 DEF Observe, TypeOK, bounds, hist
  <2>4. CASE ws.op = "none"
    <3> DEFINE id == IF OnlyObserve(seen) THEN GetID(Config, seen.name, Params)
                                          ELSE ws.tfid
    <3>1. id \in Str \cup {NoState}
      BY <2>1, <2>2 DEF WsType
    <3> HIDE DEF id
    <3>2. CASE /\ verdict' = "missing" /\ ws' = [ws EXCEPT !.tfid = NoState]
               /\ UNCHANGED seen
      <4>1. ws' \in WsType
        BY <3>2, <2>1 DEF WsType
      <4>2. QED
        BY <1>4, <3>2, <4>1 DEF Observe, TypeOK, WsType, bounds, hist
    <3>3. ASSUME NEW x \in Found(id), verdict' = Judge(x, id),
                 ws' = [ws EXCEPT !.tfid = id],
                 seen' = [seen EXCEPT
                   !.name = IF verdict' = "unnamed"
                            THEN GetExternalName(Config, id) ELSE @]
          PROVE  TypeOK'
      <4>1. x \in Resource /\ id \in {<<x>>, Path(x)}
        BY <3>3 DEF Found
      <4>2. <<x>> \in Str
        BY <4>1, NamesAreStr
      <4>3. id \in Str
        BY <4>1, <4>2, GetIDType DEF Path
      <4>4. GetExternalName(Config, id) \in Str
        BY <4>3, GetExternalNameType
      <4>5. seen' \in ObjectType
        BY <3>3, <4>4, <2>1 DEF ObjectType
      <4>6. ws' \in WsType
        BY <3>3, <4>3, <2>1 DEF WsType
      <4>7. verdict' \in {"unnamed", "unready", "drifted", "current"}
        BY <3>3 DEF Judge
      <4>8. QED
        BY <1>4, <4>5, <4>6, <4>7 DEF Observe, TypeOK, WsType, bounds, hist
    <3>4. QED
      BY <1>4, <2>4, <3>2, <3>3 DEF Observe, id
  <2>5. QED
    BY <2>3, <2>4
<1>5. CASE ObserveFails
  BY <1>5, IdleType DEF ObserveFails, TypeOK, bounds, hist
<1>6. QED
  BY <1>1, <1>2, <1>3, <1>4, <1>5

\* What starts an operation or ends the reconcile without writing the object.
LEMMA StartingType ==
  ASSUME TypeOK,
         StartDestroy \/ StartUpdate \/ StartCreate \/ ReportMissing \/ Rest
           \/ MarkCreated
  PROVE  TypeOK'
<1>1. CASE StartDestroy
  <2>1. ws' \in WsType
    BY <1>1, StartOpType DEF StartDestroy, TypeOK, WsType
  <2>2. QED
    BY <1>1, <2>1, IdleType DEF StartDestroy, TypeOK, WsType, bounds, hist
<1>2. CASE StartUpdate
  <2>1. ws' \in WsType
    BY <1>2, StartOpType DEF StartUpdate, TypeOK, WsType
  <2>2. QED
    BY <1>2, <2>1, IdleType DEF StartUpdate, TypeOK, WsType, bounds, hist
<1>3. CASE StartCreate
  <2>1. ws' \in WsType
    BY <1>3, StartOpType DEF StartCreate
  <2>2. QED
    BY <1>3, <2>1 DEF StartCreate, TypeOK, WsType, bounds, hist
<1>4. CASE ReportMissing
  BY <1>4, IdleType DEF ReportMissing, TypeOK, bounds, hist
<1>5. CASE Rest
  BY <1>5, IdleType DEF Rest, TypeOK, bounds, hist
<1>6. CASE MarkCreated
  <2>1. mr' \in ObjectType
    BY <1>6 DEF MarkCreated, TypeOK, ObjectType
  <2>2. QED
    BY <1>6, <2>1, IdleType DEF MarkCreated, TypeOK, bounds, hist
<1>7. QED
  BY <1>1, <1>2, <1>3, <1>4, <1>5, <1>6

\* What writes the object.
LEMMA WritingType ==
  ASSUME TypeOK, AddFinalizer \/ MarkPending \/ Record \/ MarkAvailable
  PROVE  TypeOK'
<1>1. PICK o \in ObjectType, next \in {"idle", "act", "create"} :
        Write(o, next) /\ UNCHANGED <<ws, cloud, bounds>>
  <2>1. seen \in ObjectType
    BY DEF TypeOK
  <2>2. /\ [seen EXCEPT !.finalizer = TRUE] \in ObjectType
        /\ [seen EXCEPT !.create = "pending"] \in ObjectType
        /\ [seen EXCEPT !.ready = TRUE] \in ObjectType
    BY <2>1 DEF ObjectType
  <2>3. QED
    BY <2>1, <2>2 DEF AddFinalizer, MarkPending, Record, MarkAvailable
<1>2. QED
  BY <1>1, WriteType DEF TypeOK, bounds

LEMMA ReconcileStepType == TypeOK /\ ReconcileStep => TypeOK'
<1>1. TypeOK /\ (Abandon \/ Release) => TypeOK'
  BY RemoveFinalizerType DEF Abandon, Release
<1>2. QED
  BY <1>1, ObservingType, StartingType, WritingType DEF ReconcileStep

CloudType == [Resource -> [state : {"free", "live", "deleted"}, gen : 0..MaxGen]]

\* Terraform at work, and the callback.
LEMMA OperationStepType == TypeOK /\ OperationStep => TypeOK'
<1> SUFFICES ASSUME TypeOK, OperationStep PROVE TypeOK'
  OBVIOUS
<1>1. ws \in WsType /\ cloud \in CloudType
  BY DEF TypeOK, WsType, CloudType
<1>2. CASE ApplyCreates
  <2>1. PICK x \in Resource :
          /\ cloud' = [cloud EXCEPT ![x] = [state |-> "live", gen |-> ws.main]]
          /\ ws' = [ws EXCEPT !.tfid = StoredId(x), !.done = TRUE]
          /\ made' = made \cup {x}
    BY <1>2 DEF ApplyCreates
  <2>2. StoredId(x) \in Str
    BY NamesAreStr, GetIDType DEF StoredId, Path
  <2>3. cloud' \in CloudType
    BY <1>1, <2>1 DEF WsType, CloudType
  <2>4. ws' \in WsType
    BY <1>1, <2>1, <2>2 DEF WsType
  <2>5. made' \subseteq Resource
    BY <2>1 DEF TypeOK
  <2>6. QED
    BY <1>2, <2>3, <2>4, <2>5
       DEF ApplyCreates, TypeOK, WsType, CloudType, worker, bounds
<1>3. CASE ApplyUpdates
  <2>1. PICK x \in Resource : cloud' = [cloud EXCEPT ![x].gen = ws.main]
    BY <1>3 DEF ApplyUpdates, Found
  <2>2. cloud' \in CloudType
    BY <1>1, <2>1 DEF WsType, CloudType
  <2>3. ws' \in WsType
    BY <1>1, <1>3 DEF ApplyUpdates, WsType
  <2>4. QED
    BY <1>3, <2>2, <2>3
       DEF ApplyUpdates, TypeOK, WsType, CloudType, worker, bounds, hist
<1>4. CASE Destroys
  <2>1. cloud' \in CloudType
    BY <1>1, <1>4 DEF Destroys, CloudType
  <2>2. ws' \in WsType
    BY <1>1, <1>4 DEF Destroys, WsType
  <2>3. QED
    BY <1>4, <2>1, <2>2
       DEF Destroys, TypeOK, WsType, CloudType, worker, bounds, hist
<1>5. CASE OpEnds
  <2>1. ws' \in WsType
    BY <1>1, <1>5 DEF OpEnds, WsType
  <2>2. QED
    BY <1>5, <2>1 DEF OpEnds, TypeOK, WsType, worker, bounds, hist
<1>6. CASE Callback
  <2>1. ws' \in WsType
    BY <1>1, <1>6 DEF Callback, WsType
  <2>2. QED
    BY <1>6, <2>1 DEF Callback, TypeOK, WsType, bounds, hist
<1>7. QED
  BY <1>2, <1>3, <1>4, <1>5, <1>6 DEF OperationStep

LEMMA EnvironmentType == TypeOK /\ (LoseResource \/ Crash) => TypeOK'
<1> SUFFICES ASSUME TypeOK, LoseResource \/ Crash PROVE TypeOK'
  OBVIOUS
<1>1. CASE LoseResource
  <2>1. cloud' \in CloudType
    BY <1>1 DEF LoseResource, TypeOK, CloudType
  <2>2. losses' \in 0..MaxLosses
    BY <1>1, BoundsAreNat DEF LoseResource, TypeOK
  <2>3. QED
    BY <1>1, <2>1, <2>2 DEF LoseResource, TypeOK, CloudType, worker, hist
<1>2. CASE Crash
  <2>1. crashes' \in 0..MaxCrashes
    BY <1>2, BoundsAreNat DEF Crash, TypeOK
  <2>2. ws' \in WsType
    BY <1>2, BoundsAreNat DEF Crash, NoWorkspace, WsType
  <2>3. exposed' \subseteq Resource
    BY <1>2 DEF Crash, TypeOK
  <2>4. QED
    BY <1>2, <2>1, <2>2, <2>3, IdleType DEF Crash, TypeOK, WsType
<1>3. QED
  BY <1>1, <1>2

\* The object, the worker's copy of it, the workspace and the cloud are
\* well-typed in every reachable state: ids and names stay strings whatever
\* GetIDFn and GetExternalNameFn make of each other's results.
THEOREM AlwaysTypeOK == Spec => []TypeOK
<1>1. TypeOK /\ [Next]_vars => TypeOK'
  <2> SUFFICES ASSUME TypeOK, [Next]_vars PROVE TypeOK'
    OBVIOUS
  <2>1. CASE UNCHANGED vars
    BY <2>1 DEF vars, worker, bounds, hist, TypeOK
  <2>2. QED
    BY <2>1, UserStepType, ReconcileStepType, OperationStepType, EnvironmentType
       DEF Next
<1>2. QED
  BY <1>1, InitType, PTL DEF Spec

-------------------------------------------------------------------------------
(* The external name. *)

\* What a resource may be recorded as: the leaf the user imports it by, and what is
\* read from the id under which it was found.
Readings(x) == {<<x>>, GetExternalName(Config, Path(x))}
Readable == {EmptyStr} \cup UNION {Readings(x) : x \in Resource}

\* The worker's copy is what gets written, so its name must be readable as well.
ReadInv == TypeOK /\ mr.name \in Readable /\ seen.name \in Readable

LEMMA FoundIsReadable ==
  ASSUME NEW id, NEW x \in Found(id)
  PROVE  GetExternalName(Config, id) \in Readable
<1>1. x \in Resource /\ id \in {<<x>>, Path(x)}
  BY DEF Found
<1>2. x \in Name
  BY <1>1, ResourceAssumption
<1>3. GetExternalName(Config, <<x>>) = <<x>>
  BY <1>2, KindIsKind, LeafStaysLeaf DEF Config, Segment
<1>4. QED
  BY <1>1, <1>3 DEF Readable, Readings

\* Both readings are the leaf where GetExternalNameFn undoes GetIDFn.
LEMMA ReadableIsLeaf ==
  ASSUME Kind \in ReversibleKinds
  PROVE  Readable = {EmptyStr} \cup {<<x>> : x \in Resource}
<1>1. ASSUME NEW x \in Resource PROVE Readings(x) = {<<x>>}
  BY ResourceAssumption, RoundTrip, ParamsFlat DEF Readings, Path, Config, Segment
<1>2. QED
  BY <1>1 DEF Readable

\* Elsewhere the second reading is the import path.
LEMMA ReadableNames ==
  ASSUME NEW x \in Resource
  PROVE  Readings(x) \subseteq {<<x>>, Path(x)}
<1>1. CASE Kind \in ReversibleKinds
  BY <1>1, ResourceAssumption, RoundTrip, ParamsFlat
     DEF Readings, Path, Config, Segment
<1>2. CASE Kind \notin ReversibleKinds
  <2>1. Config.extract = "id"
    BY <1>2, KindIsKind DEF Config, ReversibleKinds
  <2>2. QED
    BY <2>1 DEF Readings, GetExternalName
<1>3. QED
  BY <1>1, <1>2

LEMMA IdleReadable == Idle => seen'.name \in Readable
BY DEF Idle, Absent, NewObject, Readable

\* Writing an object whose name is readable.
LEMMA WriteReadable ==
  ASSUME ReadInv, NEW o, o.name \in Readable, NEW next, Write(o, next)
  PROVE  mr'.name \in Readable /\ seen'.name \in Readable
<1>1. CASE fresh
  BY <1>1 DEF Write, Absent, NewObject, Readable
<1>2. CASE ~fresh
  BY <1>2, IdleReadable DEF Write, ReadInv
<1>3. QED
  BY <1>1, <1>2

LEMMA UserStepReadable ==
  ASSUME ReadInv, UserStep
  PROVE  mr'.name \in Readable /\ seen'.name \in Readable
<1>1. mr \in ObjectType /\ mr.name \in Readable /\ seen.name \in Readable
  BY DEF ReadInv, TypeOK
<1>2. CASE CreateObject
  <2>1. EmptyStr \in Readable /\ \A x \in Resource : <<x>> \in Readable
    BY DEF Readable, Readings
  <2>2. QED
    BY <1>1, <1>2, <2>1 DEF CreateObject, NewObject, worker
<1>3. CASE EditSpec
  BY <1>1, <1>3 DEF EditSpec, ObjectType
<1>4. CASE DeleteObject
  BY <1>1, <1>4 DEF DeleteObject, ObjectType
<1>5. CASE ClearPending
  BY <1>1, <1>5 DEF ClearPending, ObjectType, worker
<1>6. QED
  BY <1>2, <1>3, <1>4, <1>5 DEF UserStep

LEMMA ReconcileStepReadable ==
  ASSUME ReadInv, ReconcileStep
  PROVE  mr'.name \in Readable /\ seen'.name \in Readable
<1>1. /\ mr \in ObjectType /\ mr.name \in Readable
      /\ seen \in ObjectType /\ seen.name \in Readable
  BY DEF ReadInv, TypeOK
<1>2. CASE Start
  BY <1>1, <1>2 DEF Start
<1>3. CASE Abandon \/ Release
  BY <1>1, <1>3, IdleReadable
     DEF Abandon, Release, RemoveFinalizer, ObjectType
<1>4. CASE ConnectFails \/ ObserveFails \/ StartDestroy \/ ReportMissing
             \/ StartUpdate \/ Rest
  BY <1>1, <1>4, IdleReadable
     DEF ConnectFails, ObserveFails, StartDestroy, ReportMissing, StartUpdate,
         Rest
<1>5. CASE Connect \/ StartCreate
  BY <1>1, <1>5 DEF Connect, StartCreate
<1>6. CASE Observe
  <2>1. mr' = mr
    BY <1>6 DEF Observe
  <2>2. \/ seen' = seen
        \/ \E id : \E x \in Found(id) :
             seen' = [seen EXCEPT
               !.name = IF verdict' = "unnamed"
                        THEN GetExternalName(Config, id) ELSE @]
    BY <1>6 DEF Observe
  <2>3. seen'.name \in Readable
    BY <1>1, <2>2, FoundIsReadable DEF ObjectType, Readable
  <2>4. QED
    BY <1>1, <2>1, <2>3
<1>7. CASE MarkCreated
  BY <1>1, <1>7, IdleReadable DEF MarkCreated, ObjectType
<1>8. CASE AddFinalizer \/ MarkPending \/ Record \/ MarkAvailable
  <2>1. PICK o, next : o.name = seen.name /\ Write(o, next)
    BY <1>1, <1>8
       DEF AddFinalizer, MarkPending, Record, MarkAvailable, ObjectType
  <2>2. mr'.name \in Readable /\ seen'.name \in Readable
    BY <1>1, <2>1, WriteReadable
  <2>3. QED
    BY <2>2
<1>9. QED
  BY <1>2, <1>3, <1>4, <1>5, <1>6, <1>7, <1>8 DEF ReconcileStep

\* No other step writes the object or the worker's copy, but a crash drops the
\* copy.
LEMMA OtherStepReadable ==
  ASSUME ReadInv, OperationStep \/ LoseResource \/ Crash
  PROVE  mr'.name \in Readable /\ seen'.name \in Readable
<1>1. mr' = mr /\ (seen' = seen \/ seen' = Absent)
  BY DEF OperationStep, ApplyCreates, ApplyUpdates, Destroys, OpEnds, Callback,
         LoseResource, Crash, Idle, worker
<1>2. QED
  BY <1>1 DEF ReadInv, Absent, NewObject, Readable

LEMMA AlwaysReadInv == Spec => []ReadInv
<1>1. Init => ReadInv
  BY InitType DEF Init, ReadInv, Absent, NewObject, Readable
<1>2. ReadInv /\ [Next]_vars => mr'.name \in Readable /\ seen'.name \in Readable
  <2> SUFFICES ASSUME ReadInv, [Next]_vars
               PROVE  mr'.name \in Readable /\ seen'.name \in Readable
    OBVIOUS
  <2>1. CASE UNCHANGED vars
    BY <2>1 DEF vars, worker, ReadInv
  <2>2. QED
    BY <2>1, UserStepReadable, ReconcileStepReadable, OtherStepReadable DEF Next
<1>3. ReadInv /\ [Next]_vars /\ TypeOK' => ReadInv'
  BY <1>2 DEF ReadInv
<1>4. QED
  BY <1>1, <1>3, AlwaysTypeOK, PTL DEF Spec

\* For every kind, also those whose annotation drifts away from the leaf
\* (WithProjectID), what the annotation holds always names a resource: it is its leaf
\* or its import path, and never a path of a path.
NameNamesResource ==
  mr.name # EmptyStr => \E x \in Resource : mr.name \in {<<x>>, Path(x)}

THEOREM AlwaysNamesResource == Spec => []NameNamesResource
<1>1. ReadInv => NameNamesResource
  BY ReadableNames DEF ReadInv, Readable, NameNamesResource
<1>2. QED
  BY <1>1, AlwaysReadInv, PTL

\* The external name is always the leaf resource id (docs/external-names.md),
\* for every kind whose GetExternalNameFn undoes its GetIDFn, through creation,
\* import, edits, losses and crashes.
THEOREM AlwaysNameIsLeaf ==
  ASSUME Kind \in ReversibleKinds
  PROVE  Spec => []NameIsLeaf
<1>1. ReadInv => NameIsLeaf
  BY ReadableIsLeaf DEF ReadInv, NameIsLeaf
<1>2. QED
  BY <1>1, AlwaysReadInv, PTL

-------------------------------------------------------------------------------
(* Destruction. *)

\* A worker or a destroy that takes the object for deleted is right, although
\* both act on what was read earlier; and a write to the object can only get
\* through while the copy agrees with it.
DeletingInv ==
  /\ TypeOK
  /\ mr.phase = "absent" => ~mr.deleting
  /\ seen.deleting => mr.deleting
  /\ ws.op = "destroy" => mr.deleting
  /\ fresh => (mr.deleting <=> seen.deleting)

LEMMA IdleDeleting == Idle => ~seen'.deleting /\ fresh' = FALSE
BY DEF Idle, Absent, NewObject

LEMMA InitDeleting == Init => DeletingInv
BY InitType DEF Init, DeletingInv, Absent, NewObject, NoWorkspace

\* What the invariant says of the next state, without its type.
DeletingNext ==
  /\ mr'.phase = "absent" => ~mr'.deleting
  /\ seen'.deleting => mr'.deleting
  /\ ws'.op = "destroy" => mr'.deleting
  /\ fresh' => (mr'.deleting <=> seen'.deleting)

LEMMA UserStepDeleting == DeletingInv /\ UserStep => DeletingNext
<1> SUFFICES ASSUME DeletingInv, UserStep PROVE DeletingNext
  OBVIOUS
<1>1. mr \in ObjectType
  BY DEF DeletingInv, TypeOK
<1>2. CASE CreateObject
  BY <1>2 DEF CreateObject, NewObject, worker, DeletingInv, DeletingNext
<1>3. CASE EditSpec
  BY <1>1, <1>3 DEF EditSpec, ObjectType, DeletingInv, DeletingNext
<1>4. CASE DeleteObject
  BY <1>1, <1>4 DEF DeleteObject, ObjectType, DeletingInv, DeletingNext
<1>5. CASE ClearPending
  BY <1>1, <1>5 DEF ClearPending, ObjectType, worker, DeletingInv, DeletingNext
<1>6. QED
  BY <1>2, <1>3, <1>4, <1>5 DEF UserStep

\* Objects are only written while the worker acts on one that is not deleted.
LEMMA WriteDeleting ==
  ASSUME DeletingInv, ~seen.deleting, NEW o, ~o.deleting,
         NEW next, Write(o, next), UNCHANGED ws
  PROVE  DeletingNext
<1>1. CASE fresh
  BY <1>1, IdleDeleting
     DEF Write, DeletingInv, DeletingNext, Absent, NewObject
<1>2. CASE ~fresh
  BY <1>2, IdleDeleting DEF Write, DeletingInv, DeletingNext
<1>3. QED
  BY <1>1, <1>2

LEMMA ReconcileStepDeleting == DeletingInv /\ ReconcileStep => DeletingNext
<1> SUFFICES ASSUME DeletingInv, ReconcileStep PROVE DeletingNext
  OBVIOUS
<1>1. mr \in ObjectType /\ seen \in ObjectType /\ ws \in WsType
  BY DEF DeletingInv, TypeOK, WsType
<1>2. CASE Start
  BY <1>2 DEF Start, DeletingInv, DeletingNext
<1>3. CASE Abandon \/ Release
  <2>1. mr'.deleting = mr.deleting /\ ws'.op = ws.op
        /\ (mr'.phase = mr.phase \/ mr'.phase = "gone")
    BY <1>1, <1>3 DEF Abandon, Release, RemoveFinalizer, ObjectType, WsType
  <2>2. Idle
    BY <1>3 DEF Abandon, Release, RemoveFinalizer
  <2>3. QED
    BY <2>1, <2>2, IdleDeleting DEF DeletingInv, DeletingNext
<1>4. CASE ConnectFails \/ ObserveFails \/ ReportMissing \/ Rest
  BY <1>4, IdleDeleting
     DEF ConnectFails, ObserveFails, ReportMissing, Rest, DeletingInv,
         DeletingNext
<1>5. CASE Connect
  BY <1>1, <1>5 DEF Connect, WsType, DeletingInv, DeletingNext
<1>6. CASE Observe
  <2>1. mr' = mr /\ fresh' = fresh
    BY <1>6 DEF Observe
  <2>2. seen'.deleting = seen.deleting /\ ws'.op = ws.op
    BY <1>1, <1>6 DEF Observe, ObjectType, WsType
  <2>3. QED
    BY <2>1, <2>2 DEF DeletingInv, DeletingNext
<1>7. CASE StartDestroy
  BY <1>1, <1>7, IdleDeleting
     DEF StartDestroy, StartOp, WsType, DeletingInv, DeletingNext
<1>8. CASE StartUpdate
  BY <1>1, <1>8, IdleDeleting
     DEF StartUpdate, StartOp, WsType, DeletingInv, DeletingNext
<1>9. CASE StartCreate
  BY <1>1, <1>9 DEF StartCreate, StartOp, WsType, DeletingInv, DeletingNext
<1>10. CASE MarkCreated
  BY <1>1, <1>10, IdleDeleting
     DEF MarkCreated, ObjectType, DeletingInv, DeletingNext
<1>11. CASE AddFinalizer \/ MarkPending \/ Record \/ MarkAvailable
  <2>1. PICK o, next : o.deleting = seen.deleting /\ Write(o, next)
    BY <1>1, <1>11
       DEF AddFinalizer, MarkPending, Record, MarkAvailable, ObjectType
  <2>2. ~seen.deleting /\ ws' = ws
    BY <1>11 DEF AddFinalizer, MarkPending, Record, MarkAvailable, Acting
  <2>3. QED
    BY <2>1, <2>2, WriteDeleting
<1>12. QED
  BY <1>2, <1>3, <1>4, <1>5, <1>6, <1>7, <1>8, <1>9, <1>10, <1>11
     DEF ReconcileStep

LEMMA OtherStepDeleting ==
  DeletingInv /\ (OperationStep \/ LoseResource \/ Crash) => DeletingNext
<1> SUFFICES ASSUME DeletingInv, OperationStep \/ LoseResource \/ Crash
             PROVE  DeletingNext
  OBVIOUS
<1>1. ws \in WsType
  BY DEF DeletingInv, TypeOK, WsType
<1>2. CASE OperationStep
  <2>1. mr' = mr /\ seen' = seen /\ (fresh' = fresh \/ fresh' = FALSE)
    BY <1>2 DEF OperationStep, ApplyCreates, ApplyUpdates, Destroys, OpEnds,
                Callback, worker
  <2>2. ws'.op = ws.op \/ ws'.op = "none"
    BY <1>1, <1>2 DEF OperationStep, ApplyCreates, ApplyUpdates, Destroys,
                      OpEnds, Callback, WsType
  <2>3. QED
    BY <2>1, <2>2 DEF DeletingInv, DeletingNext
<1>3. CASE LoseResource
  BY <1>3 DEF LoseResource, worker, DeletingInv, DeletingNext
<1>4. CASE Crash
  BY <1>4, IdleDeleting DEF Crash, NoWorkspace, DeletingInv, DeletingNext
<1>5. QED
  BY <1>2, <1>3, <1>4

LEMMA NextDeleting == DeletingInv /\ [Next]_vars => DeletingNext
<1> SUFFICES ASSUME DeletingInv, [Next]_vars PROVE DeletingNext
  OBVIOUS
<1>1. CASE UNCHANGED vars
  BY <1>1 DEF vars, worker, DeletingInv, DeletingNext
<1>2. QED
  BY <1>1, UserStepDeleting, ReconcileStepDeleting, OtherStepDeleting DEF Next

\* The provider destroys a resource only when its object is being deleted: the
\* destroy is started on an older copy of the object and runs on in the
\* background, but no deletion is ever taken back.
THEOREM AlwaysDestroyedOnRequest == Spec => DestroyedOnRequest
<1>1. DeletingInv /\ [Next]_vars /\ TypeOK' => DeletingInv'
  BY NextDeleting DEF DeletingInv, DeletingNext
<1>2. DeletingInv /\ [Next]_vars =>
        [\A x \in Resource :
           Live(x) /\ ~Live(x)' /\ losses' = losses => mr.deleting]_vars
  <2> SUFFICES ASSUME DeletingInv, Next, NEW x \in Resource,
                      Live(x), ~Live(x)', losses' = losses
               PROVE  mr.deleting
    OBVIOUS
  <2>1. cloud' # cloud /\ losses \in Nat /\ cloud \in CloudType
    BY BoundsAreNat DEF Live, DeletingInv, TypeOK, CloudType
  <2>2. ~UserStep
    BY <2>1 DEF UserStep, CreateObject, EditSpec, DeleteObject, ClearPending
  <2>3. ~ReconcileStep
    <3>1. ~(Start \/ Connect \/ ConnectFails \/ Observe \/ ObserveFails)
      BY <2>1 DEF Start, Connect, ConnectFails, Observe, ObserveFails
    <3>2. ~(Abandon \/ Release)
      BY <2>1 DEF Abandon, Release, RemoveFinalizer
    <3>3. ~(StartDestroy \/ ReportMissing \/ StartCreate \/ MarkCreated
              \/ StartUpdate \/ Rest)
      BY <2>1 DEF StartDestroy, ReportMissing, StartCreate, MarkCreated,
                  StartUpdate, Rest
    <3>4. ~(AddFinalizer \/ MarkPending \/ Record \/ MarkAvailable)
      BY <2>1 DEF AddFinalizer, MarkPending, Record, MarkAvailable
    <3>5. QED
      BY <3>1, <3>2, <3>3, <3>4 DEF ReconcileStep
  <2>4. ~LoseResource /\ ~Crash /\ ~OpEnds /\ ~Callback
    BY <2>1 DEF LoseResource, Crash, OpEnds, Callback
  <2>5. ~ApplyCreates
    <3> SUFFICES ASSUME ApplyCreates PROVE FALSE
      OBVIOUS
    <3>1. PICK y \in Resource :
            cloud' = [cloud EXCEPT ![y] = [state |-> "live", gen |-> ws.main]]
      BY DEF ApplyCreates
    <3>2. cloud'[x].state = "live"
      BY <3>1, <2>1 DEF Live, CloudType
    <3>3. QED
      BY <3>2 DEF Live
  <2>6. ~ApplyUpdates
    <3> SUFFICES ASSUME ApplyUpdates PROVE FALSE
      OBVIOUS
    <3>1. PICK y \in Resource : cloud' = [cloud EXCEPT ![y].gen = ws.main]
      BY DEF ApplyUpdates, Found
    <3>2. cloud'[x].state = "live"
      BY <3>1, <2>1 DEF Live, CloudType
    <3>3. QED
      BY <3>2 DEF Live
  <2>7. Destroys
    BY <2>2, <2>3, <2>4, <2>5, <2>6 DEF Next, OperationStep
  <2>8. ws.op = "destroy"
    BY <2>7 DEF Destroys
  <2>9. QED
    BY <2>8 DEF DeletingInv
<1>3. QED
  BY <1>1, <1>2, InitDeleting, AlwaysTypeOK, PTL DEF Spec, DestroyedOnRequest
===============================================================================
