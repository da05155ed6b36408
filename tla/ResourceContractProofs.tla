------------------------- MODULE ResourceContractProofs -------------------------
(***************************************************************************)
(* One object, one resource: for every kind whose GetExternalNameFn undoes *)
(* its GetIDFn and every value of the constants the controller implements  *)
(* ResourceContract. The whole argument is one invariant: what exists and  *)
(* is known has its name in the annotation, or its id in the workspace.    *)
(* The last section adds that what was destroyed is never made again.      *)
(***************************************************************************)
EXTENDS ManagedResourceProofs

-------------------------------------------------------------------------------
(* Ids *)

\* The two ids that name x.
Names(id, x) == x \in Resource /\ id \in {<<x>>, Path(x)}

LEMMA FoundNames == \A id : Found(id) = {x \in Resource : Names(id, x) /\ Live(x)}
BY DEF Found, Names

\* What names a resource is read as its leaf, so that it names no other.
LEMMA NamesIsRead ==
  ASSUME Kind \in ReversibleKinds, NEW id, NEW x, Names(id, x)
  PROVE  x \in Name /\ GetExternalName(Config, id) = <<x>>
<1>1. x \in Name /\ x \in Segment
  BY ResourceAssumption DEF Names, Segment
<1>2. CASE id = <<x>>
  BY <1>1, <1>2, KindIsKind, LeafStaysLeaf DEF Config
<1>3. CASE id = GetID(Config, <<x>>, Params)
  BY <1>1, <1>3, RoundTrip, ParamsFlat DEF Config
<1>4. QED
  BY <1>1, <1>2, <1>3 DEF Path, Names

LEMMA NamesOne ==
  ASSUME Kind \in ReversibleKinds, NEW id, NEW x, NEW y, Names(id, x), Names(id, y)
  PROVE  x = y
BY NamesIsRead

\* A name gives an id that names its resource; no state, the empty state and the id
\* made of an empty annotation name nothing.
LEMMA PathNames == \A x \in Resource : Names(Path(x), x) /\ Names(StoredId(x), x)
BY DEF Names, StoredId

LEMMA NothingNamed ==
  ASSUME Kind \in ReversibleKinds, NEW x,
         NEW id \in {NoState, EmptyStr, GetID(Config, EmptyStr, Params)}
  PROVE  ~Names(id, x)
<1> SUFFICES ASSUME Names(id, x) PROVE FALSE
  OBVIOUS
<1>1. x \in Name /\ GetExternalName(Config, id) = <<x>>
  BY NamesIsRead
<1>2. id # NoState
  <2>1. <<x>> # <<>>
    OBVIOUS
  <2>2. Path(x) \in Str
    BY GetIDType, NamesAreStr DEF Path, Names
  <2>3. QED
    BY <2>1, <2>2 DEF Names, Str, NoState
<1>3. Blank \in Segment
  BY DEF Segment
<1>4. GetExternalName(Config, EmptyStr) = EmptyStr
  BY <1>3, KindIsKind, LeafStaysLeaf DEF Config, EmptyStr
<1>5. GetExternalName(Config, GetID(Config, EmptyStr, Params)) = EmptyStr
  BY <1>3, RoundTrip, ParamsFlat DEF Config, EmptyStr
<1>6. <<x>> = <<Blank>>
  BY <1>1, <1>2, <1>4, <1>5 DEF EmptyStr
<1>7. QED
  BY <1>1, <1>6, BlankIsNoName

-------------------------------------------------------------------------------
(* The invariant *)

\* The worker's copy: what a write sends and what a decision rests on.
CopyInv ==
  /\ pc = "idle" => seen = Absent
  /\ pc \in {"idle", "connect", "observe"} => verdict = "none"
  /\ pc # "idle" => seen.phase = "present"
  /\ fresh => pc # "idle" /\ seen = [mr EXCEPT !.name = seen.name]
  /\ pc # "idle" /\ verdict # "unnamed" => seen.name = mr.name
  /\ seen.finalizer => mr.phase = "present" /\ mr.finalizer
  /\ seen.deleting => seen.finalizer
  /\ pc \in {"create", "created"} => seen.finalizer

\* The object: before it is there nothing is, and a deletion waits for a finalizer.
ObjectInv ==
  /\ mr.phase = "absent" =>
       /\ mr = Absent /\ pc = "idle" /\ ws.op = "none" /\ ws.tfid = NoState
       /\ made = {} /\ recorded = {} /\ adopted = None
  /\ mr.phase = "present" /\ mr.deleting => mr.finalizer

Held == mr.phase = "present" /\ mr.finalizer
Kept == mr.phase = "gone" /\ "Delete" \notin mr.policies

\* Operations belong to an object that is held, or was left by one whose policies
\* keep what it leaves, and none runs while a missing resource is acted upon.
OperationInv ==
  /\ ws.op = "apply" => Held \/ Kept
  /\ seen.deleting \/ ws.op = "destroy" =>
       Held /\ mr.deleting /\ "Delete" \in mr.policies
  /\ verdict = "missing" /\ pc \in {"act", "create"} =>
       ws.tfid = NoState /\ ws.op = "none"

Ours == made \cup {adopted}
Named(y) == mr.name = <<y>> /\ Live(y)

\* The state in the workspace and the annotation agree.
StateInv ==
  /\ \A y \in Resource : Named(y) =>
       \/ Names(ws.tfid, y)
       \/ ws.tfid = NoState /\ ws.op = "none" /\ pc \in {"idle", "connect"}
  /\ \A y \in Resource : mr.name = <<y>> => y \in Ours
  /\ \A x \in Resource : Names(ws.tfid, x) => x \in Ours
  /\ verdict = "unnamed" =>
       /\ pc = "act" /\ ws.op = "none"
       /\ \E x \in Ours : Names(ws.tfid, x) /\ seen.name = <<x>>

\* What is known and alive has its name in the annotation, or else its id in the
\* workspace, while the annotation names nothing that exists.
KnownInv ==
  mr.phase # "gone" \/ ws.op # "none" =>
    \A x \in Known : Live(x) =>
      mr.name = <<x>> \/ (Names(ws.tfid, x) /\ \A y \in Resource : ~Named(y))

HistoryInv ==
  /\ \A x \in made \cup recorded : cloud[x].state # "free"
  /\ exposed \subseteq made
  /\ \A x \in recorded : Live(x) => mr.name = <<x>>
  /\ recorded \subseteq Ours
  /\ adopted # None => adopted \in recorded
  /\ \A x \in made \ exposed : Live(x) => Held \/ Kept

WorkerInv == CopyInv /\ ObjectInv /\ OperationInv
IdInv == StateInv /\ KnownInv /\ HistoryInv /\ OneResource /\ AdoptionHolds

OwnInv == TypeOK /\ NameIsLeaf /\ WorkerInv /\ IdInv

-------------------------------------------------------------------------------
(* The worker, the object and the operation *)

\* The last clause of StateInv is what lets the worker's copy carry a name that
\* the object does not have yet.
Worker == TypeOK /\ WorkerInv

LEMMA Types ==
  ASSUME TypeOK
  PROVE  /\ mr \in ObjectType /\ seen \in ObjectType /\ ws \in WsType
         /\ cloud \in CloudType
BY DEF TypeOK, WsType, CloudType

LEMMA AbsentIs ==
  /\ Absent.phase = "absent" /\ Absent.name = EmptyStr
  /\ ~Absent.finalizer /\ ~Absent.deleting
BY DEF Absent, NewObject

LEMMA InitWorker == Init => WorkerInv
BY AbsentIs DEF Init, WorkerInv, CopyInv, ObjectInv, OperationInv, NoWorkspace

\* A reconcile that ends leaves only the object and the operation to look at.
LEMMA IdleWorker ==
  ASSUME Worker, Idle, mr.phase # "absent", mr'.phase = mr.phase,
         mr'.finalizer = mr.finalizer, mr'.deleting = mr.deleting,
         mr'.policies = mr.policies,
         ws'.op = ws.op \/ ws'.op = "none"
           \/ (ws'.op = "apply" /\ seen.finalizer)
           \/ (ws'.op = "destroy" /\ seen.deleting)
  PROVE  WorkerInv'
BY AbsentIs DEF Worker, WorkerInv, CopyInv, ObjectInv, OperationInv, Idle, Held, Kept

LEMMA UserStepWorker == Worker /\ UserStep => WorkerInv'
<1> SUFFICES ASSUME Worker, UserStep PROVE WorkerInv'
  OBVIOUS
<1> USE DEF Worker, WorkerInv, CopyInv, ObjectInv, OperationInv, Held, Kept, worker
<1>1. mr \in ObjectType /\ seen \in ObjectType
  BY Types
<1>2. CASE CreateObject
  <2>1. PICK n, P : mr' = NewObject(n, P)
    BY <1>2 DEF CreateObject
  <2>2. mr'.phase = "present" /\ ~mr'.finalizer /\ ~mr'.deleting
    BY <2>1 DEF NewObject
  <2>3. QED
    BY <1>2, <2>2, AbsentIs DEF CreateObject
<1>3. CASE EditSpec
  BY <1>1, <1>3, AbsentIs DEF EditSpec, ObjectType
<1>4. CASE DeleteObject
  BY <1>1, <1>4, AbsentIs DEF DeleteObject, ObjectType
<1>5. CASE ClearPending
  BY <1>1, <1>5, AbsentIs DEF ClearPending, ObjectType
<1>6. QED
  BY <1>2, <1>3, <1>4, <1>5 DEF UserStep

\* Writing an object that differs from the copy in the annotations or the
\* finalizer only.
LEMMA WriteWorker ==
  ASSUME Worker, pc = "act", ~seen.deleting,
         NEW o \in ObjectType, NEW next \in {"idle", "act", "create"},
         Write(o, next), UNCHANGED ws,
         o.phase = seen.phase, o.deleting = seen.deleting, o.name = seen.name,
         o.policies = seen.policies, o.finalizer
  PROVE  WorkerInv'
<1> USE DEF Worker, WorkerInv, CopyInv, ObjectInv, OperationInv, Held, Kept
<1>1. mr \in ObjectType /\ seen \in ObjectType /\ o.phase = "present"
  BY Types
<1>2. CASE ~fresh
  <2>1. Idle /\ mr' = mr
    BY <1>2 DEF Write
  <2>2. QED
    BY <2>1, IdleWorker
<1>3. CASE fresh
  <2>1. mr' = o /\ ~mr.deleting /\ mr.phase = "present"
    BY <1>1, <1>3 DEF Write, ObjectType
  <2>2. ws'.op # "destroy"
    BY <2>1
  <2>3. CASE next = "idle"
    <3>1. seen' = Absent /\ fresh' = FALSE /\ pc' = "idle" /\ verdict' = "none"
      BY <1>3, <2>3 DEF Write
    <3>2. QED
      BY <1>1, <2>1, <2>2, <3>1, AbsentIs
  <2>4. CASE next # "idle"
    <3>1. seen' = o /\ fresh' = TRUE /\ pc' = next /\ verdict' = verdict
      BY <1>3, <2>4 DEF Write
    <3>2. mr' = [mr' EXCEPT !.name = seen'.name]
      BY <2>1, <3>1 DEF ObjectType
    <3>3. QED
      BY <1>1, <2>1, <2>2, <2>4, <3>1, <3>2
  <2>5. QED
    BY <2>3, <2>4
<1>4. QED
  BY <1>2, <1>3

LEMMA ReconcileStepWorker == Worker /\ ReconcileStep => WorkerInv'
<1> SUFFICES ASSUME Worker, ReconcileStep PROVE WorkerInv'
  OBVIOUS
<1>1. mr \in ObjectType /\ seen \in ObjectType /\ ws \in WsType
  BY Types DEF Worker
<1>2. pc # "idle" => mr.phase # "absent"
  BY DEF Worker, WorkerInv, ObjectInv
<1>3. CASE Start
  <2>1. mr = [mr EXCEPT !.name = mr.name]
    BY <1>1 DEF ObjectType
  <2>2. QED
    BY <1>3, <2>1 DEF Start, Worker, WorkerInv, CopyInv, ObjectInv, OperationInv,
                      Held, Kept, ShouldDelete
<1>4. CASE Abandon
  <2>1. mr'.phase = "gone" /\ ~mr'.finalizer /\ mr'.policies = mr.policies
    BY <1>1, <1>4 DEF Abandon, RemoveFinalizer, ObjectType
  <2>2. ws'.op = ws.op /\ "Delete" \notin mr.policies
    BY <1>1, <1>4 DEF Abandon, RemoveFinalizer, WsType, ShouldDelete
  <2>3. QED
    BY <1>4, <2>1, <2>2, AbsentIs
       DEF Abandon, RemoveFinalizer, Idle, Worker, WorkerInv, CopyInv, ObjectInv,
           OperationInv, Held, Kept
<1>5. CASE ConnectFails \/ ObserveFails \/ ReportMissing \/ Rest
  <2>1. Idle /\ UNCHANGED <<mr, ws>> /\ pc # "idle"
    BY <1>5 DEF ConnectFails, ObserveFails, ReportMissing, Rest, Acting
  <2>2. QED
    BY <2>1, <1>2, IdleWorker
<1>6. CASE Connect
  BY <1>1, <1>6 DEF Connect, WsType, Worker, WorkerInv, CopyInv, ObjectInv,
                    OperationInv, Held, Kept
<1>7. CASE Observe
  <2>1. /\ mr' = mr /\ ws'.op = ws.op /\ pc' = "act" /\ fresh' = fresh
        /\ verdict' # "unnamed" => seen' = seen
        /\ seen' = [seen EXCEPT !.name = seen'.name]
    BY <1>1, <1>7 DEF Observe, ObjectType, WsType
  <2>2. /\ seen'.phase = seen.phase /\ seen'.deleting = seen.deleting
        /\ seen'.finalizer = seen.finalizer
    BY <1>1, <2>1 DEF ObjectType
  <2>3. seen = [mr EXCEPT !.name = seen.name]
          => seen' = [mr EXCEPT !.name = seen'.name]
    BY <1>1, <2>1 DEF ObjectType
  <2>4. pc = "observe" /\ verdict = "none"
    BY <1>7 DEF Observe, Worker, WorkerInv, CopyInv
  <2>5. verdict' = "missing" => ws'.tfid = NoState /\ ws'.op = "none"
    <3>1. "missing" \notin {"running", "unnamed", "unready", "drifted", "current"}
      OBVIOUS
    <3>2. \A x, id : Judge(x, id) # "missing"
      BY DEF Judge
    <3>3. QED
      BY <1>1, <1>7, <3>1, <3>2 DEF Observe, WsType
  <2>6. QED
    BY <1>2, <2>1, <2>2, <2>3, <2>4, <2>5
       DEF Worker, WorkerInv, CopyInv, ObjectInv, OperationInv, Held, Kept
<1>8. CASE StartDestroy \/ StartUpdate
  <2>1. Idle /\ mr' = mr /\ pc # "idle"
    BY <1>8 DEF StartDestroy, StartUpdate, Acting
  <2>2. \/ ws'.op = ws.op
        \/ ws'.op = "apply" /\ seen.finalizer
        \/ ws'.op = "destroy" /\ seen.deleting
    BY <1>1, <1>8 DEF StartDestroy, StartUpdate, StartOp, WsType
  <2>3. QED
    BY <2>1, <2>2, <1>2, IdleWorker
<1>9. CASE Release
  <2>1. CASE fresh
    <3>1. mr'.phase = "gone" /\ ~mr'.finalizer /\ mr'.policies = mr.policies
      BY <1>1, <1>9, <2>1 DEF Release, RemoveFinalizer, ObjectType
    <3>2. ws'.op = "none"
      BY <1>1, <1>9 DEF Release, RemoveFinalizer, WsType, Worker, WorkerInv,
                        OperationInv
    <3>3. QED
      BY <1>9, <3>1, <3>2, AbsentIs
         DEF Release, RemoveFinalizer, Idle, Worker, WorkerInv, CopyInv, ObjectInv,
             OperationInv, Held, Kept
  <2>2. CASE ~fresh
    <3>1. Idle /\ mr' = mr /\ pc = "act" /\ ws'.op = ws.op
      BY <1>1, <1>9, <2>2 DEF Release, RemoveFinalizer, WsType
    <3>2. QED
      BY <3>1, <1>2, IdleWorker
  <2>3. QED
    BY <2>1, <2>2
<1>10. CASE StartCreate
  BY <1>1, <1>10 DEF StartCreate, StartOp, WsType, Worker, WorkerInv, CopyInv,
                     ObjectInv, OperationInv, Held, Kept
<1>11. CASE MarkCreated
  <2>1. Idle /\ ws' = ws /\ pc = "created"
    BY <1>11 DEF MarkCreated
  <2>2. /\ mr'.phase = mr.phase /\ mr'.finalizer = mr.finalizer
        /\ mr'.deleting = mr.deleting /\ mr'.policies = mr.policies
    BY <1>1, <1>11 DEF MarkCreated, ObjectType
  <2>3. QED
    BY <2>1, <2>2, <1>2, IdleWorker
<1>12. CASE AddFinalizer \/ MarkPending \/ Record \/ MarkAvailable
  <2>1. /\ [seen EXCEPT !.finalizer = TRUE] \in ObjectType
        /\ [seen EXCEPT !.create = "pending"] \in ObjectType
        /\ [seen EXCEPT !.ready = TRUE] \in ObjectType
    BY <1>1 DEF ObjectType
  <2>2. pc = "act" /\ ~seen.deleting /\ UNCHANGED ws
    BY <1>12 DEF AddFinalizer, MarkPending, Record, MarkAvailable, Acting
  <2>3. PICK o \in ObjectType, next \in {"idle", "act", "create"} :
          /\ Write(o, next) /\ o.finalizer
          /\ o.phase = seen.phase /\ o.deleting = seen.deleting
          /\ o.name = seen.name /\ o.policies = seen.policies
    BY <1>1, <1>12, <2>1
       DEF AddFinalizer, MarkPending, Record, MarkAvailable, ObjectType
  <2>4. QED
    BY <2>2, <2>3, WriteWorker
<1>13. QED
  BY <1>3, <1>4, <1>5, <1>6, <1>7, <1>8, <1>9, <1>10, <1>11, <1>12
     DEF ReconcileStep

LEMMA OtherStepWorker ==
  Worker /\ (OperationStep \/ LoseResource \/ Crash) => WorkerInv'
<1> SUFFICES ASSUME Worker, OperationStep \/ LoseResource \/ Crash PROVE WorkerInv'
  OBVIOUS
<1> USE DEF Worker, WorkerInv, CopyInv, ObjectInv, OperationInv, Held, Kept
<1>1. ws \in WsType
  BY Types
<1>2. CASE OperationStep
  <2>1. /\ UNCHANGED <<mr, pc, seen, verdict, recorded, adopted>>
        /\ fresh' = fresh \/ fresh' = FALSE
    BY <1>2 DEF OperationStep, ApplyCreates, ApplyUpdates, Destroys, OpEnds,
                Callback, worker, hist
  <2>2. ws'.op = ws.op \/ ws'.op = "none"
    BY <1>1, <1>2 DEF OperationStep, ApplyCreates, ApplyUpdates, Destroys,
                      OpEnds, Callback, WsType
  <2>3. mr.phase = "absent" => ws'.tfid = NoState /\ made' = made
    BY <1>1, <1>2 DEF OperationStep, ApplyCreates, ApplyUpdates, Destroys,
                      OpEnds, Callback, WsType, hist
  <2>4. ws.op = "none" => ws'.op = "none" /\ ws'.tfid = ws.tfid
    BY <1>1, <1>2 DEF OperationStep, ApplyCreates, ApplyUpdates, Destroys,
                      OpEnds, Callback, WsType
  <2>5. QED
    BY <2>1, <2>2, <2>3, <2>4
<1>3. CASE LoseResource
  BY <1>3 DEF LoseResource, worker, hist
<1>4. CASE Crash
  BY <1>4, AbsentIs DEF Crash, NoWorkspace, Idle
<1>5. QED
  BY <1>2, <1>3, <1>4

-------------------------------------------------------------------------------
(* Ids and the history, for the reversible kinds *)

LEMMA EmptyIsNoName == \A x \in Resource : EmptyStr # <<x>>
BY ResourceAssumption, BlankIsNoName DEF EmptyStr

LEMMA InitId ==
  ASSUME Kind \in ReversibleKinds, Init
  PROVE  IdInv
<1>1. /\ mr.name = EmptyStr /\ verdict = "none" /\ ws.tfid = NoState
      /\ ws.op = "none" /\ pc = "idle"
      /\ made = {} /\ recorded = {} /\ exposed = {} /\ adopted = None
  BY AbsentIs DEF Init, NoWorkspace
<1>2. \A x \in Resource : ~Names(NoState, x)
  BY NothingNamed
<1>3. StateInv
  BY <1>1, <1>2, EmptyIsNoName DEF StateInv, Named
<1>4. KnownInv /\ HistoryInv /\ OneResource /\ AdoptionHolds
  BY <1>1 DEF KnownInv, HistoryInv, OneResource, AdoptionHolds, Known
<1>5. QED
  BY <1>3, <1>4 DEF IdInv

\* While the id in the workspace finds nothing the annotation names nothing that
\* exists, and nothing is known that does.
LEMMA NoneAlive ==
  ASSUME OwnInv, Found(ws.tfid) = {},
         ws.op # "none" \/ pc \notin {"idle", "connect"}
  PROVE  /\ \A y \in Resource : ~Named(y)
         /\ mr.phase # "gone" \/ ws.op # "none" => \A x \in Known : ~Live(x)
<1>1. \A y \in Resource : Live(y) => ~Names(ws.tfid, y)
  BY FoundNames
<1>2. \A y \in Resource : ~Named(y)
  BY <1>1 DEF OwnInv, IdInv, StateInv, Named
<1>3. Known \subseteq Resource
  BY DEF Known, OwnInv, TypeOK
<1>4. QED
  BY <1>1, <1>2, <1>3 DEF OwnInv, IdInv, KnownInv, Named

\* What most steps leave alone.
Quiet ==
  /\ mr'.name = mr.name /\ ws'.tfid = ws.tfid /\ UNCHANGED hist
  /\ \A x \in Resource :
       /\ Live(x)' => Live(x)
       /\ cloud[x].state # "free" => cloud'[x].state # "free"
  /\ ws.op = "none" /\ pc \in {"idle", "connect"} =>
       ws.tfid # NoState \/ (ws'.op = "none" /\ pc' \in {"idle", "connect"})
  /\ verdict' = "unnamed" =>
       /\ verdict = "unnamed" /\ pc' = "act" /\ seen'.name = seen.name
       /\ ws.op = "none" => ws'.op = "none"
  /\ mr.phase = "gone" /\ ws.op = "none" => mr'.phase = "gone" /\ ws'.op = "none"
  /\ Held \/ Kept => Held' \/ Kept'

LEMMA QuietKeepsId == OwnInv /\ Quiet => IdInv'
<1> SUFFICES ASSUME OwnInv, Quiet PROVE IdInv'
  OBVIOUS
<1>1. /\ UNCHANGED <<made, recorded, adopted, exposed, Ours, Known>>
      /\ mr'.name = mr.name /\ ws'.tfid = ws.tfid
  BY DEF Quiet, hist, Ours, Known
<1>2. /\ made \subseteq Resource /\ recorded \subseteq Resource
      /\ Known \subseteq Resource /\ adopted \in Resource \cup {None}
  BY DEF OwnInv, TypeOK, Known
<1>3. \A y \in Resource : Named(y)' => Named(y)
  BY <1>1 DEF Named, Quiet
<1>4. \A id, x : Names(id, x)' <=> Names(id, x)
  BY DEF Names, Path
<1>5. StateInv'
  BY <1>1, <1>3, <1>4 DEF OwnInv, IdInv, StateInv, Quiet
<1>6. KnownInv'
  BY <1>1, <1>2, <1>3, <1>4 DEF OwnInv, IdInv, KnownInv, Quiet
<1>7. HistoryInv'
  BY <1>1, <1>2 DEF OwnInv, IdInv, HistoryInv, Quiet
<1>8. OneResource' /\ AdoptionHolds'
  BY <1>1, <1>2 DEF OwnInv, IdInv, OneResource, AdoptionHolds, Quiet
<1>9. QED
  BY <1>5, <1>6, <1>7, <1>8 DEF IdInv

\* An end of the reconcile that leaves the id in the workspace.
LEMMA IdleQuiet ==
  ASSUME OwnInv, Idle, UNCHANGED <<cloud, hist>>,
         mr'.name = mr.name, mr'.phase = mr.phase, mr'.finalizer = mr.finalizer,
         mr'.policies = mr.policies, ws'.tfid = ws.tfid,
         ws.tfid = NoState => ws'.op = "none" \/ pc \notin {"idle", "connect"},
         mr.phase = "gone" => ws'.op = ws.op
  PROVE  IdInv'
<1>1. pc' = "idle" /\ verdict' = "none"
  BY DEF Idle
<1>2. Held' = Held /\ Kept' = Kept
  BY DEF Held, Kept
<1>3. Quiet
  BY <1>1, <1>2 DEF Quiet, Live
<1>4. QED
  BY <1>3, QuietKeepsId

LEMMA UserStepId ==
  ASSUME Kind \in ReversibleKinds, OwnInv, UserStep
  PROVE  IdInv'
<1>1. mr \in ObjectType /\ ws \in WsType
  BY Types DEF OwnInv
<1>2. CASE CreateObject
  <2>1. /\ mr = Absent /\ pc = "idle" /\ ws.op = "none" /\ ws.tfid = NoState
        /\ made = {} /\ recorded = {} /\ adopted = None /\ exposed = {}
        /\ verdict = "none"
    BY <1>2 DEF CreateObject, OwnInv, WorkerInv, ObjectInv, CopyInv, IdInv, HistoryInv
  <2>2. /\ UNCHANGED <<pc, ws, cloud, made, exposed, verdict>>
        /\ mr'.phase = "present"
    BY <1>2 DEF CreateObject, worker, hist, NewObject
  <2>3. \/ mr'.name = EmptyStr /\ UNCHANGED <<adopted, recorded>>
        \/ \E x \in Resource : /\ Live(x) /\ mr'.name = <<x>>
                             /\ adopted' = x /\ recorded' = {x}
    BY <1>2 DEF CreateObject, hist, NewObject
  <2>4. \A x \in Resource : ~Names(NoState, x)' /\ ~Names(NoState, x)
    BY NothingNamed DEF Names, Path
  <2>5. StateInv'
    BY <2>1, <2>2, <2>3, <2>4, EmptyIsNoName
       DEF StateInv, Named, Live, Ours
  <2>6. KnownInv' /\ OneResource' /\ AdoptionHolds'
    BY <2>1, <2>2, <2>3 DEF KnownInv, OneResource, AdoptionHolds, Known
  <2>7. HistoryInv'
    BY <2>1, <2>2, <2>3 DEF HistoryInv, Live, Ours
  <2>8. QED
    BY <2>5, <2>6, <2>7 DEF IdInv
<1>3. CASE EditSpec \/ DeleteObject \/ ClearPending
  <2>1. /\ UNCHANGED <<pc, seen, verdict, ws, cloud, hist>>
        /\ mr'.name = mr.name /\ mr.phase = "present" /\ mr'.phase \in {mr.phase, "gone"}
        /\ mr'.finalizer = mr.finalizer
        /\ mr.finalizer => mr'.phase = "present"
    BY <1>1, <1>3 DEF EditSpec, DeleteObject, ClearPending, worker, ObjectType
  <2>2. Held \/ Kept => Held' \/ Kept'
    BY <2>1 DEF Held, Kept
  <2>3. verdict = "unnamed" => pc = "act"
    BY DEF OwnInv, IdInv, StateInv
  <2>4. Quiet
    BY <2>1, <2>2, <2>3 DEF Quiet, Live
  <2>5. QED
    BY <2>4, QuietKeepsId
<1>4. QED
  BY <1>2, <1>3 DEF UserStep

\* The object goes while nothing runs: the id in the workspace goes with it.
LEMMA GoneId ==
  ASSUME Kind \in ReversibleKinds, OwnInv, Idle, UNCHANGED <<cloud, hist>>,
         mr'.name = mr.name, mr'.phase = "gone",
         ws'.tfid = NoState, ws'.op = "none",
         \A x \in made \ exposed : Live(x) => Kept'
  PROVE  IdInv'
<1>1. /\ UNCHANGED <<made, recorded, adopted, exposed, Ours, Known>>
      /\ pc' = "idle" /\ verdict' = "none"
  BY DEF hist, Ours, Known, Idle
<1>2. \A x \in Resource : ~Names(NoState, x)'
  BY NothingNamed DEF Names, Path
<1>3. StateInv'
  BY <1>1, <1>2 DEF OwnInv, IdInv, StateInv, Named, Live
<1>4. KnownInv'
  BY DEF KnownInv
<1>5. HistoryInv'
  BY <1>1 DEF OwnInv, IdInv, HistoryInv, Live
<1>6. OneResource' /\ AdoptionHolds'
  BY <1>1 DEF OwnInv, IdInv, OneResource, AdoptionHolds, Live
<1>7. QED
  BY <1>3, <1>4, <1>5, <1>6 DEF IdInv

LEMMA RemovalId ==
  ASSUME Kind \in ReversibleKinds, OwnInv, Abandon \/ Release
  PROVE  IdInv'
<1>1. mr \in ObjectType /\ ws \in WsType
  BY Types DEF OwnInv
<1>2. Idle /\ UNCHANGED <<cloud, hist>> /\ ws'.op = ws.op /\ mr'.name = mr.name
  BY <1>1 DEF Abandon, Release, RemoveFinalizer, ObjectType, WsType
<1>3. CASE Abandon
  <2>1. /\ mr.phase = "present" /\ mr'.phase = "gone"
        /\ mr'.policies = mr.policies /\ "Delete" \notin mr.policies
    BY <1>1, <1>3 DEF Abandon, RemoveFinalizer, ObjectType, ShouldDelete
  <2>2. Kept'
    BY <2>1 DEF Kept
  <2>3. CASE ws.op = "none"
    <3>1. ws'.tfid = NoState
      BY <1>1, <1>3, <2>3 DEF Abandon, RemoveFinalizer, WsType
    <3>2. QED
      BY <1>2, <2>1, <2>2, <2>3, <3>1, GoneId
  <2>4. CASE ws.op # "none"
    <3>1. ws' = ws /\ pc' = "idle" /\ verdict' = "none"
      BY <1>3, <2>4 DEF Abandon, RemoveFinalizer, Idle
    <3>2. Quiet
      BY <1>2, <2>1, <2>2, <2>4, <3>1 DEF Quiet, Live
    <3>3. QED
      BY <3>2, QuietKeepsId
  <2>5. QED
    BY <2>3, <2>4
<1>4. CASE Release
  <2>1. ws.tfid = NoState /\ ws.op = "none" /\ pc = "act" /\ mr.phase = "present"
    BY <1>4 DEF Release, OwnInv, WorkerInv, OperationInv, Held
  <2>2. ws'.tfid = NoState
    BY <1>1, <1>4, <2>1 DEF Release, RemoveFinalizer, WsType
  <2>3. Found(ws.tfid) = {}
    BY <2>1, NothingNamed, FoundNames
  <2>4. \A x \in made \ exposed : ~Live(x)
    BY <2>1, <2>3, NoneAlive DEF Known
  <2>5. CASE fresh
    <3>1. mr'.phase = "gone"
      BY <1>1, <1>4, <2>5 DEF Release, RemoveFinalizer, ObjectType
    <3>2. QED
      BY <1>2, <2>1, <2>2, <2>4, <3>1, GoneId
  <2>6. CASE ~fresh
    <3>1. mr' = mr
      BY <1>4, <2>1, <2>6 DEF Release, RemoveFinalizer
    <3>2. QED
      BY <1>2, <2>1, <2>2, <3>1, IdleQuiet
  <2>7. QED
    BY <2>5, <2>6
<1>5. QED
  BY <1>3, <1>4

\* Connect writes an id where there was none: that of the resource the annotation
\* names, if it names one.
LEMMA ConnectId ==
  ASSUME Kind \in ReversibleKinds, OwnInv, Connect
  PROVE  IdInv'
<1>1. ws \in WsType /\ pc = "connect" /\ pc' = "observe" /\ verdict = "none"
  BY Types DEF OwnInv, Connect, WorkerInv, CopyInv
<1>2. UNCHANGED <<mr, seen, verdict, cloud, hist>> /\ ws'.op = ws.op
  BY <1>1 DEF Connect, WsType
<1>3. CASE ws.op # "none" \/ ws.tfid \notin {NoState, EmptyStr}
  <2>1. ws'.tfid = ws.tfid
    BY <1>1, <1>3 DEF Connect, WsType
  <2>2. Quiet
    BY <1>1, <1>2, <1>3, <2>1 DEF Quiet, Held, Kept, Live
  <2>3. QED
    BY <2>2, QuietKeepsId
<1>4. CASE ws.op = "none" /\ ws.tfid \in {NoState, EmptyStr}
  <2>1. ws'.tfid = GetID(Config, mr.name, Params)
    <3>1. seen.name = mr.name
      BY <1>1 DEF OwnInv, WorkerInv, CopyInv
    <3>2. QED
      BY <1>1, <1>4, <3>1 DEF Connect, WsType
  <2>2. /\ UNCHANGED <<made, recorded, adopted, exposed, Ours, Known>>
        /\ \A x : Named(x)' <=> Named(x)
        /\ \A id, x : Names(id, x)' <=> Names(id, x)
    BY <1>2 DEF hist, Ours, Known, Named, Live, Names, Path
  <2>3. \A x \in Resource : ~Names(ws.tfid, x)
    BY <1>4, NothingNamed
  <2>4. \A x \in Resource : Names(ws'.tfid, x) <=> mr.name = <<x>>
    <3>1. mr.name = EmptyStr \/ \E y \in Resource : mr.name = <<y>>
      BY DEF OwnInv, NameIsLeaf
    <3>2. CASE mr.name = EmptyStr
      BY <2>1, <3>2, NothingNamed, EmptyIsNoName
    <3>3. ASSUME NEW y \in Resource, mr.name = <<y>>
          PROVE  \A x \in Resource : Names(ws'.tfid, x) <=> mr.name = <<x>>
      <4>1. Names(ws'.tfid, y)
        BY <2>1, <3>3, PathNames DEF Path
      <4>2. \A x \in Resource : Names(ws'.tfid, x) => x = y
        BY <4>1, NamesOne
      <4>3. QED
        BY <3>3, <4>1, <4>2
    <3>4. QED
      BY <3>1, <3>2, <3>3
  <2>5. StateInv'
    BY <1>1, <1>2, <2>2, <2>4 DEF OwnInv, IdInv, StateInv, Named
  <2>6. KnownInv'
    BY <1>2, <2>2, <2>3 DEF OwnInv, IdInv, KnownInv, Known, TypeOK, Live
  <2>7. HistoryInv' /\ OneResource' /\ AdoptionHolds'
    BY <1>2, <2>2 DEF OwnInv, IdInv, HistoryInv, OneResource, AdoptionHolds, Live,
                      Held, Kept
  <2>8. QED
    BY <2>5, <2>6, <2>7 DEF IdInv
<1>5. QED
  BY <1>3, <1>4

\* The observation finds nothing: a state that found nothing is dropped, and so is
\* what an import under [Observe] does not look at.
LEMMA MissingId ==
  ASSUME OwnInv, pc = "observe", ws.op = "none",
         UNCHANGED <<mr, cloud, adopted, made, recorded>>,
         Kind \in ReversibleKinds, pc' = "act",
         ws'.tfid = NoState, ws'.op = "none", verdict' = "missing",
         \A y \in Resource : ~Named(y),
         \/ exposed' = exposed \cup (made \ recorded)
         \/ /\ exposed' = exposed
            /\ mr.phase # "gone" => \A x \in Known : ~Live(x)
  PROVE  IdInv'
<1>1. UNCHANGED Ours /\ \A y \in Resource : ~Named(y)'
  BY DEF Ours, Named, Live
<1>2. \A x \in Resource : ~Names(NoState, x)'
  BY NothingNamed DEF Names, Path
<1>3. exposed' \subseteq made' /\ made \ exposed' \subseteq made \ exposed
      /\ Known' \subseteq Known
  BY DEF OwnInv, IdInv, HistoryInv, Known
<1>4. StateInv'
  BY <1>1, <1>2 DEF OwnInv, IdInv, StateInv
<1>5. KnownInv'
  <2>1. CASE exposed' = exposed \cup (made \ recorded)
    <3>1. \A x \in Known' : x \in recorded
      BY <2>1 DEF Known
    <3>2. QED
      BY <3>1 DEF OwnInv, IdInv, HistoryInv, KnownInv, Live
  <2>2. CASE exposed' = exposed /\ (mr.phase # "gone" => \A x \in Known : ~Live(x))
    BY <1>3, <2>2 DEF KnownInv, Live
  <2>3. QED
    BY <2>1, <2>2
<1>6. HistoryInv'
  BY <1>1, <1>3 DEF OwnInv, IdInv, HistoryInv, Live, Held, Kept
<1>7. OneResource' /\ AdoptionHolds'
  BY <1>3 DEF OwnInv, IdInv, OneResource, AdoptionHolds, Live
<1>8. QED
  BY <1>4, <1>5, <1>6, <1>7 DEF IdInv

LEMMA ObserveId ==
  ASSUME Kind \in ReversibleKinds, OwnInv, Observe
  PROVE  IdInv'
<1>1. /\ pc = "observe" /\ pc' = "act"
      /\ UNCHANGED <<mr, fresh, cloud, adopted, made, recorded>>
  BY DEF Observe
<1>2. ws \in WsType /\ seen \in ObjectType /\ seen.name = mr.name
  BY <1>1, Types DEF OwnInv, WorkerInv, CopyInv
<1>3. CASE ws.op # "none"
  <2>1. UNCHANGED <<ws, seen, exposed>> /\ verdict' = "running"
    BY <1>3 DEF Observe
  <2>2. Quiet
    BY <1>1, <1>3, <2>1 DEF Quiet, hist, Live, Held, Kept
  <2>3. QED
    BY <2>2, QuietKeepsId
<1> DEFINE id == IF OnlyObserve(seen) THEN GetID(Config, seen.name, Params)
                                      ELSE ws.tfid
\* Under [Observe] the id names what the annotation names.
<1>4. ASSUME OnlyObserve(seen)
      PROVE  \A x \in Resource : Names(id, x) <=> mr.name = <<x>>
  <2>1. mr.name = EmptyStr \/ \E y \in Resource : mr.name = <<y>>
    BY DEF OwnInv, NameIsLeaf
  <2>2. CASE mr.name = EmptyStr
    BY <1>2, <1>4, <2>2, NothingNamed, EmptyIsNoName
  <2>3. ASSUME NEW y \in Resource, mr.name = <<y>>
        PROVE  \A x \in Resource : Names(id, x) <=> mr.name = <<x>>
    <3>1. Names(id, y)
      BY <1>2, <1>4, <2>3, PathNames DEF Path
    <3>2. \A x \in Resource : Names(id, x) => x = y
      BY <3>1, NamesOne
    <3>3. QED
      BY <2>3, <3>1, <3>2
  <2>4. QED
    BY <2>1, <2>2, <2>3
<1> HIDE DEF id
<1>5. CASE ws.op = "none" /\ Found(id) = {}
  <2>1. /\ ws'.tfid = NoState /\ ws'.op = "none" /\ verdict' = "missing"
        /\ exposed' = IF OnlyObserve(seen) THEN exposed \cup (made \ recorded)
                                           ELSE exposed
    BY <1>2, <1>5 DEF Observe, WsType, id
  <2>2. \A y \in Resource : Live(y) => ~Names(id, y)
    BY <1>5, FoundNames
  <2>3. CASE OnlyObserve(seen)
    <3>1. \A y \in Resource : ~Named(y)
      BY <1>4, <2>2, <2>3 DEF Named
    <3>2. QED
      BY <1>1, <1>5, <2>1, <2>3, <3>1, MissingId
  <2>4. CASE ~OnlyObserve(seen)
    <3>1. /\ \A y \in Resource : ~Named(y)
          /\ mr.phase # "gone" => \A x \in Known : ~Live(x)
      BY <1>1, <1>5, <2>4, NoneAlive DEF id
    <3>2. QED
      BY <1>1, <1>5, <2>1, <2>4, <3>1, MissingId
  <2>5. QED
    BY <2>3, <2>4
<1>6. CASE ws.op = "none" /\ Found(id) # {}
  <2>1. PICK x \in Found(id) :
          /\ verdict' = Judge(x, id) /\ ws' = [ws EXCEPT !.tfid = id]
          /\ seen' = [seen EXCEPT
               !.name = IF verdict' = "unnamed"
                        THEN GetExternalName(Config, id) ELSE @]
          /\ UNCHANGED exposed
    BY <1>6 DEF Observe, id
  <2>2. x \in Resource /\ Names(id, x) /\ Live(x)
    BY FoundNames
  <2>3. ws'.tfid = id /\ ws'.op = "none"
    BY <1>2, <1>6, <2>1 DEF WsType
  <2>4. verdict' = "unnamed" => ~OnlyObserve(seen) /\ seen'.name = <<x>>
    BY <1>2, <2>1, <2>2, NamesIsRead DEF Judge, ObjectType
  <2>5. /\ UNCHANGED <<Ours, Known>> /\ \A y : Named(y)' <=> Named(y)
        /\ \A i, y : Names(i, y)' <=> Names(i, y)
    BY <1>1, <2>1 DEF Ours, Known, Named, Live, Names, Path
  <2>6. \A y \in Resource : Names(id, y) => y = x
    BY <2>2, NamesOne
  <2>7. StateInv'
    <3>1. CASE OnlyObserve(seen)
      BY <1>1, <1>4, <2>3, <2>4, <2>5, <3>1 DEF OwnInv, IdInv, StateInv, Named
    <3>2. CASE ~OnlyObserve(seen)
      <4>1. id = ws.tfid
        BY <3>2 DEF id
      <4>2. QED
        BY <1>1, <2>2, <2>3, <2>4, <2>5, <4>1 DEF OwnInv, IdInv, StateInv
    <3>3. QED
      BY <3>1, <3>2
  <2>8. KnownInv'
    <3>1. CASE OnlyObserve(seen)
      <4>1. Named(x)
        BY <1>4, <2>2, <3>1 DEF Named
      <4>2. mr.phase # "gone" => \A y \in Known : Live(y) => mr.name = <<y>>
        BY <2>2, <4>1 DEF OwnInv, IdInv, KnownInv
      <4>3. QED
        BY <1>1, <2>3, <2>5, <4>2 DEF KnownInv, Live
    <3>2. CASE ~OnlyObserve(seen)
      <4>1. id = ws.tfid
        BY <3>2 DEF id
      <4>2. QED
        BY <1>1, <1>6, <2>3, <2>5, <4>1 DEF OwnInv, IdInv, KnownInv, Live
    <3>3. QED
      BY <3>1, <3>2
  <2>9. HistoryInv' /\ OneResource' /\ AdoptionHolds'
    BY <1>1, <2>1, <2>5 DEF OwnInv, IdInv, HistoryInv, OneResource, AdoptionHolds,
                            Live, Held, Kept
  <2>10. QED
    BY <2>7, <2>8, <2>9 DEF IdInv
<1>7. QED
  BY <1>3, <1>5, <1>6

\* The steps that only end a reconcile or start an operation.
LEMMA QuietStepsId ==
  ASSUME OwnInv,
         \/ Start \/ ConnectFails \/ ObserveFails \/ StartDestroy \/ StartUpdate
         \/ StartCreate \/ MarkCreated \/ ReportMissing \/ Rest
  PROVE  IdInv'
<1>1. mr \in ObjectType /\ ws \in WsType
  BY Types DEF OwnInv
<1>2. seen.deleting \/ seen.finalizer => mr.phase = "present"
  BY DEF OwnInv, WorkerInv, CopyInv
<1>3. CASE Start
  <2>1. /\ UNCHANGED <<mr, ws, cloud, hist>> /\ pc' = "connect"
        /\ verdict' = "none"
    BY <1>3 DEF Start
  <2>2. Quiet
    BY <1>3, <2>1 DEF Quiet, Live, Held, Kept, Start
  <2>3. QED
    BY <2>2, QuietKeepsId
<1>4. CASE ConnectFails \/ ObserveFails \/ ReportMissing \/ Rest
  <2>1. Idle /\ UNCHANGED <<mr, ws, cloud, hist>> /\ pc # "idle"
        /\ (pc = "connect" \/ pc # "connect")
    BY <1>4 DEF ConnectFails, ObserveFails, ReportMissing, Rest, Acting
  <2>2. pc' = "idle" /\ verdict' = "none"
    BY <2>1 DEF Idle
  <2>3. Quiet
    BY <2>1, <2>2 DEF Quiet, Live, Held, Kept
  <2>4. QED
    BY <2>3, QuietKeepsId
<1>5. CASE StartDestroy \/ StartUpdate
  <2>1. Idle /\ UNCHANGED <<mr, cloud, hist>> /\ pc = "act"
        /\ ws'.tfid = ws.tfid /\ mr.phase = "present"
    BY <1>1, <1>2, <1>5 DEF StartDestroy, StartUpdate, Acting, StartOp, WsType
  <2>2. QED
    BY <2>1, IdleQuiet
<1>6. CASE StartCreate
  <2>1. /\ UNCHANGED <<mr, seen, verdict, cloud, hist>> /\ pc = "create"
        /\ ws'.tfid = ws.tfid
    BY <1>1, <1>6 DEF StartCreate, StartOp, WsType
  <2>2. verdict # "unnamed"
    BY <2>1 DEF OwnInv, IdInv, StateInv
  <2>3. mr.phase = "present"
    BY <1>2, <2>1 DEF OwnInv, WorkerInv, CopyInv
  <2>4. Quiet
    BY <2>1, <2>2, <2>3 DEF Quiet, Live, Held, Kept
  <2>5. QED
    BY <2>4, QuietKeepsId
<1>7. CASE MarkCreated
  <2>1. Idle /\ UNCHANGED <<ws, cloud, hist>> /\ pc = "created"
    BY <1>7 DEF MarkCreated
  <2>2. /\ mr'.name = mr.name /\ mr'.phase = mr.phase
        /\ mr'.finalizer = mr.finalizer /\ mr'.policies = mr.policies
    BY <1>1, <1>7 DEF MarkCreated, ObjectType
  <2>3. QED
    BY <2>1, <2>2, IdleQuiet
<1>8. QED
  BY <1>3, <1>4, <1>5, <1>6, <1>7

\* A write sends the name of the resource that the observation found, and what was
\* recorded before it is dead or that resource.
LEMMA WriteId ==
  ASSUME Kind \in ReversibleKinds, OwnInv, pc = "act",
         NEW o \in ObjectType, NEW next \in {"idle", "act", "create"},
         Write(o, next), UNCHANGED <<ws, cloud>>,
         o.phase = seen.phase, o.name = seen.name, o.finalizer,
         next = "create" => verdict = "missing"
  PROVE  IdInv'
<1>1. mr \in ObjectType /\ seen \in ObjectType
  BY Types DEF OwnInv
<1>2. CASE ~fresh
  <2>1. Idle /\ UNCHANGED <<mr, hist>>
    BY <1>2 DEF Write
  <2>2. QED
    BY <2>1, IdleQuiet
<1>3. ASSUME fresh
      PROVE  /\ mr' = o /\ mr.phase = "present" /\ Held' /\ Recording(o)
             /\ \/ pc' = "idle" /\ verdict' = "none"
                \/ pc' = next /\ next # "idle" /\ verdict' = verdict /\ seen' = o
  <2>1. mr.phase = "present" /\ seen.phase = "present"
    BY <1>1, <1>3 DEF OwnInv, WorkerInv, CopyInv, ObjectType
  <2>2. mr' = o /\ Recording(o)
    BY <1>3 DEF Write
  <2>3. CASE next = "idle"
    BY <1>3, <2>1, <2>2, <2>3 DEF Write, Held
  <2>4. CASE next # "idle"
    BY <1>3, <2>1, <2>2, <2>4 DEF Write, Held
  <2>5. QED
    BY <2>3, <2>4
<1>4. CASE fresh /\ verdict # "unnamed"
  <2>1. mr'.name = mr.name /\ UNCHANGED hist
    BY <1>3, <1>4 DEF OwnInv, WorkerInv, CopyInv, Recording, hist
  <2>2. Quiet
    BY <1>3, <1>4, <2>1 DEF Quiet, Live
  <2>3. QED
    BY <2>2, QuietKeepsId
<1>5. CASE fresh /\ verdict = "unnamed"
  <2>1. PICK x \in Ours : Names(ws.tfid, x) /\ seen.name = <<x>>
    BY <1>5 DEF OwnInv, IdInv, StateInv
  <2>2. x \in Resource /\ mr'.name = <<x>>
    BY <1>3, <1>5, <2>1 DEF Names
  <2>3. \A y \in Resource : Names(ws.tfid, y) => y = x
    BY <2>1, NamesOne
  <2>4. \A y \in Resource : Named(y) => y = x
    BY <2>3 DEF OwnInv, IdInv, StateInv
  <2>5. /\ Found(ws.tfid) = {y \in {x} : Live(y)}
        /\ recorded \subseteq recorded'
        /\ \A y \in recorded' : y \in recorded \/ y \in Found(ws.tfid)
        /\ UNCHANGED <<adopted, made, exposed>>
    BY <1>3, <1>5, <2>1, <2>2, <2>3, FoundNames DEF Recording
  <2>6. /\ UNCHANGED Ours /\ \A y : Live(y)' <=> Live(y)
        /\ \A i, y : Names(i, y)' <=> Names(i, y)
    BY <2>5 DEF Ours, Live, Names, Path
  <2>7. Known \subseteq Resource /\ recorded \subseteq Resource
    BY DEF Known, OwnInv, TypeOK
  <2>8. \A y \in Known' : Live(y) => y = x
    <3>1. \A y \in Known' : y \in Known \/ y \in Found(ws.tfid)
      BY <2>5 DEF Known
    <3>2. \A y \in Known : Live(y) => Named(y) \/ Names(ws.tfid, y)
      BY <1>3, <1>5 DEF OwnInv, IdInv, KnownInv, Named
    <3>3. QED
      BY <2>3, <2>4, <2>5, <2>7, <3>1, <3>2
  <2>9. StateInv'
    <3>1. \A y \in Resource : mr'.name = <<y>> => y = x
      BY <2>2
    <3>2. \A y \in Resource : Named(y)' => Names(ws.tfid, y)'
      BY <2>1, <2>6, <3>1 DEF Named
    <3>3. \A y \in Resource : Names(ws.tfid, y)' => y \in Ours'
      BY <2>1, <2>3, <2>6
    <3>4. verdict' = "unnamed" =>
            /\ pc' = "act" /\ ws'.op = "none"
            /\ \E y \in Ours' : Names(ws.tfid, y)' /\ seen'.name = <<y>>
      <4>1. CASE verdict' = "unnamed" /\ seen' = o
        BY <1>3, <1>5, <2>1, <2>6, <4>1 DEF OwnInv, IdInv, StateInv
      <4>2. QED
        BY <1>3, <1>5, <4>1
    <3>5. QED
      BY <2>1, <2>6, <3>1, <3>2, <3>3, <3>4 DEF StateInv
  <2>10. KnownInv'
    BY <2>2, <2>6, <2>8 DEF KnownInv
  <2>11. HistoryInv'
    <3>1. \A y \in recorded' : Live(y) => y = x
      BY <2>4, <2>5, <2>7 DEF OwnInv, IdInv, HistoryInv, Named
    <3>2. \A y \in made \cup recorded' : cloud[y].state # "free"
      BY <2>5 DEF OwnInv, IdInv, HistoryInv, Live
    <3>3. recorded' \subseteq Ours
      BY <2>1, <2>5 DEF OwnInv, IdInv, HistoryInv
    <3>4. QED
      BY <1>3, <1>5, <2>2, <2>5, <2>6, <3>1, <3>2, <3>3
         DEF OwnInv, IdInv, HistoryInv
  <2>12. OneResource' /\ AdoptionHolds'
    BY <2>5, <2>6, <2>8 DEF OwnInv, IdInv, OneResource, AdoptionHolds
  <2>13. QED
    BY <2>9, <2>10, <2>11, <2>12 DEF IdInv
<1>6. QED
  BY <1>2, <1>4, <1>5

LEMMA WritesId ==
  ASSUME Kind \in ReversibleKinds, OwnInv,
         AddFinalizer \/ MarkPending \/ Record \/ MarkAvailable
  PROVE  IdInv'
<1>1. mr \in ObjectType /\ seen \in ObjectType
  BY Types DEF OwnInv
<1>2. /\ [seen EXCEPT !.finalizer = TRUE] \in ObjectType
      /\ [seen EXCEPT !.create = "pending"] \in ObjectType
      /\ [seen EXCEPT !.ready = TRUE] \in ObjectType
  BY <1>1 DEF ObjectType
<1>3. pc = "act" /\ UNCHANGED <<ws, cloud>>
  BY DEF AddFinalizer, MarkPending, Record, MarkAvailable, Acting
<1>4. PICK o \in ObjectType, next \in {"idle", "act", "create"} :
        /\ Write(o, next) /\ o.finalizer
        /\ o.phase = seen.phase /\ o.name = seen.name
        /\ next = "create" => verdict = "missing"
  BY <1>1, <1>2 DEF AddFinalizer, MarkPending, Record, MarkAvailable, ObjectType
<1>5. QED
  BY <1>3, <1>4, WriteId

LEMMA ReconcileStepId ==
  ASSUME Kind \in ReversibleKinds, OwnInv, ReconcileStep
  PROVE  IdInv'
BY RemovalId, ConnectId, ObserveId, QuietStepsId, WritesId DEF ReconcileStep

-------------------------------------------------------------------------------
(* The operation, losses and crashes *)

\* The resource that an apply creates is new, and nothing else is known and alive.
LEMMA ApplyCreatesId ==
  ASSUME Kind \in ReversibleKinds, OwnInv, ApplyCreates
  PROVE  IdInv'
<1>1. ws \in WsType /\ cloud \in CloudType
  BY Types DEF OwnInv
<1>2. PICK x \in Resource :
        /\ cloud[x].state = "free"
        /\ cloud' = [cloud EXCEPT ![x] = [state |-> "live", gen |-> ws.main]]
        /\ ws' = [ws EXCEPT !.tfid = StoredId(x), !.done = TRUE]
        /\ made' = made \cup {x}
  BY DEF ApplyCreates
<1>3. /\ UNCHANGED <<mr, pc, seen, verdict, recorded, adopted, exposed>>
      /\ ws.op = "apply" /\ Found(ws.tfid) = {}
  BY DEF ApplyCreates, worker
<1>4. ws'.tfid = StoredId(x) /\ ws'.op = "apply"
  BY <1>1, <1>2, <1>3 DEF WsType
<1>5. /\ ~Live(x) /\ Live(x)'
      /\ \A y \in Resource : y # x => cloud'[y] = cloud[y]
  BY <1>1, <1>2 DEF Live, CloudType
<1>6. /\ \A y \in Resource : ~Named(y)
      /\ \A y \in Known : ~Live(y)
  BY <1>3, NoneAlive
<1>7. x \notin made \cup recorded /\ x \notin exposed /\ x # adopted
  BY <1>2, ResourceAssumption DEF OwnInv, IdInv, HistoryInv
<1>8. \A i, y : Names(i, y)' <=> Names(i, y)
  BY DEF Names, Path
<1>9. \A y \in Resource : Names(ws'.tfid, y) <=> y = x
  BY <1>4, PathNames, NamesOne
<1>10. \A y \in Resource : ~Named(y)'
  <2>1. mr.name # <<x>>
    BY <1>7 DEF OwnInv, IdInv, StateInv, Ours
  <2>2. QED
    BY <1>3, <1>5, <1>6, <2>1 DEF Named, Live
<1>11. StateInv'
  BY <1>2, <1>3, <1>8, <1>9, <1>10 DEF OwnInv, IdInv, StateInv, Ours
<1>12. Known \subseteq Resource /\ Known' = Known \cup {x}
  BY <1>2, <1>3, <1>7 DEF Known, OwnInv, TypeOK
<1>13. \A y \in Known' : Live(y)' => y = x
  BY <1>5, <1>6, <1>12 DEF Live
<1>14. KnownInv'
  BY <1>8, <1>9, <1>10, <1>12, <1>13 DEF KnownInv
<1>15. HistoryInv'
  <2>1. Held' \/ Kept'
    BY <1>3 DEF OwnInv, WorkerInv, OperationInv, Held, Kept
  <2>2. recorded \subseteq Resource /\ made \subseteq Resource
    BY DEF OwnInv, TypeOK
  <2>3. \A y \in made' \cup recorded' : cloud'[y].state # "free"
    BY <1>2, <1>3, <1>5, <2>2 DEF OwnInv, IdInv, HistoryInv, Live
  <2>4. \A y \in recorded' : Live(y)' => mr'.name = <<y>>
    BY <1>3, <1>5, <1>7, <2>2 DEF OwnInv, IdInv, HistoryInv, Live
  <2>5. QED
    BY <1>2, <1>3, <2>1, <2>3, <2>4 DEF OwnInv, IdInv, HistoryInv, Ours
<1>16. OneResource'
  BY <1>13 DEF OneResource
<1>17. AdoptionHolds'
  <2>1. adopted # None => adopted \in Resource /\ ~Live(adopted)
    BY <1>6 DEF OwnInv, TypeOK, IdInv, HistoryInv, Named
  <2>2. QED
    BY <1>3, <1>5, <1>7, <2>1 DEF AdoptionHolds, Live
<1>18. QED
  BY <1>11, <1>14, <1>15, <1>16, <1>17 DEF IdInv

\* What a destroy takes away is all that the id in the workspace names.
LEMMA DestroysId ==
  ASSUME Kind \in ReversibleKinds, OwnInv, Destroys
  PROVE  IdInv'
<1>1. ws \in WsType /\ cloud \in CloudType
  BY Types DEF OwnInv
<1>2. /\ UNCHANGED <<mr, pc, seen, verdict, made, recorded, adopted, exposed>>
      /\ UNCHANGED <<Ours, Known>>
      /\ ws.op = "destroy" /\ ws'.op = "destroy" /\ ws'.tfid = NoState
  BY <1>1 DEF Destroys, worker, hist, Ours, Known, WsType
<1>3. \A y \in Resource :
        /\ Live(y)' <=> Live(y) /\ ~Names(ws.tfid, y)
        /\ cloud[y].state # "free" => cloud'[y].state # "free"
  <2>1. ASSUME NEW y \in Resource
        PROVE  cloud'[y] = IF y \in Found(ws.tfid)
                           THEN [cloud[y] EXCEPT !.state = "deleted"] ELSE cloud[y]
    BY DEF Destroys
  <2>2. QED
    BY <1>1, <2>1, FoundNames DEF Live, CloudType
<1>4. \A y \in Resource : ~Named(y)'
  BY <1>2, <1>3 DEF OwnInv, IdInv, StateInv, Named
<1>5. made \subseteq Resource /\ recorded \subseteq Resource /\ Known \subseteq Resource
  BY DEF OwnInv, TypeOK, Known
<1>6. \A y \in Known : ~Live(y)'
  BY <1>2, <1>3, <1>4, <1>5 DEF OwnInv, IdInv, KnownInv, Named
<1>7. \A y \in Resource : ~Names(NoState, y)'
  BY NothingNamed DEF Names, Path
<1>8. StateInv'
  BY <1>2, <1>4, <1>7 DEF OwnInv, IdInv, StateInv
<1>9. KnownInv' /\ OneResource'
  BY <1>2, <1>6 DEF KnownInv, OneResource
<1>10. HistoryInv'
  BY <1>2, <1>3, <1>5 DEF OwnInv, IdInv, HistoryInv, Held, Kept
<1>11. AdoptionHolds'
  BY <1>2, <1>3 DEF OwnInv, TypeOK, IdInv, AdoptionHolds
<1>12. QED
  BY <1>8, <1>9, <1>10, <1>11 DEF IdInv

\* With the workspace goes what only its state knew.
LEMMA CrashId ==
  ASSUME Kind \in ReversibleKinds, OwnInv, Crash
  PROVE  IdInv'
<1>1. /\ UNCHANGED <<mr, cloud, adopted, made, recorded, Ours>>
      /\ exposed' = exposed \cup (made \ recorded)
      /\ ws'.tfid = NoState /\ ws'.op = "none" /\ pc' = "idle" /\ verdict' = "none"
  BY DEF Crash, Idle, NoWorkspace, Ours
<1>2. /\ \A y \in Known' : y \in recorded
      /\ Known' \subseteq Known /\ exposed' \subseteq made
  BY <1>1 DEF Known, OwnInv, IdInv, HistoryInv
<1>3. \A y \in Resource : ~Names(NoState, y)'
  BY NothingNamed DEF Names, Path
<1>4. StateInv'
  BY <1>1, <1>3 DEF OwnInv, IdInv, StateInv
<1>5. KnownInv'
  BY <1>1, <1>2 DEF OwnInv, IdInv, HistoryInv, KnownInv, Live
<1>6. HistoryInv'
  BY <1>1, <1>2 DEF OwnInv, IdInv, HistoryInv, Live, Held, Kept
<1>7. OneResource' /\ AdoptionHolds'
  BY <1>1, <1>2 DEF OwnInv, IdInv, OneResource, AdoptionHolds, Live
<1>8. QED
  BY <1>4, <1>5, <1>6, <1>7 DEF IdInv

LEMMA OtherStepId ==
  ASSUME Kind \in ReversibleKinds, OwnInv, OperationStep \/ LoseResource \/ Crash
  PROVE  IdInv'
<1>1. ws \in WsType /\ cloud \in CloudType
  BY Types DEF OwnInv
<1>2. verdict = "unnamed" => pc = "act"
  BY DEF OwnInv, IdInv, StateInv
<1>3. CASE ApplyUpdates
  <2>1. PICK x \in Found(ws.tfid) : cloud' = [cloud EXCEPT ![x].gen = ws.main]
    BY <1>3 DEF ApplyUpdates
  <2>2. \A y \in Resource : cloud'[y].state = cloud[y].state
    BY <1>1, <2>1 DEF CloudType
  <2>3. /\ UNCHANGED <<mr, pc, seen, verdict, hist>> /\ ws.op # "none"
        /\ ws'.tfid = ws.tfid /\ ws'.op = ws.op
    BY <1>1, <1>3 DEF ApplyUpdates, worker, WsType
  <2>4. Quiet
    BY <1>2, <2>2, <2>3 DEF Quiet, Live, Held, Kept
  <2>5. QED
    BY <2>4, QuietKeepsId
<1>4. CASE OpEnds \/ Callback
  <2>1. /\ UNCHANGED <<mr, pc, seen, verdict, cloud, hist>>
        /\ ws'.tfid = ws.tfid /\ ws'.op \in {ws.op, "none"}
    BY <1>1, <1>4 DEF OpEnds, Callback, worker, WsType
  <2>2. Quiet
    BY <1>2, <2>1 DEF Quiet, Live, Held, Kept
  <2>3. QED
    BY <2>2, QuietKeepsId
<1>5. CASE LoseResource
  <2>1. PICK x \in Resource : Live(x) /\ cloud' = [cloud EXCEPT ![x].state = "deleted"]
    BY <1>5 DEF LoseResource
  <2>2. \A y \in Resource : cloud'[y].state = IF y = x THEN "deleted" ELSE cloud[y].state
    BY <1>1, <2>1 DEF CloudType
  <2>3. UNCHANGED <<mr, pc, seen, verdict, hist, ws>>
    BY <1>5 DEF LoseResource, worker
  <2>4. Quiet
    BY <1>2, <2>2, <2>3 DEF Quiet, Live, Held, Kept
  <2>5. QED
    BY <2>4, QuietKeepsId
<1>6. QED
  BY <1>3, <1>4, <1>5, ApplyCreatesId, DestroysId, CrashId DEF OperationStep

\* The invariant holds for ever: type and names are shown for every kind elsewhere.
LEMMA NextOwn ==
  ASSUME Kind \in ReversibleKinds, OwnInv, [Next]_vars, TypeOK', NameIsLeaf'
  PROVE  OwnInv'
<1>1. CASE UNCHANGED vars
  <2>1. UNCHANGED <<mr, pc, seen, fresh, verdict, ws, cloud, hist>>
    BY <1>1 DEF vars, worker
  <2>2. WorkerInv'
    BY <2>1 DEF OwnInv, WorkerInv, CopyInv, ObjectInv, OperationInv, Held, Kept, hist
  <2>3. Quiet
    BY <2>1 DEF Quiet, Live, Held, Kept, OwnInv, IdInv, StateInv
  <2>4. QED
    BY <2>2, <2>3, QuietKeepsId DEF OwnInv
<1>2. CASE Next
  <2>1. WorkerInv'
    BY <1>2, UserStepWorker, ReconcileStepWorker, OtherStepWorker
       DEF Next, OwnInv, Worker
  <2>2. IdInv'
    BY <1>2, UserStepId, ReconcileStepId, OtherStepId DEF Next
  <2>3. QED
    BY <2>1, <2>2 DEF OwnInv
<1>3. QED
  BY <1>1, <1>2

-------------------------------------------------------------------------------
(* One object, one resource *)

\* The invariant, for every reversible kind.
LEMMA AlwaysOwn ==
  ASSUME Kind \in ReversibleKinds
  PROVE  Spec => []OwnInv
<1>1. Init => WorkerInv /\ IdInv
  BY InitWorker, InitId
<1>2. OwnInv /\ [Next]_vars /\ TypeOK' /\ NameIsLeaf' => OwnInv'
  BY NextOwn
<1>3. OwnInv <=> TypeOK /\ NameIsLeaf /\ WorkerInv /\ IdInv
  BY DEF OwnInv
<1>4. (Spec => []TypeOK) /\ (Spec => []NameIsLeaf)
  BY AlwaysTypeOK, AlwaysNameIsLeaf
<1>5. QED
  BY <1>1, <1>2, <1>3, <1>4, PTL DEF Spec

\* One object never stands for two resources that exist at the same time, whatever
\* dies or is lost between an apply and the record of what it made.
THEOREM AlwaysOneResource ==
  ASSUME Kind \in ReversibleKinds
  PROVE  Spec => []OneResource
<1>1. OwnInv => OneResource
  BY DEF OwnInv, IdInv
<1>2. QED
  BY <1>1, AlwaysOwn, PTL

\* No resource that the provider created outlives an object that may delete it.
THEOREM NeverLeaked ==
  ASSUME Kind \in ReversibleKinds
  PROVE  Spec => []NothingLeaked
<1>1. OwnInv => NothingLeaked
  BY DEF OwnInv, IdInv, HistoryInv, NothingLeaked, Held, Kept
<1>2. QED
  BY <1>1, AlwaysOwn, PTL

\* While the resource a user imported exists nothing is created beside it.
THEOREM AdoptionAlwaysHolds ==
  ASSUME Kind \in ReversibleKinds
  PROVE  Spec => []AdoptionHolds
<1>1. OwnInv => AdoptionHolds
  BY DEF OwnInv, IdInv
<1>2. QED
  BY <1>1, AlwaysOwn, PTL

\* No write of the reconciler replaces or wipes the name of a resource that exists:
\* the only one that changes the name sends what the id in the workspace names.
THEOREM NameAlwaysKept ==
  ASSUME Kind \in ReversibleKinds
  PROVE  Spec => NameKept
<1> DEFINE Kept1 == \A x \in Resource : mr.name = <<x>> /\ mr'.name # <<x>> => ~Live(x)
<1>1. ASSUME OwnInv, [Next]_vars
      PROVE  Kept1
  <2> SUFFICES ASSUME NEW x \in Resource, mr.name = <<x>>, mr'.name # <<x>>, Live(x)
               PROVE  FALSE
    OBVIOUS
  <2>1. mr \in ObjectType /\ seen \in ObjectType
    BY <1>1, Types DEF OwnInv
  <2>2. mr.phase # "absent"
    BY EmptyIsNoName, AbsentIs, <1>1 DEF OwnInv, WorkerInv, ObjectInv
  <2>3. AddFinalizer \/ MarkPending \/ Record \/ MarkAvailable
    <3>1. mr' # mr
      OBVIOUS
    <3>2. ~(Abandon \/ Release \/ UserStep \/ MarkCreated)
      BY <2>1, <2>2 DEF Abandon, Release, RemoveFinalizer, UserStep, CreateObject,
                        EditSpec, DeleteObject, ClearPending, MarkCreated, ObjectType
    <3>3. Next
      BY <1>1, <3>1 DEF vars
    <3>4. QED
      BY <3>1, <3>2, <3>3
         DEF Next, ReconcileStep, OperationStep, Start, Connect, ConnectFails,
             Observe, ObserveFails, StartDestroy, ReportMissing, StartCreate,
             StartUpdate, Rest, ApplyCreates, ApplyUpdates, Destroys, OpEnds,
             Callback, LoseResource, Crash
  <2>4. mr'.name = seen.name /\ pc = "act"
    BY <2>1, <2>3 DEF AddFinalizer, MarkPending, Record, MarkAvailable, Acting,
                      Write, ObjectType
  <2>5. verdict = "unnamed"
    BY <1>1, <2>4 DEF OwnInv, WorkerInv, CopyInv
  <2>6. PICK y \in Ours : Names(ws.tfid, y) /\ seen.name = <<y>>
    BY <1>1, <2>5 DEF OwnInv, IdInv, StateInv
  <2>7. Names(ws.tfid, x)
    BY <1>1, <2>4 DEF OwnInv, IdInv, StateInv, Named
  <2>8. QED
    BY <2>4, <2>6, <2>7, NamesOne
<1>2. QED
  BY <1>1, AlwaysOwn, PTL DEF Spec, NameKept

-------------------------------------------------------------------------------
(* The contract *)

Object == IF mr.phase = "present" /\ mr.deleting THEN "deleting" ELSE mr.phase
Keeps == "Delete" \notin mr.policies
Alive == {x \in Resource : Live(x)}
Owned == {x \in Known : x \in made \/ mr.finalizer}
Mishaps == <<crashes, losses, exposed>>

ContractStep == Contract!Next \/ UNCHANGED Contract!contract

\* What a step must leave alone to be none of the contract.
LEMMA Stutters ==
  ASSUME UNCHANGED <<Object, Keeps, Alive, Owned, Mishaps>>
  PROVE  UNCHANGED Contract!contract
BY DEF Contract!contract, Object, Keeps, Alive, Owned, Mishaps

\* What is known is what was made and what was imported: recording a name adds
\* nothing to it.
LEMMA KnownIs == OwnInv => Known = (made \cup ({adopted} \ {None})) \ exposed
<1> SUFFICES ASSUME OwnInv
             PROVE  Known = (made \cup ({adopted} \ {None})) \ exposed
  OBVIOUS
<1>1. /\ recorded \subseteq Resource /\ recorded \subseteq made \cup {adopted}
      /\ adopted # None => adopted \in recorded
  BY DEF OwnInv, TypeOK, IdInv, HistoryInv, Ours
<1>2. \A x \in recorded : x # None
  BY <1>1, ResourceAssumption
<1>3. QED
  BY <1>1, <1>2 DEF Known

LEMMA OwnedSame ==
  ASSUME OwnInv, OwnInv', UNCHANGED <<made, adopted, exposed>>,
         mr'.finalizer = mr.finalizer
  PROVE  Known' = Known /\ Owned' = Owned
<1>1. (OwnInv => Known = (made \cup ({adopted} \ {None})) \ exposed)'
  BY KnownIs, PTL
<1>2. QED
  BY <1>1, KnownIs DEF Owned

\* An object that is there and has no finalizer owns nothing that exists.
LEMMA UnheldOwnsNone ==
  ASSUME OwnInv, mr.phase = "present", ~mr.finalizer
  PROVE  Owned \cap Alive = {}
BY DEF OwnInv, IdInv, HistoryInv, Owned, Alive, Known, Held, Kept

LEMMA UserStepContract ==
  ASSUME OwnInv, OwnInv', UserStep
  PROVE  ContractStep
<1>1. mr \in ObjectType /\ mr' \in ObjectType
  BY DEF OwnInv, TypeOK
<1>2. UNCHANGED <<cloud, bounds, made, exposed, Alive, Mishaps>>
  <2>1. UNCHANGED <<cloud, bounds, made, exposed>>
    BY DEF UserStep, CreateObject, EditSpec, DeleteObject, ClearPending, hist
  <2>2. QED
    BY <2>1 DEF Alive, Live, Mishaps, bounds
<1>3. CASE CreateObject
  <2>1. Object = "absent" /\ Object' = "present" /\ Keeps' \in BOOLEAN
    BY <1>3 DEF CreateObject, NewObject, Object, Keeps
  <2>2. Owned = {} /\ Owned' = {}
    <3>1. made = {} /\ recorded = {}
      BY <1>3 DEF CreateObject, OwnInv, WorkerInv, ObjectInv
    <3>2. ~mr'.finalizer
      BY <1>3 DEF CreateObject, NewObject
    <3>3. QED
      BY <1>2, <3>1, <3>2 DEF Owned, Known
  <2>3. Contract!Apply
    BY <1>2, <2>1, <2>2
       DEF Contract!Apply, Object, Keeps, Alive, Owned, Mishaps
  <2>4. QED
    BY <2>3 DEF ContractStep, Contract!Next
<1>4. CASE EditSpec \/ ClearPending
  <2>1. /\ mr'.phase = "present" /\ mr.phase = "present"
        /\ mr'.deleting = mr.deleting /\ mr'.finalizer = mr.finalizer
        /\ UNCHANGED <<made, adopted, exposed>>
    BY <1>1, <1>4 DEF EditSpec, ClearPending, ObjectType, hist
  <2>2. Object' = Object /\ Owned' = Owned
    BY <2>1, OwnedSame DEF Object
  <2>3. CASE EditSpec
    <3>1. Object = "present" /\ Keeps' \in BOOLEAN
      BY <2>3 DEF EditSpec, Object, Keeps
    <3>2. Contract!Reconsider
      BY <1>2, <2>2, <3>1
         DEF Contract!Reconsider, Object, Keeps, Alive, Owned, Mishaps
    <3>3. QED
      BY <3>2 DEF ContractStep, Contract!Next
  <2>4. CASE ClearPending
    <3>1. Keeps' = Keeps
      BY <1>1, <2>4 DEF ClearPending, ObjectType, Keeps
    <3>2. QED
      BY <1>2, <2>2, <3>1, Stutters DEF ContractStep
  <2>5. QED
    BY <1>4, <2>3, <2>4
<1>5. CASE DeleteObject
  <2>1. /\ mr.phase = "present" /\ ~mr.deleting /\ mr'.deleting
        /\ mr'.phase = IF mr.finalizer THEN "present" ELSE "gone"
        /\ mr'.finalizer = mr.finalizer /\ mr'.policies = mr.policies
        /\ UNCHANGED <<made, adopted, exposed>>
    BY <1>1, <1>5 DEF DeleteObject, ObjectType, hist
  <2>2. Owned' = Owned /\ Keeps' = Keeps /\ Object = "present"
    BY <2>1, OwnedSame DEF Object, Keeps
  <2>3. CASE mr.finalizer
    <3>1. Object' = "deleting"
      BY <2>1, <2>3 DEF Object
    <3>2. Contract!Delete
      BY <1>2, <2>2, <3>1
         DEF Contract!Delete, Object, Keeps, Alive, Owned, Mishaps
    <3>3. QED
      BY <3>2 DEF ContractStep, Contract!Next
  <2>4. CASE ~mr.finalizer
    <3>1. Object' = "gone" /\ Owned \cap Alive = {}
      BY <2>1, <2>4, UnheldOwnsNone DEF Object
    <3>2. Contract!Finish
      BY <1>2, <2>2, <3>1
         DEF Contract!Finish, Object, Keeps, Alive, Owned, Mishaps
    <3>3. QED
      BY <3>2 DEF ContractStep, Contract!Next
  <2>5. QED
    BY <2>3, <2>4
<1>6. QED
  BY <1>3, <1>4, <1>5 DEF UserStep

\* The writes are none of the contract, but for the first: with the finalizer the
\* provider takes charge of a resource that the user imported.
LEMMA WritesContract ==
  ASSUME OwnInv, OwnInv', AddFinalizer \/ MarkPending \/ Record \/ MarkAvailable
  PROVE  ContractStep
<1>1. mr \in ObjectType /\ seen \in ObjectType
  BY DEF OwnInv, TypeOK
<1>2. /\ UNCHANGED <<ws, cloud, bounds, made, adopted, exposed, Alive, Mishaps>>
      /\ ~seen.deleting /\ pc = "act"
  <2>1. UNCHANGED <<ws, cloud, bounds, made, adopted, exposed>>
    BY DEF AddFinalizer, MarkPending, Record, MarkAvailable, Write, Recording, hist
  <2>2. QED
    BY <2>1 DEF Alive, Live, Mishaps, bounds, AddFinalizer, MarkPending, Record,
                MarkAvailable, Acting
<1>3. CASE mr' = mr
  <2>1. Object' = Object /\ Keeps' = Keeps /\ Owned' = Owned
    BY <1>2, <1>3, OwnedSame DEF Object, Keeps
  <2>2. QED
    BY <1>2, <2>1, Stutters DEF ContractStep
<1>4. CASE fresh
  <2>1. /\ mr.phase = "present" /\ ~mr.deleting /\ seen.phase = "present"
        /\ seen.policies = mr.policies /\ seen.finalizer = mr.finalizer
    BY <1>1, <1>2, <1>4 DEF OwnInv, WorkerInv, CopyInv, ObjectType
  <2>2. /\ mr'.phase = "present" /\ ~mr'.deleting /\ mr'.policies = mr.policies
        /\ mr'.finalizer
    BY <1>1, <1>2, <1>4, <2>1
       DEF AddFinalizer, MarkPending, Record, MarkAvailable, Write, ObjectType
  <2>3. Object = "present" /\ Object' = "present" /\ Keeps' = Keeps
    BY <2>1, <2>2 DEF Object, Keeps
  <2>4. CASE mr.finalizer
    <3>1. Owned' = Owned
      BY <1>2, <2>2, <2>4, OwnedSame, <1>1 DEF ObjectType, OwnInv, TypeOK
    <3>2. QED
      BY <1>2, <2>3, <3>1, Stutters DEF ContractStep
  <2>5. CASE ~mr.finalizer
    <3>1. Owned \cap Alive = {}
      BY <2>1, <2>5, UnheldOwnsNone
    <3>2. Owned = made \ exposed
      BY <2>5 DEF Owned, Known
    <3>3. Owned' = (made \cup ({adopted} \ {None})) \ exposed
      <4>1. (OwnInv => Known = (made \cup ({adopted} \ {None})) \ exposed)'
        BY KnownIs, PTL
      <4>2. QED
        BY <1>2, <2>2, <4>1 DEF Owned
    <3>4. adopted \in Resource \cup {None}
      BY DEF OwnInv, TypeOK
    <3>5. Owned' = Owned \/ \E x \in Resource : Owned' = Owned \cup {x}
      BY <3>2, <3>3, <3>4
    <3>6. CASE Owned' = Owned
      BY <1>2, <2>3, <3>6, Stutters DEF ContractStep
    <3>7. ASSUME NEW x \in Resource, Owned' = Owned \cup {x}
          PROVE  ContractStep
      <4>1. Contract!Adopt
        BY <1>2, <2>3, <3>1, <3>7
           DEF Contract!Adopt, Object, Keeps, Alive, Owned, Mishaps
      <4>2. QED
        BY <4>1 DEF ContractStep, Contract!Next
    <3>8. QED
      BY <3>5, <3>6, <3>7
  <2>6. QED
    BY <2>4, <2>5
<1>5. ~fresh => mr' = mr
  BY DEF AddFinalizer, MarkPending, Record, MarkAvailable, Write
<1>6. QED
  BY <1>3, <1>4, <1>5

\* The object goes only when nothing it owns is left, or when it may be left.
LEMMA RemovalContract ==
  ASSUME Kind \in ReversibleKinds, OwnInv, OwnInv', Abandon \/ Release
  PROVE  ContractStep
<1>1. mr \in ObjectType
  BY DEF OwnInv, TypeOK
<1>2. UNCHANGED <<cloud, bounds, hist, made, adopted, exposed, Alive, Mishaps, Known>>
  <2>1. UNCHANGED <<cloud, bounds, hist>>
    BY DEF Abandon, Release, RemoveFinalizer
  <2>2. QED
    BY <2>1 DEF Alive, Live, Mishaps, bounds, hist, Known
<1>3. CASE mr' = mr
  <2>1. Object' = Object /\ Keeps' = Keeps /\ Owned' = Owned
    BY <1>2, <1>3 DEF Object, Keeps, Owned
  <2>2. QED
    BY <1>2, <2>1, Stutters DEF ContractStep
<1>4. CASE mr' = [mr EXCEPT !.finalizer = FALSE, !.phase = "gone"]
  <2>1. /\ mr'.phase = "gone" /\ ~mr'.finalizer /\ mr'.policies = mr.policies
    BY <1>1, <1>4 DEF ObjectType
  <2>2. mr.phase = "present"
    BY DEF Abandon, Release, OwnInv, WorkerInv, OperationInv, Held
  <2>3. /\ Object \in {"present", "deleting"} /\ Object' = "gone"
        /\ Keeps' = Keeps /\ Owned' \subseteq Owned
    BY <1>2, <2>1, <2>2 DEF Object, Keeps, Owned
  <2>4. Owned \cap Alive = {} \/ Keeps
    <3>1. CASE Abandon
      BY <3>1 DEF Abandon, ShouldDelete, Keeps
    <3>2. CASE Release
      <4>1. ws.tfid = NoState /\ pc = "act"
        BY <3>2 DEF Release, OwnInv, WorkerInv, OperationInv
      <4>2. Found(ws.tfid) = {}
        BY <4>1, NothingNamed, FoundNames
      <4>3. \A x \in Known : ~Live(x)
        BY <2>2, <4>1, <4>2, NoneAlive
      <4>4. QED
        BY <4>3 DEF Owned, Alive
    <3>3. QED
      BY <3>1, <3>2
  <2>5. Contract!Finish
    BY <1>2, <2>3, <2>4 DEF Contract!Finish, Object, Keeps, Alive, Owned, Mishaps
  <2>6. QED
    BY <2>5 DEF ContractStep, Contract!Next
<1>5. QED
  BY <1>3, <1>4 DEF Abandon, Release, RemoveFinalizer

LEMMA ReconcileStepContract ==
  ASSUME Kind \in ReversibleKinds, OwnInv, OwnInv', ReconcileStep
  PROVE  ContractStep
<1>1. mr \in ObjectType /\ mr' \in ObjectType
  BY DEF OwnInv, TypeOK
<1>2. CASE \/ Start \/ Connect \/ ConnectFails \/ ObserveFails \/ StartDestroy
           \/ ReportMissing \/ StartCreate \/ StartUpdate \/ Rest \/ MarkCreated
  <2>1. UNCHANGED <<cloud, bounds, hist>>
    BY <1>2 DEF Start, Connect, ConnectFails, ObserveFails, StartDestroy,
                ReportMissing, StartCreate, StartUpdate, Rest, MarkCreated
  <2>2. /\ mr'.phase = mr.phase /\ mr'.deleting = mr.deleting
        /\ mr'.policies = mr.policies /\ mr'.finalizer = mr.finalizer
    BY <1>1, <1>2 DEF Start, Connect, ConnectFails, ObserveFails, StartDestroy,
                ReportMissing, StartCreate, StartUpdate, Rest, MarkCreated, ObjectType
  <2>3. UNCHANGED <<Object, Keeps, Alive, Owned, Mishaps>>
    BY <2>1, <2>2 DEF Object, Keeps, Alive, Live, Owned, Known, Mishaps, bounds, hist
  <2>4. QED
    BY <2>3, Stutters DEF ContractStep
<1>3. CASE Observe
  <2>1. UNCHANGED <<mr, cloud, bounds, adopted, made, recorded>>
    BY <1>3 DEF Observe
  <2>2. exposed \subseteq exposed'
    BY <1>3 DEF Observe
  <2>3. UNCHANGED <<Object, Keeps, Alive>> /\ Owned' \subseteq Owned
    BY <2>1, <2>2 DEF Object, Keeps, Alive, Live, Owned, Known
  <2>4. CASE exposed' = exposed
    <3>1. UNCHANGED <<Object, Keeps, Alive, Owned, Mishaps>>
      BY <2>1, <2>4 DEF Object, Keeps, Alive, Live, Owned, Known, Mishaps, bounds
    <3>2. QED
      BY <3>1, Stutters DEF ContractStep
  <2>5. CASE exposed' # exposed
    <3>1. Mishaps' # Mishaps
      BY <2>5 DEF Mishaps
    <3>2. Contract!Forget
      BY <2>3, <3>1 DEF Contract!Forget, Object, Keeps, Alive, Owned, Mishaps
    <3>3. QED
      BY <3>2 DEF ContractStep, Contract!Next
  <2>6. QED
    BY <2>4, <2>5
<1>4. QED
  BY <1>2, <1>3, WritesContract, RemovalContract DEF ReconcileStep

LEMMA OtherStepContract ==
  ASSUME Kind \in ReversibleKinds, OwnInv, OwnInv', OperationStep \/ LoseResource \/ Crash
  PROVE  ContractStep
<1>1. ws \in WsType /\ cloud \in CloudType
  BY Types DEF OwnInv
<1>2. UNCHANGED <<mr, Object, Keeps>>
  <2>1. UNCHANGED mr
    BY DEF OperationStep, ApplyCreates, ApplyUpdates, Destroys, OpEnds, Callback,
           LoseResource, Crash
  <2>2. QED
    BY <2>1 DEF Object, Keeps
<1>3. Known \subseteq Resource
  BY DEF Known, OwnInv, TypeOK
<1>4. CASE ApplyUpdates \/ OpEnds \/ Callback
  <2>1. UNCHANGED <<bounds, hist>>
    BY <1>4 DEF ApplyUpdates, OpEnds, Callback
  <2>2. \A x \in Resource : cloud'[x].state = cloud[x].state
    BY <1>1, <1>4 DEF ApplyUpdates, OpEnds, Callback, CloudType
  <2>3. UNCHANGED <<Alive, Owned, Mishaps>>
    BY <1>2, <2>1, <2>2 DEF Alive, Live, Owned, Known, Mishaps, bounds, hist
  <2>4. QED
    BY <1>2, <2>3, Stutters DEF ContractStep
<1>5. CASE ApplyCreates
  <2>1. PICK x \in Resource :
          /\ cloud[x].state = "free"
          /\ cloud' = [cloud EXCEPT ![x] = [state |-> "live", gen |-> ws.main]]
          /\ made' = made \cup {x}
    BY <1>5 DEF ApplyCreates
  <2>2. UNCHANGED <<recorded, adopted, exposed, Mishaps>>
    BY <1>5 DEF ApplyCreates, Mishaps, bounds
  <2>3. x \in Resource \ Alive /\ Alive' = Alive \cup {x}
    BY <1>1, <2>1 DEF Alive, Live, CloudType
  <2>4. x \notin made /\ x \notin recorded /\ x \notin exposed
    BY <2>1 DEF OwnInv, IdInv, HistoryInv
  <2>5. Owned' = Owned \cup {x}
    BY <1>2, <2>1, <2>2, <2>4 DEF Owned, Known
  <2>6. Owned \cap Alive = {}
    BY <1>5, NoneAlive DEF ApplyCreates, Owned, Alive
  <2>7. Object \in {"present", "deleting"} \/ (Object = "gone" /\ Keeps)
    BY <1>5 DEF ApplyCreates, OwnInv, WorkerInv, OperationInv, Held, Kept, Object, Keeps
  <2>8. Contract!Provide
    BY <1>2, <2>2, <2>3, <2>5, <2>6, <2>7
       DEF Contract!Provide, Object, Keeps, Alive, Owned, Mishaps
  <2>9. QED
    BY <2>8 DEF ContractStep, Contract!Next
<1>6. CASE Destroys
  <2>1. UNCHANGED <<bounds, hist, Owned, Mishaps>>
    BY <1>2, <1>6 DEF Destroys, Owned, Known, Mishaps, bounds, hist
  <2>2. Alive' = Alive \ Found(ws.tfid)
    <3>1. ASSUME NEW y \in Resource
          PROVE  cloud'[y] = IF y \in Found(ws.tfid)
                             THEN [cloud[y] EXCEPT !.state = "deleted"] ELSE cloud[y]
      BY <1>6 DEF Destroys
    <3>2. \A y \in Resource : Live(y)' <=> Live(y) /\ y \notin Found(ws.tfid)
      BY <1>1, <3>1 DEF Live, CloudType
    <3>3. QED
      BY <3>2 DEF Alive
  <2>3. CASE Found(ws.tfid) = {}
    BY <1>2, <2>1, <2>2, <2>3, Stutters DEF ContractStep
  <2>4. ASSUME NEW x \in Found(ws.tfid)
        PROVE  ContractStep
    <3>1. Found(ws.tfid) = {x} /\ x \in Alive
      BY <2>4, FoundNames, NamesOne DEF Alive
    <3>2. Object = "deleting"
      BY <1>6 DEF Destroys, OwnInv, WorkerInv, OperationInv, Held, Object
    <3>3. Contract!Destroy
      BY <1>2, <2>1, <2>2, <3>1, <3>2
         DEF Contract!Destroy, Object, Keeps, Alive, Owned, Mishaps
    <3>4. QED
      BY <3>3 DEF ContractStep, Contract!Next
  <2>5. QED
    BY <2>3, <2>4
<1>7. CASE LoseResource
  <2>1. PICK x \in Resource : Live(x) /\ cloud' = [cloud EXCEPT ![x].state = "deleted"]
    BY <1>7 DEF LoseResource
  <2>2. x \in Alive /\ Alive' = Alive \ {x}
    BY <1>1, <2>1 DEF Alive, Live, CloudType
  <2>3. Owned' = Owned
    BY <1>2, <1>7 DEF LoseResource, Owned, Known, hist
  <2>4. Mishaps' # Mishaps
    <3>1. losses' # losses
      BY <1>7 DEF LoseResource, OwnInv, TypeOK
    <3>2. QED
      BY <3>1 DEF Mishaps
  <2>5. Contract!Lose
    BY <1>2, <2>2, <2>3, <2>4
       DEF Contract!Lose, Object, Keeps, Alive, Owned, Mishaps
  <2>6. QED
    BY <2>5 DEF ContractStep, Contract!Next
<1>8. CASE Crash
  <2>1. Alive' = Alive /\ Owned' \subseteq Owned
    BY <1>2, <1>8 DEF Crash, Alive, Live, Owned, Known
  <2>2. Mishaps' # Mishaps
    <3>1. crashes' # crashes
      BY <1>8 DEF Crash, OwnInv, TypeOK
    <3>2. QED
      BY <3>1 DEF Mishaps
  <2>3. Contract!Forget
    BY <1>2, <2>1, <2>2 DEF Contract!Forget, Object, Keeps, Alive, Owned, Mishaps
  <2>4. QED
    BY <2>3 DEF ContractStep, Contract!Next
<1>9. QED
  BY <1>4, <1>5, <1>6, <1>7, <1>8 DEF OperationStep

\* The controller implements the contract: every step of the user, the reconciler,
\* the operation, the cloud and the pod is a step of the contract or none of it.
THEOREM ContractImplemented ==
  ASSUME Kind \in ReversibleKinds
  PROVE  Spec => ImplementsContract
<1>1. Init => Contract!Init
  BY AbsentIs DEF Init, Contract!Init, Known
<1>2. OwnInv /\ OwnInv' /\ [Next]_vars => [Contract!Next]_Contract!contract
  <2> SUFFICES ASSUME OwnInv, OwnInv', [Next]_vars
               PROVE  ContractStep
    BY DEF ContractStep
  <2>1. CASE UNCHANGED vars
    <3>1. UNCHANGED <<mr, cloud, bounds, hist>>
      BY <2>1 DEF vars
    <3>2. UNCHANGED <<Object, Keeps, Alive, Owned, Mishaps>>
      BY <3>1 DEF Object, Keeps, Alive, Live, Owned, Known, Mishaps, bounds, hist
    <3>3. QED
      BY <3>2, Stutters DEF ContractStep
  <2>2. QED
    BY <2>1, UserStepContract, ReconcileStepContract, OtherStepContract DEF Next
<1>3. QED
  BY <1>1, <1>2, AlwaysOwn, PTL DEF Spec, ImplementsContract, Contract!Spec

-------------------------------------------------------------------------------
(* One resource in a lifetime *)

\* Something that is known was destroyed, and nothing else made it go.
Ended == losses = 0 /\ \E x \in Known : ~Live(x)

\* From the start of a destroy on the object is being deleted, and so is every copy
\* of it that a worker acts upon: no apply runs, and none can be started.
EndedInv ==
  /\ pc \in {"create", "created"} => ~seen.deleting
  /\ ws.op = "destroy" \/ Ended => mr.deleting /\ (pc = "idle" \/ seen.deleting)
  /\ Ended => ws.op # "apply"

LifeInv == OneInALifetime /\ EndedInv

\* What most steps do to the histories.
Forgetting == UNCHANGED <<made, adopted, losses>> /\ exposed \subseteq exposed'

\* They make nothing known, and what they do not destroy does not end.
LEMMA ForgettingLife ==
  ASSUME OwnInv, OwnInv', LifeInv, Forgetting
  PROVE  /\ EndedInv' => LifeInv'
         /\ (\A x \in Resource : Live(x) => Live(x)') /\ Ended' => Ended
<1>1. (OwnInv => Known = (made \cup ({adopted} \ {None})) \ exposed)'
  BY KnownIs, PTL
<1>2. Known' \subseteq Known
  BY <1>1, KnownIs DEF Forgetting
<1>3. Known \subseteq Resource
  BY DEF Known, OwnInv, TypeOK
<1>4. QED
  BY <1>2, <1>3 DEF Forgetting, LifeInv, OneInALifetime, Ended

\* Nothing is known before the object is created; an import is known and exists.
LEMMA CreateObjectLife ==
  ASSUME OwnInv, CreateObject
  PROVE  LifeInv'
<1>1. made = {} /\ recorded = {} /\ pc = "idle" /\ ws.op = "none"
  BY DEF CreateObject, OwnInv, WorkerInv, ObjectInv
<1>2. UNCHANGED <<pc, ws, cloud, made>>
  BY DEF CreateObject, worker, hist
<1>3. recorded' = {} \/ \E x \in Resource : Live(x) /\ recorded' = {x}
  BY <1>1 DEF CreateObject, hist
<1>4. (\A x, y \in Known : x = y)' /\ (\A x \in Known : Live(x))'
  BY <1>1, <1>2, <1>3 DEF Known, Live
<1>5. QED
  BY <1>1, <1>2, <1>4 DEF LifeInv, OneInALifetime, EndedInv, Ended

\* An apply that creates runs while nothing known was destroyed and nothing known
\* exists: what it creates is the first.
LEMMA ApplyCreatesLife ==
  ASSUME OwnInv, LifeInv, ApplyCreates
  PROVE  LifeInv'
<1>1. PICK x \in Resource :
        /\ cloud' = [cloud EXCEPT ![x] = [state |-> "live", gen |-> ws.main]]
        /\ made' = made \cup {x}
  BY DEF ApplyCreates
<1>2. UNCHANGED <<mr, pc, seen, losses, recorded, exposed>> /\ ws'.op = "apply"
  BY Types DEF ApplyCreates, worker, bounds, WsType, OwnInv
<1>3. losses = 0 => Known = {}
  BY NoneAlive DEF ApplyCreates, LifeInv, EndedInv, Ended
<1>4. losses = 0 => Known' \subseteq {x}
  BY <1>1, <1>2, <1>3 DEF Known
<1>5. Live(x)'
  BY <1>1, Types DEF Live, CloudType, OwnInv
<1>6. ~Ended'
  BY <1>2, <1>4, <1>5 DEF Ended
<1>7. QED
  BY <1>2, <1>4, <1>6 DEF LifeInv, OneInALifetime, EndedInv, ApplyCreates

LEMMA UserStepLife ==
  ASSUME OwnInv, OwnInv', LifeInv, UserStep
  PROVE  LifeInv'
<1>1. CASE CreateObject
  BY <1>1, CreateObjectLife
<1>2. CASE EditSpec \/ DeleteObject \/ ClearPending
  <2>1. UNCHANGED <<pc, seen, ws, cloud>> /\ Forgetting
    BY <1>2 DEF EditSpec, DeleteObject, ClearPending, bounds, worker, hist, Forgetting
  <2>2. Ended' => Ended
    BY <2>1, ForgettingLife DEF Live
  <2>3. mr.deleting => mr'.deleting
    BY <1>2, Types DEF EditSpec, DeleteObject, ClearPending, ObjectType, OwnInv
  <2>4. EndedInv'
    BY <2>1, <2>2, <2>3 DEF LifeInv, EndedInv
  <2>5. QED
    BY <2>1, <2>4, ForgettingLife
<1>3. QED
  BY <1>1, <1>2 DEF UserStep

\* The reconciler ends nothing. It starts an apply for a copy that is not being
\* deleted, and a destroy for one that is.
LEMMA ReconcileStepLife ==
  ASSUME OwnInv, OwnInv', LifeInv, ReconcileStep
  PROVE  LifeInv'
<1>1. mr \in ObjectType /\ seen \in ObjectType /\ ws \in WsType
  BY Types DEF OwnInv
<1>2. UNCHANGED cloud /\ Forgetting
  BY DEF ReconcileStep, Start, Abandon, Connect, ConnectFails, Observe, ObserveFails,
    StartDestroy, Release, RemoveFinalizer, ReportMissing, AddFinalizer, MarkPending,
    StartCreate, MarkCreated, Record, MarkAvailable, Write, Recording, StartUpdate,
    Rest, hist, bounds, Forgetting
<1>3. (Ended' => Ended) /\ (EndedInv' => LifeInv')
  BY <1>2, ForgettingLife DEF Live
<1>4. CASE Start
  BY <1>1, <1>3, <1>4 DEF Start, LifeInv, EndedInv
<1>5. CASE \/ Abandon \/ ConnectFails \/ ObserveFails \/ Release \/ ReportMissing
           \/ MarkCreated \/ Rest
  <2>1. pc' = "idle" /\ mr'.deleting = mr.deleting /\ ws'.op = ws.op
    BY <1>1, <1>5 DEF Abandon, ConnectFails, ObserveFails, Release, RemoveFinalizer,
      ReportMissing, MarkCreated, Rest, Idle, ObjectType, WsType
  <2>2. QED
    BY <1>3, <2>1 DEF LifeInv, EndedInv
<1>6. CASE Connect \/ Observe
  <2>1. /\ mr' = mr /\ seen'.deleting = seen.deleting /\ ws'.op = ws.op
        /\ pc # "idle" /\ pc' \in {"observe", "act"}
    BY <1>1, <1>6 DEF Connect, Observe, ObjectType, WsType
  <2>2. QED
    BY <1>3, <2>1 DEF LifeInv, EndedInv
<1>7. CASE StartDestroy
  <2>1. pc = "act" /\ seen.deleting /\ pc' = "idle" /\ mr' = mr
    BY <1>7 DEF StartDestroy, Idle
  <2>2. mr.deleting
    BY <2>1 DEF OwnInv, WorkerInv, OperationInv
  <2>3. ws'.op = ws.op \/ ws'.op = "destroy"
    BY <1>1, <1>7 DEF StartDestroy, StartOp, WsType
  <2>4. QED
    BY <1>3, <2>1, <2>2, <2>3 DEF LifeInv, EndedInv
<1>8. CASE StartUpdate \/ StartCreate
  <2>1. ~seen.deleting /\ pc # "idle" /\ UNCHANGED mr
    BY <1>8 DEF StartUpdate, StartCreate, Acting, LifeInv, EndedInv
  <2>2. ~Ended /\ ws.op # "destroy"
    BY <2>1 DEF LifeInv, EndedInv
  <2>3. ws'.op # "destroy" /\ (pc' \in {"create", "created"} => ~seen'.deleting)
    BY <1>1, <1>8, <2>1, <2>2 DEF StartUpdate, StartCreate, StartOp, Idle, WsType
  <2>4. QED
    BY <1>3, <2>2, <2>3 DEF LifeInv, EndedInv
<1>9. CASE AddFinalizer \/ MarkPending \/ Record \/ MarkAvailable
  <2>1. ~seen.deleting /\ pc = "act" /\ UNCHANGED ws
    BY <1>9 DEF AddFinalizer, MarkPending, Record, MarkAvailable, Acting
  <2>2. ~Ended /\ ws.op # "destroy"
    BY <2>1 DEF LifeInv, EndedInv
  <2>3. pc' \in {"create", "created"} => ~seen'.deleting
    BY <1>1, <1>9, <2>1
       DEF AddFinalizer, MarkPending, Record, MarkAvailable, Write, Idle, ObjectType
  <2>4. QED
    BY <1>3, <2>1, <2>2, <2>3 DEF LifeInv, EndedInv
<1>10. QED
  BY <1>4, <1>5, <1>6, <1>7, <1>8, <1>9 DEF ReconcileStep

\* A destroy ends what it finds; a loss is counted.
LEMMA OtherStepLife ==
  ASSUME OwnInv, OwnInv', LifeInv, OperationStep \/ LoseResource \/ Crash
  PROVE  LifeInv'
<1>1. ws \in WsType /\ cloud \in CloudType
  BY Types DEF OwnInv
<1>2. CASE ApplyCreates
  BY <1>2, ApplyCreatesLife
<1>3. CASE ApplyUpdates \/ OpEnds \/ Callback \/ Crash
  <2>1. Forgetting /\ UNCHANGED mr
    BY <1>3 DEF ApplyUpdates, OpEnds, Callback, Crash, Forgetting, hist, bounds
  <2>2. \A x \in Resource : Live(x) => Live(x)'
    BY <1>1, <1>3 DEF ApplyUpdates, OpEnds, Callback, Crash, Live, CloudType
  <2>3. Ended' => Ended
    BY <2>1, <2>2, ForgettingLife
  <2>4. ws'.op = ws.op \/ ws'.op = "none"
    <3>1. CASE ApplyUpdates \/ OpEnds \/ Callback
      BY <1>1, <3>1 DEF ApplyUpdates, OpEnds, Callback, WsType
    <3>2. CASE Crash
      BY <3>2 DEF Crash, NoWorkspace
    <3>3. QED
      BY <1>3, <3>1, <3>2
  <2>5. pc' = "idle" \/ (pc' = pc /\ seen' = seen)
    BY <1>3 DEF ApplyUpdates, OpEnds, Callback, Crash, Idle, worker
  <2>6. EndedInv'
    BY <2>1, <2>3, <2>4, <2>5 DEF LifeInv, EndedInv
  <2>7. QED
    BY <2>1, <2>6, ForgettingLife
<1>4. CASE Destroys
  <2>1. /\ Forgetting /\ UNCHANGED <<mr, pc, seen>>
        /\ ws.op = "destroy" /\ ws'.op = "destroy"
    BY <1>1, <1>4 DEF Destroys, Forgetting, hist, bounds, worker, WsType
  <2>2. EndedInv'
    BY <2>1 DEF LifeInv, EndedInv
  <2>3. QED
    BY <2>1, <2>2, ForgettingLife
<1>5. CASE LoseResource
  <2>1. losses' # 0 /\ UNCHANGED <<mr, pc, seen, ws>>
    BY <1>5 DEF LoseResource, OwnInv, TypeOK, worker
  <2>2. QED
    BY <2>1 DEF LifeInv, OneInALifetime, EndedInv, Ended
<1>6. QED
  BY <1>2, <1>3, <1>4, <1>5 DEF OperationStep

LEMMA AlwaysLife ==
  ASSUME Kind \in ReversibleKinds
  PROVE  Spec => []LifeInv
<1>1. Init => LifeInv
  BY DEF Init, LifeInv, OneInALifetime, EndedInv, Ended, Known, NoWorkspace
<1>2. OwnInv /\ OwnInv' /\ LifeInv /\ [Next]_vars => LifeInv'
  <2> SUFFICES ASSUME OwnInv, OwnInv', LifeInv, [Next]_vars PROVE LifeInv'
    OBVIOUS
  <2>1. CASE UNCHANGED vars
    BY <2>1 DEF vars, worker, hist, bounds, LifeInv, OneInALifetime, EndedInv, Ended,
                Known, Live
  <2>2. QED
    BY <2>1, UserStepLife, ReconcileStepLife, OtherStepLife DEF Next
<1>3. QED
  BY <1>1, <1>2, AlwaysOwn, PTL DEF Spec

\* While nothing is lost in the cloud an object stands for one resource in its
\* whole life: after a destroy nothing is created again, in whatever order copies,
\* operations and crashes come.
THEOREM OneForALifetime ==
  ASSUME Kind \in ReversibleKinds
  PROVE  Spec => []OneInALifetime
<1>1. LifeInv => OneInALifetime
  BY DEF LifeInv
<1>2. QED
  BY <1>1, AlwaysLife, PTL

===============================================================================
