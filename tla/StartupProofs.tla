----------------------------- MODULE StartupProofs ------------------------------
(***************************************************************************)
(* The start-up of the provider keeps its types, the lease keeps two pods  *)
(* from reconciling at once, and the gate keeps controllers away from      *)
(* kinds without a CRD, for any number of pods and every set of            *)
(* controllers.                                                            *)
(***************************************************************************)
EXTENDS Startup, TLAPS

-------------------------------------------------------------------------------
(* Type correctness *)

LEMMA DownTyped == Down \in Process
BY DEF Down, Process

\* One process changes.
LEMMA BecomeTyped ==
  ASSUME pods \in [Pod -> Process], NEW p \in Pod, NEW process \in Process,
         Become(p, process)
  PROVE  /\ pods' \in [Pod -> Process]
         /\ pods'[p] = process
         /\ \A q \in Pod : q # p => pods'[q] = pods[q]
BY DEF Become

\* The bookkeeping of the types that no process takes part in.
Rest ==
  /\ election \in BOOLEAN /\ crds \subseteq Watched \cup Gates
  /\ verbs \subseteq Verbs
  /\ lease \in [holder : Pod \cup {None}, age : 0..LeaseDuration]
  /\ crashes \in 0..MaxCrashes /\ removals \in 0..MaxRemovals
  /\ failures \in 0..MaxFailures

LEMMA InitType == Init => TypeOK
<1> SUFFICES ASSUME Init PROVE TypeOK
  OBVIOUS
<1>1. pods \in [Pod -> Process] /\ \A p \in Pod : pods[p] = Down
  BY DownTyped DEF Init
<1>2. lease \in [holder : Pod \cup {None}, age : 0..LeaseDuration]
  BY DEF Init, LeaseDuration
<1>3. crashes \in 0..MaxCrashes /\ removals \in 0..MaxRemovals
      /\ failures \in 0..MaxFailures
  BY StartupBounds DEF Init
<1>4. election \in BOOLEAN /\ crds \subseteq Watched \cup Gates /\ verbs \subseteq Verbs
  BY ElectionAssumption DEF Init
<1>5. \A p \in Pod : pods[p].waiting \cap pods[p].started = {}
  BY <1>1 DEF Down
<1>6. QED
  BY <1>1, <1>2, <1>3, <1>4, <1>5 DEF TypeOK

\* What the steps of a pod make of its process.
ProcessOK(r) == r \in Process /\ r.waiting \cap r.started = {}

LEMMA PodsType ==
  ASSUME TypeOK, NEW p \in Pod, NEW r, ProcessOK(r), Become(p, r), Rest'
  PROVE  TypeOK'
<1>1. pods' \in [Pod -> Process] /\ \A q \in Pod : pods'[q] = r \/ pods'[q] = pods[q]
  BY BecomeTyped DEF TypeOK, ProcessOK
<1>2. \A q \in Pod : pods'[q].waiting \cap pods'[q].started = {}
  BY <1>1 DEF ProcessOK, TypeOK
<1>3. QED
  BY <1>1, <1>2 DEF TypeOK, Rest

LEMMA StepTypes ==
  ASSUME TypeOK, [Next]_vars
  PROVE  TypeOK'
<1>1. /\ Rest /\ pods \in [Pod -> Process]
      /\ \A p \in Pod : ProcessOK(pods[p])
  BY DEF TypeOK, Rest, ProcessOK
<1>2. /\ crashes < MaxCrashes => crashes + 1 \in 0..MaxCrashes
      /\ removals < MaxRemovals => removals + 1 \in 0..MaxRemovals
      /\ failures < MaxFailures => failures + 1 \in 0..MaxFailures
  BY <1>1, StartupBounds DEF Rest
<1>3. ProcessOK(Down)
  BY DownTyped DEF ProcessOK, Down
<1> USE DEF cluster, bounds
<1>4. ASSUME NEW p \in Pod, Boot(p) PROVE TypeOK'
  <2>1. Rest'
    BY <1>4, <1>1 DEF Boot, Rest, Watched, Gates
  <2>2. ProcessOK([Down EXCEPT !.phase = "ready", !.gated = TRUE,
                               !.waiting = Unit \cap SetupGated])
    BY DEF ProcessOK, Down, Process
  <2>3. ProcessOK([Down EXCEPT !.phase = "ready", !.started = Unit \cap Setup])
    BY DEF ProcessOK, Down, Process
  <2>4. QED
    BY <1>4, <2>1, <2>2, <2>3, PodsType DEF Boot
<1>5. ASSUME NEW p \in Pod, BootFails(p) PROVE TypeOK'
  BY <1>5, <1>2 DEF BootFails, TypeOK
<1>6. ASSUME NEW p \in Pod, Lead(p) PROVE TypeOK'
  <2>1. Rest'
    BY <1>6, <1>1 DEF Lead, Rest, LeaseDuration
  <2>2. ProcessOK([pods[p] EXCEPT !.phase = "running"])
    BY <1>1 DEF ProcessOK, Process
  <2>3. QED
    BY <1>6, <2>1, <2>2, PodsType DEF Lead
<1>7. ASSUME NEW p \in Pod, OpenGate(p) PROVE TypeOK'
  <2>1. PICK u \in pods[p].waiting :
          Become(p, [pods[p] EXCEPT !.waiting = @ \ {u}, !.started = @ \cup {u}])
    BY <1>7 DEF OpenGate
  <2>2. ProcessOK([pods[p] EXCEPT !.waiting = @ \ {u}, !.started = @ \cup {u}])
    BY <1>1 DEF ProcessOK, Process
  <2>3. Rest'
    BY <1>7, <1>1 DEF OpenGate, Rest
  <2>4. QED
    BY <2>1, <2>2, <2>3, PodsType
<1>8. ASSUME NEW p \in Pod, OpenGateFails(p) PROVE TypeOK'
  <2>1. PICK u \in pods[p].waiting :
          Become(p, [pods[p] EXCEPT !.waiting = @ \ {u}, !.failed = @ \cup {u}])
    BY <1>8 DEF OpenGateFails
  <2>2. ProcessOK([pods[p] EXCEPT !.waiting = @ \ {u}, !.failed = @ \cup {u}])
    BY <1>1 DEF ProcessOK, Process
  <2>3. Rest'
    BY <1>8, <1>1, <1>2 DEF OpenGateFails, Rest
  <2>4. QED
    BY <2>1, <2>2, <2>3, PodsType
<1>9. ASSUME NEW p \in Pod, Sync(p) PROVE TypeOK'
  <2>1. PICK u \in pods[p].started \ pods[p].synced :
          Become(p, [pods[p] EXCEPT !.synced = @ \cup {u}])
    BY <1>9 DEF Sync
  <2>2. ProcessOK([pods[p] EXCEPT !.synced = @ \cup {u}])
    BY <1>1 DEF ProcessOK, Process
  <2>3. Rest'
    BY <1>9, <1>1 DEF Sync, Rest
  <2>4. QED
    BY <2>1, <2>2, <2>3, PodsType
<1>10. ASSUME NEW p \in Pod, SyncTimeout(p) \/ LoseLease(p) \/ Crash(p) PROVE TypeOK'
  <2>1. Rest' /\ Become(p, Down)
    BY <1>10, <1>1, <1>2 DEF SyncTimeout, LoseLease, Crash, Rest
  <2>2. QED
    BY <2>1, <1>3, PodsType
<1>11. ASSUME NEW p \in Pod, Renew(p) PROVE TypeOK'
  BY <1>11 DEF Renew, TypeOK, LeaseDuration
<1>12. CASE Tick
  BY <1>12 DEF Tick, TypeOK, LeaseDuration
<1>13. CASE Establish \/ Grant
  BY <1>13 DEF Establish, Grant, TypeOK
<1>14. CASE Remove
  BY <1>14, <1>2 DEF Remove, TypeOK
<1>15. CASE UNCHANGED vars
  BY <1>15 DEF vars, TypeOK
<1>16. QED
  BY <1>4, <1>5, <1>6, <1>7, <1>8, <1>9, <1>10, <1>11, <1>12, <1>13, <1>14,
     <1>15 DEF Next

\* Every variable keeps its type, and a controller that was set up never waits at
\* the gate again.
THEOREM AlwaysTypeOK == Spec => []TypeOK
<1>1. TypeOK /\ [Next]_vars => TypeOK'
  BY StepTypes
<1>2. QED
  BY <1>1, InitType, PTL DEF Spec

-------------------------------------------------------------------------------
(* The lease. A pod that runs holds it, and its age never reaches the point  *)
(* at which another pod may take it, because the clock waits for the holder  *)
(* at RenewDeadline: this, and RenewDeadline < LeaseDuration, is the argument. *)

Holds ==
  election => \A p \in Pod : Running(p) =>
                lease.holder = p /\ lease.age <= RenewDeadline

LEMMA InitHolds == Init => Holds
BY DEF Init, Holds, Running, Down

LEMMA StepHolds ==
  ASSUME TypeOK, Holds, [Next]_vars
  PROVE  Holds'
<1>1. /\ pods \in [Pod -> Process]
      /\ lease \in [holder : Pod \cup {None}, age : 0..LeaseDuration]
      /\ UNCHANGED election
  BY DEF TypeOK, Next, Boot, BootFails, Lead, OpenGate, OpenGateFails, Sync,
         SyncTimeout, Renew, LoseLease, Crash, Tick, Establish, Remove, Grant,
         vars, cluster
\* A step that leaves the lease alone, and starts no process.
<1>2. ASSUME UNCHANGED lease, \A q \in Pod : Running(q)' => Running(q)
      PROVE  Holds'
  BY <1>1, <1>2 DEF Holds
<1>3. ASSUME NEW p \in Pod, NEW r, Become(p, r), UNCHANGED lease,
             r.phase = "running" => pods[p].phase = "running"
      PROVE  Holds'
  <2>1. \A q \in Pod : pods'[q] = IF q = p THEN r ELSE pods[q]
    BY <1>1, <1>3 DEF Become
  <2>2. QED
    BY <1>2, <1>3, <2>1 DEF Running
<1>4. ASSUME NEW p \in Pod, Boot(p) PROVE Holds'
  BY <1>3, <1>4 DEF Boot, Down
<1>5. ASSUME NEW p \in Pod, Lead(p) PROVE Holds'
  <2>1. \A q \in Pod : pods'[q] = IF q = p THEN [pods[p] EXCEPT !.phase = "running"]
                                           ELSE pods[q]
    BY <1>1, <1>5 DEF Lead, Become
  \* Nobody runs any more when the lease can be taken.
  <2>2. election => \A q \in Pod : ~Running(q)
    BY <1>5, <1>1 DEF Lead, Holds, LeaseDuration, RenewDeadline
  <2>3. election => lease' = [holder |-> p, age |-> 0]
    BY <1>5 DEF Lead
  <2>4. election => \A q \in Pod : Running(q)' => q = p
    BY <2>1, <2>2 DEF Running
  <2>5. QED
    BY <1>1, <2>3, <2>4 DEF Holds, RenewDeadline
<1>6. ASSUME NEW p \in Pod, OpenGate(p) \/ OpenGateFails(p) \/ Sync(p) PROVE Holds'
  <2>1. pods[p].phase = "running"
    BY <1>6 DEF OpenGate, OpenGateFails, Sync, Running
  <2>2. PICK r : Become(p, r) /\ UNCHANGED lease
    BY <1>6 DEF OpenGate, OpenGateFails, Sync
  <2>3. QED
    BY <1>3, <2>1, <2>2
<1>7. ASSUME NEW p \in Pod, SyncTimeout(p) \/ LoseLease(p) \/ Crash(p) PROVE Holds'
  <2>1. Become(p, Down) /\ UNCHANGED lease
    BY <1>7 DEF SyncTimeout, LoseLease, Crash, bounds
  <2>2. QED
    BY <1>3, <2>1 DEF Down
<1>8. ASSUME NEW p \in Pod, Renew(p) PROVE Holds'
  BY <1>8, <1>1 DEF Renew, Holds, Running, RenewDeadline
<1>9. CASE Tick
  <2>1. lease'.holder = lease.holder /\ lease'.age = lease.age + 1
    BY <1>9, <1>1 DEF Tick
  <2>2. \A p \in Pod : Running(p) => lease.holder = p /\ lease.age < RenewDeadline
    BY <1>9, <1>1 DEF Tick, Holds, Leads
  <2>3. QED
    BY <1>9, <1>1, <2>1, <2>2 DEF Tick, Holds, Running, RenewDeadline
<1>10. CASE UNCHANGED <<pods, lease>>
  BY <1>10, <1>2 DEF Running
<1>11. QED
  BY <1>4, <1>5, <1>6, <1>7, <1>8, <1>9, <1>10
     DEF Next, BootFails, Establish, Remove, Grant, vars

\* With leader election on, two pods never reconcile at the same time, whoever
\* crashes, cannot renew or comes back, and however many pods there are.
THEOREM AlwaysOneWorker == Spec => []OneWorker
<1>1. Init => TypeOK /\ Holds
  BY InitType, InitHolds
<1>2. (TypeOK /\ Holds) /\ [Next]_vars => (TypeOK /\ Holds)'
  BY StepTypes, StepHolds
<1>3. Holds => OneWorker
  BY DEF Holds, OneWorker
<1>4. QED
  BY <1>1, <1>2, <1>3, PTL DEF Spec

-------------------------------------------------------------------------------
(* The gate *)

\* Every controller waits for all it watches.
LEMMA GatesCoverWatches ==
  \A u \in DOMAIN Controller : Controller[u].watches \subseteq Controller[u].gate
<1>1. \A k : Manages(k).watches \subseteq Manages(k).gate
  BY DEF Manages
<1>2. ProviderConfigController.watches \subseteq ProviderConfigController.gate
  BY DEF ProviderConfigController
<1>3. \A u \in DOMAIN Controller :
        Controller[u] = ProviderConfigController \/ \E k : Controller[u] = Manages(k)
  BY DEF Controller, BackupController, BlockstorageController,
     CloudserverController, ContainerregistryController, DatabaseController,
     DatabasebackupController, DatabasegrantController, DbaasController,
     DbaasuserController, ElasticipController, KaasController,
     KeypairController, KMSController, ProjectController, RestoreController,
     SchedulejobController, SecuritygroupController, SecurityruleController,
     SnapshotController, SubnetController, VPCController, VpcpeeringController,
     VpcpeeringrouteController, VpnrouteController, VpntunnelController
<1>4. QED
  BY <1>1, <1>2, <1>3

\* What was set up in a gated process has its CRDs while none is removed.
Protected(r) ==
  r.gated /\ removals = 0 => \A u \in r.started : Controller[u].watches \subseteq crds

LEMMA InitProtects == Init => GateProtects
BY DEF Init, GateProtects, Down

LEMMA StepProtects ==
  ASSUME TypeOK, GateProtects, [Next]_vars
  PROVE  GateProtects'
<1>1. pods \in [Pod -> Process] /\ \A q \in Pod : Protected(pods[q])
  BY DEF TypeOK, GateProtects, Protected
<1>2. removals \in Nat
  BY DEF TypeOK
\* CRDs only come, and what one process starts says nothing of the others.
<1>3. ASSUME NEW p \in Pod, NEW r, Become(p, r), UNCHANGED <<crds, removals>>,
             Protected(r)
      PROVE  GateProtects'
  <2>1. \A q \in Pod : pods'[q] = IF q = p THEN r ELSE pods[q]
    BY <1>1, <1>3 DEF Become
  <2>2. \A q \in Pod : Protected(pods'[q])
    BY <1>1, <1>3, <2>1
  <2>3. QED
    BY <1>3, <2>2 DEF GateProtects, Protected
<1> USE DEF cluster, bounds
<1>4. ASSUME NEW p \in Pod, Boot(p) PROVE GateProtects'
  <2>1. Protected([Down EXCEPT !.phase = "ready", !.gated = TRUE,
                               !.waiting = Unit \cap SetupGated])
    BY DEF Protected, Down
  <2>2. Protected([Down EXCEPT !.phase = "ready", !.started = Unit \cap Setup])
    BY DEF Protected, Down
  <2>3. QED
    BY <1>3, <1>4, <2>1, <2>2 DEF Boot
<1>5. ASSUME NEW p \in Pod, Lead(p) PROVE GateProtects'
  <2>1. Protected([pods[p] EXCEPT !.phase = "running"])
    BY <1>1 DEF Protected, Process
  <2>2. QED
    BY <1>3, <1>5, <2>1 DEF Lead
<1>6. ASSUME NEW p \in Pod, OpenGate(p) PROVE GateProtects'
  <2>1. PICK u \in pods[p].waiting :
          /\ Controller[u].gate \subseteq crds
          /\ Become(p, [pods[p] EXCEPT !.waiting = @ \ {u}, !.started = @ \cup {u}])
    BY <1>6 DEF OpenGate
  <2>2. Controller[u].watches \subseteq crds
    BY <2>1, <1>1, UnitAssumption, GatesCoverWatches DEF Process
  <2>3. Protected([pods[p] EXCEPT !.waiting = @ \ {u}, !.started = @ \cup {u}])
    BY <1>1, <2>2 DEF Protected, Process
  <2>4. QED
    BY <1>3, <1>6, <2>1, <2>3 DEF OpenGate
<1>7. ASSUME NEW p \in Pod, OpenGateFails(p) PROVE GateProtects'
  <2>1. PICK u \in pods[p].waiting :
          Become(p, [pods[p] EXCEPT !.waiting = @ \ {u}, !.failed = @ \cup {u}])
    BY <1>7 DEF OpenGateFails
  <2>2. Protected([pods[p] EXCEPT !.waiting = @ \ {u}, !.failed = @ \cup {u}])
    BY <1>1 DEF Protected, Process
  <2>3. QED
    BY <1>3, <1>7, <2>1, <2>2 DEF OpenGateFails
<1>8. ASSUME NEW p \in Pod, Sync(p) PROVE GateProtects'
  <2>1. PICK u \in pods[p].started \ pods[p].synced :
          Become(p, [pods[p] EXCEPT !.synced = @ \cup {u}])
    BY <1>8 DEF Sync
  <2>2. Protected([pods[p] EXCEPT !.synced = @ \cup {u}])
    BY <1>1 DEF Protected, Process
  <2>3. QED
    BY <1>3, <1>8, <2>1, <2>2 DEF Sync
<1>9. ASSUME NEW p \in Pod, SyncTimeout(p) \/ LoseLease(p) \/ Crash(p)
      PROVE  GateProtects'
  <2>1. Become(p, Down) /\ UNCHANGED <<crds, removals>>
    BY <1>9 DEF SyncTimeout, LoseLease, Crash
  <2>2. Protected(Down)
    BY DEF Protected, Down
  <2>3. QED
    BY <1>3, <2>1, <2>2
<1>10. CASE Establish
  BY <1>10 DEF Establish, GateProtects
<1>11. CASE Remove
  BY <1>11, <1>2 DEF Remove, GateProtects
<1>12. CASE UNCHANGED <<pods, crds, removals>>
  BY <1>12 DEF GateProtects
<1>13. QED
  BY <1>4, <1>5, <1>6, <1>7, <1>8, <1>9, <1>10, <1>11, <1>12
     DEF Next, BootFails, Renew, Tick, Grant, vars

\* SafeStart: whatever order CRDs, permissions and pods come in, a gated process
\* never sets up a controller for a kind without a CRD (unless one is removed).
THEOREM GateAlwaysProtects == Spec => []GateProtects
<1>1. Init => TypeOK /\ GateProtects
  BY InitType, InitProtects
<1>2. (TypeOK /\ GateProtects) /\ [Next]_vars => (TypeOK /\ GateProtects)'
  BY StepTypes, StepProtects
<1>3. QED
  BY <1>1, <1>2, PTL DEF Spec
===============================================================================
