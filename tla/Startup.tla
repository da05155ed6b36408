-------------------------------- MODULE Startup ---------------------------------
(***************************************************************************)
(* The start of the provider (cmd/provider/main.go): the precheck that     *)
(* decides whether controllers wait for their CRDs, the gate that starts   *)
(* each of them when its CRDs are there, the set-up without a gate, leader *)
(* election, and pods that die and come back while CRDs and permissions    *)
(* arrive in any order. During a rolling update two pods run.              *)
(***************************************************************************)
EXTENDS Controllers, Naturals, FiniteSets

CONSTANTS
  Pod,
  Unit,            \* the controllers looked at
  LeaderElection,  \* the choices for the flag --leader-election
  None,            \* nobody holds the lease
  MaxCrashes,      \* bound: pods killed, leases lost
  MaxRemovals,     \* bound: CRDs removed
  MaxFailures      \* bound: controllers that cannot be set up

ASSUME PodAssumption == None \notin Pod
ASSUME UnitAssumption == Unit \subseteq DOMAIN Controller
ASSUME ElectionAssumption == LeaderElection \subseteq BOOLEAN
ASSUME StartupBounds ==
  MaxCrashes \in Nat /\ MaxRemovals \in Nat /\ MaxFailures \in Nat

VARIABLES
  election,   \* the flag of this deployment
  crds,       \* the kinds whose CRDs are established
  verbs,      \* what the service account may do with CRDs
  pods,       \* the process of each pod
  lease,      \* its holder and the time since the last renewal
  crashes, removals, failures

cluster == <<election, crds, verbs>>
bounds  == <<crashes, removals, failures>>
vars    == <<cluster, pods, lease, bounds>>

-------------------------------------------------------------------------------
(* main.go *)

\* In units of ten seconds.
LeaseDuration == 6

\* Mutant of RenewDeadline: longer than the lease.
RenewDeadline_long == 7

RenewDeadline == 5

Verbs == {"get", "list", "watch"}

\* canWatchCRD: the first verb that is denied decides.
CanWatchCRD == Verbs \subseteq verbs

Watched == UNION {Controller[u].watches : u \in Unit}
Gates == UNION {Controller[u].gate : u \in Unit}

\* A process that is not there: its controllers wait at the gate, are set up, have
\* their caches in sync, or could not be set up.
Down == [phase |-> "down", gated |-> FALSE, waiting |-> {}, started |-> {},
         synced |-> {}, failed |-> {}]

Init ==
  /\ election \in LeaderElection
  /\ crds \in SUBSET (Watched \cup Gates) /\ verbs \in SUBSET Verbs
  /\ pods = [p \in Pod |-> Down]
  /\ lease = [holder |-> None, age |-> LeaseDuration]
  /\ crashes = 0 /\ removals = 0 /\ failures = 0

Become(p, process) == pods' = [pods EXCEPT ![p] = process]

\* The precheck and the registration, before the manager starts. A gated set-up
\* only registers a function; the other one sets up every controller at once.
Boot(p) ==
  /\ pods[p].phase = "down"
  /\ IF CanWatchCRD
     THEN Become(p, [Down EXCEPT !.phase = "ready", !.gated = TRUE,
                                 !.waiting = Unit \cap SetupGated])
     ELSE Become(p, [Down EXCEPT !.phase = "ready",
                                 !.started = Unit \cap Setup])
  /\ UNCHANGED <<cluster, lease, bounds>>

\* FatalIfError: a controller that cannot be set up without a gate ends the process.
BootFails(p) ==
  /\ pods[p].phase = "down" /\ failures < MaxFailures
  /\ failures' = failures + 1
  /\ UNCHANGED <<cluster, pods, lease, crashes, removals>>

\* mgr.Start: without leader election the controllers run at once.
Lead(p) ==
  /\ pods[p].phase = "ready"
  /\ IF election
     THEN lease.age >= LeaseDuration /\ lease' = [holder |-> p, age |-> 0]
     ELSE UNCHANGED lease
  /\ Become(p, [pods[p] EXCEPT !.phase = "running"])
  /\ UNCHANGED <<cluster, bounds>>

Running(p) == pods[p].phase = "running"

\* Mutant of OpenGate: the function stays registered.
OpenGate_again(p) ==
  /\ Running(p) /\ Verbs \subseteq verbs
  /\ \E u \in pods[p].waiting :
       /\ Controller[u].gate \subseteq crds
       /\ Become(p, [pods[p] EXCEPT !.started = @ \cup {u}])
  /\ UNCHANGED <<cluster, lease, bounds>>

\* The gate's controller sees the last CRD that a registered function waits for and
\* calls it, once. It needs all three verbs to see any CRD.
OpenGate(p) ==
  /\ Running(p) /\ Verbs \subseteq verbs
  /\ \E u \in pods[p].waiting :
       /\ Controller[u].gate \subseteq crds
       /\ Become(p, [pods[p] EXCEPT !.waiting = @ \ {u}, !.started = @ \cup {u}])
  /\ UNCHANGED <<cluster, lease, bounds>>

\* SetupGated logs the error of Setup and goes on.
OpenGateFails(p) ==
  /\ Running(p) /\ Verbs \subseteq verbs /\ failures < MaxFailures
  /\ \E u \in pods[p].waiting :
       /\ Controller[u].gate \subseteq crds
       /\ Become(p, [pods[p] EXCEPT !.waiting = @ \ {u}, !.failed = @ \cup {u}])
  /\ failures' = failures + 1
  /\ UNCHANGED <<cluster, lease, crashes, removals>>

\* A controller works once the caches of what it watches are in sync ...
Sync(p) ==
  /\ Running(p)
  /\ \E u \in pods[p].started \ pods[p].synced :
       /\ Controller[u].watches \subseteq crds
       /\ Become(p, [pods[p] EXCEPT !.synced = @ \cup {u}])
  /\ UNCHANGED <<cluster, lease, bounds>>

\* ... and ends the process when they are not in time.
SyncTimeout(p) ==
  /\ Running(p)
  /\ \E u \in pods[p].started \ pods[p].synced :
       ~(Controller[u].watches \subseteq crds)
  /\ Become(p, Down)
  /\ UNCHANGED <<cluster, lease, bounds>>

-------------------------------------------------------------------------------
(* Leader election *)

Leads(p) == election /\ Running(p) /\ lease.holder = p

Renew(p) ==
  /\ Leads(p) /\ lease.age > 0
  /\ lease' = [lease EXCEPT !.age = 0]
  /\ UNCHANGED <<cluster, pods, bounds>>

\* A leader that could not renew in time ends its process.
LoseLease(p) ==
  /\ Leads(p) /\ lease.age >= RenewDeadline /\ crashes < MaxCrashes
  /\ Become(p, Down) /\ crashes' = crashes + 1
  /\ UNCHANGED <<cluster, lease, removals, failures>>

\* Ten seconds, in which no process sleeps through its own deadline.
Tick ==
  /\ election /\ lease.age < LeaseDuration
  /\ \A p \in Pod : Leads(p) => lease.age < RenewDeadline
  /\ lease' = [lease EXCEPT !.age = @ + 1]
  /\ UNCHANGED <<cluster, pods, bounds>>

-------------------------------------------------------------------------------
(* The cluster *)

Crash(p) ==
  /\ pods[p].phase # "down" /\ crashes < MaxCrashes
  /\ Become(p, Down) /\ crashes' = crashes + 1
  /\ UNCHANGED <<cluster, lease, removals, failures>>

\* The package manager installs the CRDs one after the other.
Establish ==
  /\ \E k \in (Watched \cup Gates) \ crds : crds' = crds \cup {k}
  /\ UNCHANGED <<election, verbs, pods, lease, bounds>>

Remove ==
  /\ removals < MaxRemovals /\ removals' = removals + 1
  /\ \E k \in crds : crds' = crds \ {k}
  /\ UNCHANGED <<election, verbs, pods, lease, crashes, failures>>

\* An administrator adds a permission.
Grant ==
  /\ \E v \in Verbs \ verbs : verbs' = verbs \cup {v}
  /\ UNCHANGED <<election, crds, pods, lease, bounds>>

Next ==
  \/ \E p \in Pod :
       \/ Boot(p) \/ BootFails(p) \/ Lead(p) \/ OpenGate(p) \/ OpenGateFails(p)
       \/ Sync(p) \/ SyncTimeout(p) \/ Renew(p) \/ LoseLease(p) \/ Crash(p)
  \/ Tick \/ Establish \/ Remove \/ Grant

Spec == Init /\ [][Next]_vars

\* Kubernetes restarts the pods, the manager starts what it can, time passes and
\* the API server is there to renew the lease. CRDs and permissions may never come.
Fairness ==
  /\ \A p \in Pod : WF_vars(Boot(p)) /\ WF_vars(Lead(p)) /\ WF_vars(OpenGate(p))
                    /\ WF_vars(Sync(p)) /\ WF_vars(SyncTimeout(p))
                    /\ WF_vars(Renew(p))
  /\ WF_vars(Tick)

FairSpec == Spec /\ Fairness

-------------------------------------------------------------------------------
(* Properties *)

Process ==
  [phase : {"down", "ready", "running"}, gated : BOOLEAN, waiting : SUBSET Unit,
   started : SUBSET Unit, synced : SUBSET Unit, failed : SUBSET Unit]

TypeOK ==
  /\ election \in BOOLEAN /\ crds \subseteq Watched \cup Gates
  /\ verbs \subseteq Verbs
  /\ pods \in [Pod -> Process]
  /\ \A p \in Pod : pods[p].waiting \cap pods[p].started = {}
  /\ lease \in [holder : Pod \cup {None}, age : 0..LeaseDuration]
  /\ crashes \in 0..MaxCrashes /\ removals \in 0..MaxRemovals
  /\ failures \in 0..MaxFailures

\* With leader election at most one pod reconciles at any time, whoever crashes or
\* fails to renew (LeaseDuration and RenewDeadline of main.go).
OneWorker ==
  election => \A p, q \in Pod : Running(p) /\ Running(q) => p = q

\* SafeStart: a gated process never has a controller that watches a kind without
\* a CRD, and so is not ended by one, unless a CRD was removed.
GateProtects ==
  \A p \in Pod : pods[p].gated /\ removals = 0 =>
    \A u \in pods[p].started : Controller[u].watches \subseteq crds

\* Whatever order CRDs, permissions and pods come in, every kind whose CRDs are
\* there comes to be reconciled; without the gate all CRDs have to be there, and
\* a controller whose set-up failed is only logged.
AllServed ==
  <>[](\A u \in Unit :
         /\ Controller[u].watches \subseteq crds
         /\ Verbs \subseteq verbs \/ Watched \subseteq crds
         => \E p \in Pod : Running(p) /\ u \in pods[p].synced \cup pods[p].failed)
===============================================================================
