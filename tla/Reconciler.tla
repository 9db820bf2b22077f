----------------------------- MODULE Reconciler ----------------------------
(***************************************************************************)
(* The control plane at work: the reconciliation loop                      *)
(* (internal/reconciler), a single goroutine, interleaved with the API     *)
(* handlers (internal/api), the health checker (internal/node/health.go)   *)
(* and the container engines of the nodes.                                 *)
(*                                                                         *)
(* A cycle reads the services and the nodes once, and works from these     *)
(* snapshots; pc says where in the cycle the goroutine is:                 *)
(*   idle -> listNodes -> nodes <-> containers                             *)
(*        -> services <-> execute                    (a DELETING service)  *)
(*           services -> replica -> schedule <-> reserve, execute          *)
(*                    -> services                    (an ACTIVE service)   *)
(*        -> idle                                                          *)
(* One step is one database transaction, or the remote calls for one       *)
(* workload together with the transaction that records their outcome.      *)
(* Nobody else writes the workloads table, so what the loop read from it   *)
(* stays true until the loop itself writes it; pend and todo hold only     *)
(* the workloads of a listing for which the loop body does something.      *)
(*                                                                         *)
(* What is abstracted:                                                     *)
(*  - the engine of node n holds at most one container of workload w: its  *)
(*    name "workload-<id>" is unique to the engine.  Every node has an     *)
(*    engine of its own;                                                   *)
(*  - containers are created without a restart policy and nobody outside   *)
(*    restarts one: a container that has exited stays so;                  *)
(*  - everything that can go wrong (a lost call or answer, a failed        *)
(*    transaction, a crash of the control plane, an expired heartbeat or   *)
(*    deployment timeout, a container that exits or is removed) takes one  *)
(*    of MaxFaults;                                                        *)
(*  - a cycle that fails before it wrote anything is no step.              *)
(***************************************************************************)
EXTENDS Controllers, Scheduler

CONSTANTS
    Capacities,     \* what a node may register with
    Requests,       \* what a service may ask for, per replica
    Replicas,       \* the replica counts clients ask for
    Strategies,     \* the [surge, unavailable] pairs clients ask for
    MaxFaults,      \* bound: how many things go wrong
    MaxUpdates      \* bound: how many times clients update a service

ASSUME CapacitiesAssumption == Capacities \subseteq Resources
ASSUME RequestsAssumption == Requests \subseteq Resources
ASSUME ReplicasAssumption == Replicas \subseteq Nat
ASSUME StrategiesAssumption == Strategies \subseteq [surge : Nat, unavailable : Nat]
ASSUME MaxFaultsAssumption == MaxFaults \in Nat
ASSUME MaxUpdatesAssumption == MaxUpdates \in Nat

VARIABLES
    containers,   \* containers[n][w]: the container of w on node n
    pc,
    snap,         \* what is left of ListServices in this cycle
    nodeSnap,     \* what is left of ListNodes in this cycle: the statuses
    listed,       \* ListContainers of curNode
    curNode,      \* the node at hand
    curService,   \* the service at hand
    curWorkload,  \* the workload being placed on curNode
    pend,         \* the loop over containers, or over pending workloads
    todo,         \* the loop of executeScheduledWorkloads
    faults, updates

local == <<pc, snap, nodeSnap, listed, curNode, curService, curWorkload, pend, todo>>

vars == <<tables, containers, local, faults, updates>>

ContainerStatus == {"none", "created", "running", "exited"}

Phase == {"idle", "listNodes", "nodes", "containers", "services", "replica",
          "schedule", "reserve", "execute"}

TypeOK ==
    /\ StoreTypeOK
    /\ containers \in [Node -> [Workload -> ContainerStatus]]
    /\ pc \in Phase
    /\ snap \in [Service -> ServiceRow]
    /\ nodeSnap \in [Node -> {"ABSENT", "READY", "UNHEALTHY"}]
    /\ listed \in [Workload -> ContainerStatus]
    /\ curNode \in Node \cup {Null}
    /\ curService \in Service \cup {Null}
    /\ curWorkload \in Workload \cup {Null}
    /\ pend \in SUBSET Workload
    /\ todo \in SUBSET Workload
    /\ faults \in 0..MaxFaults
    /\ updates \in 0..MaxUpdates

NothingListed == [w \in Workload |-> "none"]

LocalInit ==
    /\ pc = "idle"
    /\ snap = [s \in Service |-> AbsentService]
    /\ nodeSnap = [n \in Node |-> "ABSENT"]
    /\ listed = NothingListed
    /\ curNode = Null /\ curService = Null /\ curWorkload = Null
    /\ pend = {} /\ todo = {}

Init ==
    /\ StoreInit
    /\ containers = [n \in Node |-> [w \in Workload |-> "none"]]
    /\ LocalInit
    /\ faults = 0
    /\ updates = 0

Fault == faults < MaxFaults /\ faults' = faults + 1

NoFault == UNCHANGED <<faults, updates>>

-----------------------------------------------------------------------------
(* The API handlers and the health checker.                                *)

\* What every step outside the reconciler's goroutine leaves alone.
Outside == UNCHANGED local

registerNode(n, cap) ==
    /\ RegisterNode(n, cap)
    /\ Outside /\ NoFault /\ UNCHANGED containers

heartbeat(n) ==
    /\ UpdateHeartbeat(n)
    /\ Outside /\ NoFault /\ UNCHANGED containers

\* The health checker found the last heartbeat of n too old.
markUnhealthy(n) ==
    /\ nodes[n].status = "READY"
    /\ SetNodeStatus(n, "UNHEALTHY")
    /\ Fault
    /\ Outside /\ UNCHANGED <<containers, updates>>

\* validateServiceRequest refuses a strategy that can make no progress.  The
\* service starts with the defaults: version 1, AVAILABLE and ACTIVE.
createService(s, replicas, req, strategy) ==
    /\ strategy.surge + strategy.unavailable > 0 \/ replicas = 0
    /\ CreateService(s, [status |-> "ACTIVE", version |-> 1,
                         deployment |-> "AVAILABLE", started |-> FALSE,
                         replicas |-> replicas, surge |-> strategy.surge,
                         unavailable |-> strategy.unavailable, req |-> req])
    /\ Outside /\ NoFault /\ UNCHANGED containers

updateService(s, replicas, req, newImage) ==
    /\ updates < MaxUpdates
    /\ updates' = updates + 1
    /\ UpdateService(s, replicas, req, newImage)
    /\ Outside /\ UNCHANGED <<containers, faults>>

deleteService(s) ==
    /\ MarkServiceDeleting(s)
    /\ Outside /\ NoFault /\ UNCHANGED containers

-----------------------------------------------------------------------------
(* The engines: a container exits, or is removed behind our back.          *)

SetContainer(n, w, status) == containers' = [containers EXCEPT ![n][w] = status]

ContainerExits(n, w) ==
    /\ containers[n][w] = "running"
    /\ SetContainer(n, w, "exited")
    /\ Fault
    /\ Outside /\ UNCHANGED <<tables, updates>>

ContainerRemoved(n, w) ==
    /\ containers[n][w] # "none"
    /\ SetContainer(n, w, "none")
    /\ Fault
    /\ Outside /\ UNCHANGED <<tables, updates>>

\* What docker stop makes of a container; one that is gone counts as stopped.
StoppedContainer(status) == IF status = "running" THEN "exited" ELSE status

-----------------------------------------------------------------------------
(* The cycle: reading the snapshots.                                       *)

ListServices ==
    /\ pc = "idle"
    /\ pc' = "listNodes"
    /\ snap' = services
    /\ UNCHANGED <<tables, containers, nodeSnap, listed, curNode, curService,
                   curWorkload, pend, todo, faults, updates>>

ListNodes ==
    /\ pc = "listNodes"
    /\ pc' = "nodes"
    /\ nodeSnap' = [n \in Node |-> nodes[n].status]
    /\ UNCHANGED <<tables, containers, snap, listed, curNode, curService,
                   curWorkload, pend, todo, faults, updates>>

-----------------------------------------------------------------------------
(* The nodes of the snapshot, one after the other.                         *)

NodeVisited(n) == nodeSnap' = [nodeSnap EXCEPT ![n] = "ABSENT"]

RecoverNode(n) ==
    /\ pc = "nodes"
    /\ nodeSnap[n] = "UNHEALTHY"
    /\ RecoverWorkloadsFromNode(n)
    /\ NodeVisited(n)
    /\ UNCHANGED <<containers, pc, snap, listed, curNode, curService,
                   curWorkload, pend, todo, faults, updates>>

containerState(status) ==
    CASE status = "running" -> "RUNNING"
      [] status = "created" -> "SCHEDULED"
      [] OTHER -> "FAILED"

StopRequested(w) ==
    workloads[w].desired = "STOPPED" /\ workloads[w].actual # "STOPPED"

\* The listed containers for which ReconcileNode does something.
OutOfSync(n) ==
    {w \in Workload :
        /\ containers[n][w] # "none"
        /\ Tracked(w, n)
        /\ StopRequested(w) \/ workloads[w].actual # containerState(containers[n][w])}

\* RuntimeReconciler.ReconcileNode begins: ListContainers.
ReconcileNode(n) ==
    /\ pc = "nodes"
    /\ nodeSnap[n] = "READY"
    /\ pc' = "containers"
    /\ curNode' = n
    /\ listed' = containers[n]
    /\ pend' = OutOfSync(n)
    /\ NodeVisited(n)
    /\ UNCHANGED <<tables, containers, snap, curService, curWorkload, todo,
                   faults, updates>>

\* The recovery transaction or ListContainers fails: on to the next node.
NodeCallFails(n) ==
    /\ pc = "nodes"
    /\ nodeSnap[n] # "ABSENT"
    /\ NodeVisited(n)
    /\ Fault
    /\ UNCHANGED <<tables, containers, pc, snap, listed, curNode, curService,
                   curWorkload, pend, todo, updates>>

NodesDone ==
    /\ pc = "nodes"
    /\ \A n \in Node : nodeSnap[n] = "ABSENT"
    /\ pc' = "services"
    /\ UNCHANGED <<tables, containers, snap, nodeSnap, listed, curNode, curService,
                   curWorkload, pend, todo, faults, updates>>

-----------------------------------------------------------------------------
(* ReconcileNode: the containers of curNode.                               *)

\* A stop was asked for.  Only the state is written, not the release.
StopTracked(w) ==
    /\ pc = "containers" /\ w \in pend
    /\ StopRequested(w)
    /\ SetContainer(curNode, w, StoppedContainer(containers[curNode][w]))
    /\ UpdateWorkloadActualState(w, "STOPPED")
    /\ pend' = pend \ {w}
    /\ UNCHANGED <<pc, snap, nodeSnap, listed, curNode, curService, curWorkload,
                   todo, faults, updates>>

\* StopContainer fails, with or without effect on the container.
StopTrackedFails(w) ==
    /\ pc = "containers" /\ w \in pend
    /\ StopRequested(w)
    /\ \E status \in {containers[curNode][w], StoppedContainer(containers[curNode][w])} :
          SetContainer(curNode, w, status)
    /\ pend' = pend \ {w}
    /\ Fault
    /\ UNCHANGED <<tables, pc, snap, nodeSnap, listed, curNode, curService,
                   curWorkload, todo, updates>>

\* GetWorkloadByContainerID fails: the container is taken for one of somebody
\* else, and passed over.
LookupFails(w) ==
    /\ pc = "containers" /\ w \in pend
    /\ pend' = pend \ {w}
    /\ Fault
    /\ UNCHANGED <<tables, containers, pc, snap, nodeSnap, listed, curNode, curService,
                   curWorkload, todo, updates>>

\* The row takes the state its container was listed with.
SyncTracked(w) ==
    /\ pc = "containers" /\ w \in pend
    /\ ~StopRequested(w)
    /\ LET state == containerState(listed[w])
       IN  IF state = "FAILED"
           THEN MarkWorkloadFailedAndReleaseResources(w)
           ELSE UpdateWorkloadActualState(w, state)
    /\ pend' = pend \ {w}
    /\ UNCHANGED <<containers, pc, snap, nodeSnap, listed, curNode, curService,
                   curWorkload, todo, faults, updates>>

\* Mutants of MissingContainers: the listing is not consulted; nothing is
\* ever missing.
MissingUnlisted ==
    {w \in ListWorkloadsByNode(curNode) :
        /\ workloads[w].container # Null
        /\ workloads[w].actual \in {"RUNNING", "SCHEDULED"}}

NothingMissing == {}

\* The workloads of curNode whose container was not listed.
MissingContainers ==
    {w \in ListWorkloadsByNode(curNode) :
        /\ workloads[w].container # Null
        /\ workloads[w].actual \in {"RUNNING", "SCHEDULED"}
        /\ ~(workloads[w].container = curNode /\ listed[w] # "none")}

FailMissing(w) ==
    /\ pc = "containers" /\ pend = {}
    /\ w \in MissingContainers
    /\ MarkWorkloadFailedAndReleaseResources(w)
    /\ UNCHANGED <<containers, local, faults, updates>>

LeaveNode ==
    /\ pc' = "nodes"
    /\ curNode' = Null
    /\ listed' = NothingListed
    /\ pend' = {}
    /\ UNCHANGED <<snap, nodeSnap, curService, curWorkload, todo, updates>>

NodeDone ==
    /\ pc = "containers" /\ pend = {} /\ MissingContainers = {}
    /\ LeaveNode
    /\ UNCHANGED <<tables, containers, faults>>

\* A transaction of ReconcileNode fails: it returns, with the rest undone.
\* The container whose stop could not be recorded may be stopped already.
NodeAborted ==
    /\ pc = "containers"
    /\ \/ UNCHANGED containers
       \/ \E w \in pend :
             /\ StopRequested(w)
             /\ SetContainer(curNode, w, StoppedContainer(containers[curNode][w]))
    /\ LeaveNode
    /\ Fault
    /\ UNCHANGED tables

-----------------------------------------------------------------------------
(* The services of the snapshot, one after the other.                      *)

\* Mutant of NeedsExecution: stops are left to the runtime reconciler.
NeedsLaunchOnly(row) ==
    /\ row.desired = "SCHEDULED"
    /\ row.actual \in {"PENDING", "SCHEDULED"}
    /\ row.node # Null

\* The rows executeScheduledWorkloads does something for.
NeedsExecution(row) ==
    \/ row.desired = "STOPPED" /\ row.actual # "STOPPED"
    \/ /\ row.desired = "SCHEDULED"
       /\ row.actual \in {"PENDING", "SCHEDULED"}
       /\ row.node # Null

\* executeScheduledWorkloads begins: ListWorkloadsByService, read after the
\* writes of the same step.
ToExecute(s) ==
    todo' = {w \in Workload :
                workloads'[w].service = s /\ NeedsExecution(workloads'[w])}

ToSchedule(s) ==
    pend' = {w \in Workload :
                workloads'[w].service = s /\ workloads'[w].actual = "PENDING"}

\* On to the next service.
LeaveService(s) ==
    /\ pc' = "services"
    /\ snap' = [snap EXCEPT ![s] = AbsentService]
    /\ curService' = Null
    /\ pend' = {}
    /\ UNCHANGED <<nodeSnap, listed, curNode, curWorkload, todo, updates>>

\* reconcile skips a service that is neither ACTIVE nor DELETING.
SkipService(s) ==
    /\ pc = "services"
    /\ snap[s].status = "DELETED"
    /\ LeaveService(s)
    /\ UNCHANGED <<tables, containers, faults>>

ServicesDone ==
    /\ pc = "services"
    /\ \A s \in Service : snap[s].status = "ABSENT"
    /\ pc' = "idle"
    /\ UNCHANGED <<tables, containers, snap, nodeSnap, listed, curNode, curService,
                   curWorkload, pend, todo, faults, updates>>

ReconcileDeletion(s) ==
    /\ pc = "services"
    /\ snap[s].status = "DELETING"
    /\ \/ DeletionController(s) /\ UNCHANGED faults
       \/ DeletionControllerPart(s) /\ Fault
    /\ ToExecute(s)
    /\ pc' = "execute"
    /\ curService' = s
    /\ UNCHANGED <<containers, snap, nodeSnap, listed, curNode, curWorkload, pend,
                   updates>>

ReconcileDeployment(s) ==
    /\ pc = "services"
    /\ snap[s].status = "ACTIVE"
    /\ DeploymentController(s, snap[s])
    /\ pc' = "replica"
    /\ curService' = s
    /\ UNCHANGED <<containers, snap, nodeSnap, listed, curNode, curWorkload, pend,
                   todo, faults, updates>>

\* The controller's write fails for want of a workload id, or a query or
\* write of it fails; there is none for a deployment that has FAILED.
DeploymentFails(s) ==
    /\ pc = "services"
    /\ snap[s].status = "ACTIVE"
    /\ \/ /\ ~RolloutIdle(s, snap[s]) /\ SurgeAllowed(s, snap[s]) /\ FreeWorkload = {}
          /\ UNCHANGED faults
       \/ snap[s].deployment # "FAILED" /\ Fault
    /\ LeaveService(s)
    /\ UNCHANGED <<tables, containers>>

ReconcileReplicas ==
    /\ pc = "replica"
    /\ ReplicaController(curService, snap[curService])
    /\ ToSchedule(curService)
    /\ pc' = "schedule"
    /\ UNCHANGED <<containers, snap, nodeSnap, listed, curNode, curService,
                   curWorkload, todo, faults, updates>>

\* More replicas are missing than there are ids: the first INSERT without
\* one fails.
ReplicasOutOfIds ==
    /\ pc = "replica"
    /\ LET s == curService
       IN  /\ ~ReplicasIdle(s, snap[s])
           /\ MissingReplicas(s, snap[s]) > Cardinality(FreeWorkload)
           /\ CreatePendingWorkloads(FreeWorkload, s, snap[s])
           /\ LeaveService(s)
    /\ UNCHANGED <<containers, faults>>

\* A write of the ReplicaController fails: the rest of the service waits for
\* the next cycle.
ReplicasFail ==
    /\ pc = "replica"
    /\ ReplicaControllerPart(curService, snap[curService])
    /\ Fault
    /\ LeaveService(curService)
    /\ UNCHANGED containers

-----------------------------------------------------------------------------
(* schedulePendingWorkloads.                                               *)

\* ScheduleWorkload read the nodes and chose one.
PickNode(w) ==
    /\ pc = "schedule" /\ w \in pend
    /\ workloads[w].desired = "PENDING"
    /\ \E n \in BestNodes(workloads[w].req) : curNode' = n
    /\ curWorkload' = w
    /\ pc' = "reserve"
    /\ UNCHANGED <<tables, containers, snap, nodeSnap, listed, curService, pend,
                   todo, faults, updates>>

\* "no suitable node": the next pending workload, without executing.
NoNode(w) ==
    /\ pc = "schedule" /\ w \in pend
    /\ workloads[w].desired = "PENDING"
    /\ BestNodes(workloads[w].req) = {}
    /\ pend' = pend \ {w}
    /\ UNCHANGED <<tables, containers, pc, snap, nodeSnap, listed, curNode,
                   curService, curWorkload, todo, faults, updates>>

Reserve ==
    /\ pc = "reserve"
    /\ ReserveNodeForWorkload(curWorkload, curNode)
    /\ ToExecute(curService)
    /\ pend' = pend \ {curWorkload}
    /\ pc' = "execute"
    /\ curNode' = Null /\ curWorkload' = Null
    /\ UNCHANGED <<containers, snap, nodeSnap, listed, curService, faults, updates>>

\* The node chosen is not ready any more, or too small now; or a fault.
ReserveFails ==
    /\ pc = "reserve"
    /\ \/ ~Reservable(curNode, workloads[curWorkload].req) /\ UNCHANGED faults
       \/ Fault
    /\ pend' = pend \ {curWorkload}
    /\ pc' = "schedule"
    /\ curNode' = Null /\ curWorkload' = Null
    /\ UNCHANGED <<tables, containers, snap, nodeSnap, listed, curService, todo,
                   updates>>

\* A pending workload that has a node already, or is to stop, is not placed.
ExecuteOnly(w) ==
    /\ pc = "schedule" /\ w \in pend
    /\ workloads[w].desired # "PENDING"
    /\ UNCHANGED tables
    /\ ToExecute(curService)
    /\ pend' = pend \ {w}
    /\ pc' = "execute"
    /\ UNCHANGED <<containers, snap, nodeSnap, listed, curNode, curService,
                   curWorkload, faults, updates>>

\* Every pending workload was tried: the status of the rollout, last.
ReconcileStatus ==
    /\ pc = "schedule" /\ pend = {}
    /\ \/ /\ DeploymentStatusController(curService, snap[curService], FALSE)
          /\ UNCHANGED faults
       \/ /\ DeploymentStatusController(curService, snap[curService], TRUE)
          /\ Fault
    /\ LeaveService(curService)
    /\ UNCHANGED containers

\* The ReplicaController's query fails, or the status of the rollout cannot
\* be read or written.
ServiceFails ==
    /\ pc = "replica" \/ (pc = "schedule" /\ pend = {})
    /\ snap[curService].deployment # "FAILED"
    /\ Fault
    /\ LeaveService(curService)
    /\ UNCHANGED <<tables, containers>>

-----------------------------------------------------------------------------
(* executeScheduledWorkloads and the WorkloadExecutor.                     *)

Executed(w) ==
    /\ todo' = todo \ {w}
    /\ UNCHANGED <<pc, snap, nodeSnap, listed, curNode, curService, curWorkload,
                   pend, updates>>

ToLaunch(w) ==
    /\ pc = "execute" /\ w \in todo
    /\ workloads[w].desired = "SCHEDULED"

\* Mutant of Launch: the container is recorded without being started.
LaunchUnstarted(w) ==
    /\ ToLaunch(w)
    /\ LET n == workloads[w].node
       IN  /\ containers[n][w] = "none"
           /\ SetContainer(n, w, "created")
           /\ MarkWorkloadRunning(w, n)
    /\ Executed(w)
    /\ UNCHANGED faults

\* Execute: create, start, record.
Launch(w) ==
    /\ ToLaunch(w)
    /\ LET n == workloads[w].node
       IN  /\ containers[n][w] = "none"
           /\ SetContainer(n, w, "running")
           /\ MarkWorkloadRunning(w, n)
    /\ Executed(w)
    /\ UNCHANGED faults

\* Create fails: the engine has a container with this name already.
LaunchConflict(w) ==
    /\ ToLaunch(w)
    /\ containers[workloads[w].node][w] # "none"
    /\ Executed(w)
    /\ UNCHANGED <<tables, containers, faults>>

\* A call or a transaction of Execute fails.  The container may be there,
\* and may run; a failed start marks the workload FAILED, with no container.
LaunchFails(w) ==
    /\ ToLaunch(w)
    /\ LET n == workloads[w].node
       IN  /\ containers[n][w] = "none"
           /\ \/ /\ \E status \in {"none", "created", "running"} : SetContainer(n, w, status)
                 /\ UNCHANGED tables
              \/ /\ \E status \in {"created", "running"} : SetContainer(n, w, status)
                 /\ MarkWorkloadFailedAndReleaseResources(w)
    /\ Executed(w)
    /\ Fault

ToStop(w) ==
    /\ pc = "execute" /\ w \in todo
    /\ workloads[w].desired = "STOPPED"

\* Stop: stop and delete the container if the row has one, then record.
Stop(w) ==
    /\ ToStop(w)
    /\ IF workloads[w].container = Null
       THEN UNCHANGED containers
       ELSE SetContainer(workloads[w].container, w, "none")
    /\ MarkWorkloadStoppedAndReleaseResources(w)
    /\ Executed(w)
    /\ UNCHANGED faults

\* A call or the transaction of Stop fails.
StopFails(w) ==
    /\ ToStop(w)
    /\ IF workloads[w].container = Null
       THEN UNCHANGED containers
       ELSE LET n == workloads[w].container
            IN  \E status \in {containers[n][w], StoppedContainer(containers[n][w]), "none"} :
                    SetContainer(n, w, status)
    /\ Executed(w)
    /\ Fault
    /\ UNCHANGED tables

\* Back to the next pending workload, or to the next service.
ExecuteDone ==
    /\ pc = "execute" /\ todo = {}
    /\ IF snap[curService].status = "DELETING"
       THEN LeaveService(curService)
       ELSE /\ pc' = "schedule"
            /\ UNCHANGED <<snap, nodeSnap, listed, curNode, curService, curWorkload,
                           pend, todo, updates>>
    /\ UNCHANGED <<tables, containers, faults>>

\* ListWorkloadsByService fails in schedulePendingWorkloads or in
\* executeScheduledWorkloads: the loop over its result does not take place.
ListingFails ==
    /\ Fault
    /\ \/ /\ pc = "schedule" /\ pend # {}
          /\ pend' = {} /\ UNCHANGED todo
       \/ /\ pc = "execute" /\ todo # {}
          /\ todo' = {} /\ UNCHANGED pend
    /\ UNCHANGED <<tables, containers, pc, snap, nodeSnap, listed, curNode, curService,
                   curWorkload, updates>>

-----------------------------------------------------------------------------
\* The control plane crashes and restarts: the tables are all it keeps.
Crash ==
    /\ pc # "idle"
    /\ Fault
    /\ pc' = "idle"
    /\ snap' = [s \in Service |-> AbsentService]
    /\ nodeSnap' = [n \in Node |-> "ABSENT"]
    /\ listed' = NothingListed
    /\ curNode' = Null /\ curService' = Null /\ curWorkload' = Null
    /\ pend' = {} /\ todo' = {}
    /\ UNCHANGED <<tables, containers, updates>>

\* What the loop does when nothing goes wrong.
CycleStep ==
    \/ ListServices
    \/ ListNodes
    \/ \E n \in Node : RecoverNode(n) \/ ReconcileNode(n)
    \/ NodesDone
    \/ \E w \in Workload : StopTracked(w) \/ SyncTracked(w) \/ FailMissing(w)
    \/ NodeDone
    \/ \E s \in Service : \/ SkipService(s)
                          \/ ReconcileDeletion(s)
                          \/ ReconcileDeployment(s)
                          \/ DeploymentFails(s)
    \/ ServicesDone
    \/ ReconcileReplicas
    \/ ReplicasOutOfIds
    \/ \E w \in Workload : PickNode(w) \/ NoNode(w) \/ ExecuteOnly(w)
    \/ Reserve
    \/ ReserveFails
    \/ ReconcileStatus
    \/ \E w \in Workload : Launch(w) \/ LaunchConflict(w) \/ Stop(w)
    \/ ExecuteDone

FaultStep ==
    \/ \E n \in Node : markUnhealthy(n) \/ NodeCallFails(n)
    \/ \E n \in Node, w \in Workload : ContainerExits(n, w) \/ ContainerRemoved(n, w)
    \/ \E w \in Workload : \/ StopTrackedFails(w) \/ LookupFails(w)
                           \/ LaunchFails(w) \/ StopFails(w)
    \/ NodeAborted
    \/ ReplicasFail
    \/ ServiceFails
    \/ ListingFails
    \/ Crash

ClientStep ==
    \/ \E n \in Node, cap \in Capacities : registerNode(n, cap)
    \/ \E n \in Node : heartbeat(n)
    \/ \E s \in Service, replicas \in Replicas, req \in Requests, strategy \in Strategies :
          createService(s, replicas, req, strategy)
    \/ \E s \in Service, replicas \in Replicas, req \in Requests, newImage \in BOOLEAN :
          updateService(s, replicas, req, newImage)
    \/ \E s \in Service : deleteService(s)

Next == CycleStep \/ FaultStep \/ ClientStep

Spec == Init /\ [][Next]_vars

-----------------------------------------------------------------------------
(* Properties.                                                             *)

\* The columns of a workload row agree with each other: a workload is placed
\* exactly from its reservation on, has a container id only once it was
\* started on its node, and is never recorded as running without one.
RowConsistent(row) ==
    /\ row.actual = "ABSENT" <=> row.service = Null
    /\ row.actual = "ABSENT" <=> row.desired = "ABSENT"
    /\ row.container # Null => row.container = row.node
    /\ row.desired = "PENDING" => row.actual = "PENDING" /\ row.node = Null
    /\ row.desired = "SCHEDULED" => row.node # Null
    /\ row.actual \in {"ABSENT", "PENDING"} => row.container = Null
    /\ row.actual = "RUNNING" => row.container # Null
    /\ row.actual # "SCHEDULED"

RowsConsistent == \A w \in Workload : RowConsistent(workloads[w])

\* Once a service is DELETED, by DeletionController in a cycle that found all
\* its workloads finished, none of them is unfinished and none is ever added,
\* whatever the controllers still do from a stale snapshot of the service.
DeletedHasNoWork ==
    \A s \in Service : services[s].status = "DELETED" =>
        UnfinishedWorkloads(s) = {}

\* No workload is of a later version than its service, and the reconciler
\* never works from a version the service does not have yet: a rollout only
\* ever replaces older workloads.
VersionsBounded ==
    /\ \A s \in Service : snap[s].version <= services[s].version
    /\ \A w \in Workload : \A s \in Service :
          workloads[w].service = s => workloads[w].version <= services[s].version

\* A workload recorded as FAILED or STOPPED has no running container under
\* its container id: the executor and the runtime reconciler record the end
\* of a container only when it has ended.
FinishedNotRunning ==
    \A w \in Workload : \A n \in Node :
        workloads[w].actual \in Finished /\ workloads[w].container = n
            => containers[n][w] # "running"

\* A finished workload is never taken up again: no recovery, scheduling or
\* runtime reconciliation makes a FAILED or STOPPED workload active.
FinishedIsFinal ==
    [][\A w \in Workload : workloads[w].actual \in Finished
                              => workloads'[w].actual \in Finished]_vars

\* A deployment that FAILED, by its timeout or a failed workload, stays so until
\* a client brings a new version, however late its workloads come up: no status
\* computed earlier is written over it, and no workload is added meanwhile.
FailedUntilNewVersion ==
    [][\A s \in Service : services[s].deployment = "FAILED" =>
          /\ \/ services'[s].deployment = "FAILED"
             \/ services'[s].version > services[s].version
          /\ \A w \in Workload : workloads'[w].service = s => workloads[w].service = s]_vars

\* An allocation only grows on a node that is READY in that very step, and
\* only up to its capacity in that step, however long ago the scheduler chose
\* the node.
ReservationChecked ==
    [][\A n \in Node :
          \/ nodes'[n].alloc.cpu > nodes[n].alloc.cpu
          \/ nodes'[n].alloc.mem > nodes[n].alloc.mem
          => /\ nodes[n].status = "READY"
             /\ nodes'[n].alloc.cpu <= nodes[n].cap.cpu
             /\ nodes'[n].alloc.mem <= nodes[n].cap.mem]_vars

\* A rolling update never has more active workloads than the desired replicas
\* plus the surge the service allows.
SurgeBounded ==
    \A s \in Service :
        Cardinality({w \in ListWorkloadsByService(s) : isActive(w)})
            <= services[s].replicas + services[s].surge

\* The workloads of s that have a running container under their container id.
Serving(s) ==
    {w \in ListWorkloadsByService(s) :
        \E n \in Node : workloads[w].container = n /\ containers[n][w] = "running"}

\* The orchestrator itself never takes a container out of service when that
\* leaves fewer running than the desired replicas minus max_unavailable.
AvailabilityKept ==
    [][\A s \in Service :
          /\ services[s].status = "ACTIVE"
          /\ Cardinality(Serving(s)') < Cardinality(Serving(s))
          => Cardinality(Serving(s)') >= services[s].replicas - services[s].unavailable]_vars

\* What the allocation of a node may at most be: the requests of the workloads
\* placed on it, without those recorded as FAILED.
Requested(n, states, dim) ==
    SumFunctionOnSet([w \in Workload |-> workloads[w].req[dim]],
                     {w \in ListWorkloadsByNode(n) : workloads[w].actual \in states})

\* A node never has more allocated than its workloads asked for: whatever
\* fails in between, a FAILED workload holds no reservation and nothing is
\* reserved twice.
NoPhantomReservation ==
    \A n \in Node : \A dim \in {"cpu", "mem"} :
        nodes[n].alloc[dim] <= Requested(n, Unfinished \cup {"STOPPED"}, dim)

-----------------------------------------------------------------------------
(* The abstract specification that the rows of workloads implement.        *)

stageOf(row) ==
    CASE row.actual = "ABSENT" -> "none"
      [] row.actual \in Finished -> "finished"
      [] row.actual = "RUNNING" -> "running"
      [] OTHER -> IF row.node = Null THEN "waiting" ELSE "placed"

placeOf(row) == IF row.actual \in Unfinished THEN row.node ELSE Null

jobOf(row) == [service |-> row.service, version |-> row.version, req |-> row.req]

Life == INSTANCE WorkloadLife WITH
            life <- [w \in Workload |-> stageOf(workloads[w])],
            place <- [w \in Workload |-> placeOf(workloads[w])],
            job <- [w \in Workload |-> jobOf(workloads[w])]

\* The control plane implements WorkloadLife: through faults, retries, crashes
\* and stale snapshots, a workload is placed only while it waits, started only
\* where it is placed, taken off a node only with all others there, never
\* taken up again once finished, and never turned into another job.
ImplementsLife == Life!Spec

-----------------------------------------------------------------------------
(* Liveness.  The loop runs on a ticker and every call in it has a timeout, *)
(* so a step of the cycle that stays possible is taken.                    *)

FairSpec == Spec /\ WF_vars(CycleStep)

\* Deleting a service comes to an end, whatever fails on the way.
DeletionCompletes ==
    \A s \in Service : services[s].status = "DELETING" ~> services[s].status = "DELETED"

\* A workload recorded as running whose container is gone or has exited does
\* not stay recorded as running.
DriftDetected ==
    \A w \in Workload : \A n \in Node :
        (/\ workloads[w].actual = "RUNNING"
         /\ workloads[w].container = n
         /\ containers[n][w] # "running") ~> workloads[w].actual # "RUNNING"

\* An unhealthy node is left by all its unfinished workloads unless it comes
\* back first.
LostNodeDrained ==
    \A n \in Node : nodes[n].status = "UNHEALTHY" ~>
        \/ nodes[n].status = "READY"
        \/ \A w \in ListWorkloadsByNode(n) : workloads[w].actual \notin Unfinished

\* Every replica runs the current version and no older workload is active.
Converged(s) ==
    /\ oldActiveWorkloads(s, services[s].version) = {}
    /\ newActiveWorkloads(s, services[s].version)
          = {w \in runningActiveWorkloads(s) : w \in Serving(s)}
    /\ Cardinality(newActiveWorkloads(s, services[s].version)) = services[s].replicas
    /\ services[s].deployment = "AVAILABLE"

\* Once all nodes are ready for good, and clients have stopped updating it, an
\* active service ends up with all its replicas on its latest version, and
\* with the status AVAILABLE, for good.
RolloutConverges ==
    <>[](\A n \in Node : nodes[n].status = "READY")
        => <>[](\A s \in Service : services[s].status = "ACTIVE" => Converged(s))

-----------------------------------------------------------------------------
(* The inductive invariant behind the safety properties: what the           *)
(* reconciler's goroutine knows at each point of its cycle.                *)

\* At each phase, what the phase works on is there.
CursorOK ==
    /\ pc = "containers" => curNode \in Node
    /\ pc = "reserve" => curNode \in Node /\ curWorkload \in Workload
    /\ pc \in {"replica", "schedule", "reserve", "execute"} => curService \in Service

\* A container id is recorded once its container was started, never before.
RecordedWasStarted ==
    \A w \in Workload : \A n \in Node :
        workloads[w].container = n => containers[n][w] # "created"

\* A listing of curNode is out of date in one direction only: a container
\* that was not running then does not run now.
ListingOK ==
    pc = "containers" => \A w \in Workload : workloads[w].container = curNode =>
        /\ listed[w] # "created"
        /\ listed[w] # "running" => containers[curNode][w] # "running"

\* The workloads left of the listing are as they were when it was made.
PendOK ==
    pc = "containers" => \A w \in pend :
        /\ workloads[w].container = curNode
        /\ workloads[w].actual \in Finished => listed[w] # "running"

\* A workload left to execute still is to be executed.
TodoOK == pc = "execute" => \A w \in todo : NeedsExecution(workloads[w])

\* The workload to place is still unplaced when its node is reserved.
ReserveOK == pc = "reserve" => workloads[curWorkload].desired = "PENDING"

\* The snapshot of a service is behind its row by what clients did, and by
\* the end of its own deletion.
SnapshotOK ==
    \A s \in Service :
        /\ snap[s].status = "ACTIVE" => services[s].status \in {"ACTIVE", "DELETING"}
        /\ services[s].status = "ABSENT" => services[s].version = 0

\* What is left of the snapshot knows of every failed deployment: only the end
\* of its own visit makes one FAILED.
FailureSeen ==
    \A s \in Service :
        snap[s].status = "ACTIVE" /\ services[s].deployment = "FAILED"
            => snap[s].deployment = "FAILED"

\* The service at hand is one that reconcile does not skip.
VisitOK ==
    /\ pc \in {"replica", "schedule", "reserve"} => snap[curService].status = "ACTIVE"
    /\ pc = "execute" => snap[curService].status \in {"ACTIVE", "DELETING"}

Inv ==
    /\ TypeOK
    /\ CursorOK
    /\ RowsConsistent
    /\ RecordedWasStarted
    /\ FinishedNotRunning
    /\ ListingOK
    /\ PendOK
    /\ TodoOK
    /\ ReserveOK
    /\ SnapshotOK
    /\ FailureSeen
    /\ VisitOK
    /\ DeletedHasNoWork
    /\ VersionsBounded
=============================================================================
