-------------------------- MODULE ReconcilerProofs -------------------------
(***************************************************************************)
(* The types of Reconciler.  TypeOK alone is not inductive: a step of the  *)
(* cycle writes rows under the node, workload or service its cursor points *)
(* to, which has to be there (CursorOK).  There is a lemma for each        *)
(* transaction of Store and each controller, and one for each part of      *)
(* Next.                                                                   *)
(***************************************************************************)
EXTENDS Reconciler, TLAPS

\* The empty tables, the idle reconciler and the engines without containers
\* have their types.
LEMMA InitType == Init => TypeOK
  BY NullAssumption, MaxFaultsAssumption, MaxUpdatesAssumption
  DEF Init, StoreInit, LocalInit, TypeOK, StoreTypeOK, NothingListed, AbsentNode,
      AbsentService, AbsentWorkload, NodeRow, ServiceRow, WorkloadRow, Resources, NoResources,
      ContainerStatus, Phase, Unfinished, Finished

\* Adding a reservation and giving one back, with the GREATEST(..., 0) of the
\* release, yields resources: no column of nodes goes below zero.
LEMMA ResourceTypes ==
  ASSUME NEW a \in Resources, NEW b \in Resources
  PROVE  Plus(a, b) \in Resources /\ Minus(a, b) \in Resources
  BY DEF Resources, Plus, Minus

\* RegisterNode, UpdateHeartbeat and SetNodeStatus keep the tables well
\* typed.
LEMMA NodeTransactionTypes ==
  ASSUME StoreTypeOK, NEW n \in Node, NEW cap \in Resources,
         RegisterNode(n, cap) \/ UpdateHeartbeat(n) \/ SetNodeStatus(n, "UNHEALTHY")
  PROVE  StoreTypeOK'
  BY DEF StoreTypeOK, RegisterNode, UpdateHeartbeat, SetNodeStatus, NodeRow

\* The INSERT of CreateService keeps the tables well typed.
LEMMA CreateServiceTypes ==
  ASSUME StoreTypeOK, NEW s \in Service, NEW row \in ServiceRow, CreateService(s, row)
  PROVE  StoreTypeOK'
  BY DEF StoreTypeOK, CreateService

\* The UPDATE of UpdateService keeps the tables well typed, with or without a
\* new image.
LEMMA UpdateServiceTypes ==
  ASSUME StoreTypeOK, NEW s \in Service, NEW replicas \in Nat, NEW req \in Resources,
         NEW newImage \in BOOLEAN, UpdateService(s, replicas, req, newImage)
  PROVE  StoreTypeOK'
  <1> DEFINE row == services[s]
             version == IF newImage THEN row.version + 1 ELSE row.version
             deployment == IF newImage THEN "PROGRESSING" ELSE row.deployment
             started == row.started \/ newImage
             new == [row EXCEPT !.replicas = replicas, !.req = req, !.version = version,
                                !.deployment = deployment, !.started = started]
  <1>1. row \in ServiceRow
    BY DEF StoreTypeOK
  <1>2. version \in Nat /\ deployment \in {"AVAILABLE", "PROGRESSING", "FAILED"}
    BY <1>1 DEF ServiceRow
  <1>3. started \in BOOLEAN
    OBVIOUS
  <1>4. new \in ServiceRow
    <2> HIDE DEF row, version, deployment, started
    <2>1. QED BY <1>1, <1>2, <1>3 DEF ServiceRow
  <1>5. services' = [services EXCEPT ![s] = new]
    BY DEF UpdateService
  <1>6. nodes' = nodes /\ workloads' = workloads
    BY DEF UpdateService
  <1>7. QED
    <2> HIDE DEF new
    <2>1. QED BY <1>4, <1>5, <1>6 DEF StoreTypeOK

\* UpdateDeploymentStatus keeps the tables well typed.
LEMMA DeploymentStatusTypes ==
  ASSUME StoreTypeOK, NEW s \in Service,
         NEW status \in {"AVAILABLE", "PROGRESSING", "FAILED"},
         UpdateDeploymentStatus(s, status)
  PROVE  StoreTypeOK'
  BY DEF StoreTypeOK, UpdateDeploymentStatus, ServiceRow

\* MarkServiceDeleting and MarkServiceDeleted keep the tables well typed.
LEMMA DeletionTypes ==
  ASSUME StoreTypeOK, NEW s \in Service, MarkServiceDeleting(s) \/ MarkServiceDeleted(s)
  PROVE  StoreTypeOK'
  BY DEF StoreTypeOK, MarkServiceDeleting, MarkServiceDeleted, ServiceRow

\* CreatePendingWorkload, for any set of ids, keeps the tables well typed.
LEMMA CreatePendingTypes ==
  ASSUME StoreTypeOK, NEW s \in Service, NEW svc \in ServiceRow, NEW ids,
         CreatePendingWorkloads(ids, s, svc)
  PROVE  StoreTypeOK'
  BY DEF StoreTypeOK, CreatePendingWorkloads, PendingRow, WorkloadRow, ServiceRow, Unfinished

\* UpdateWorkloadDesiredState(STOPPED), for any set of ids, keeps the tables
\* well typed.
LEMMA StopWorkloadsTypes ==
  ASSUME StoreTypeOK, NEW ids, StopWorkloads(ids)
  PROVE  StoreTypeOK'
  BY DEF StoreTypeOK, StopWorkloads, WorkloadRow

\* ReserveNodeForWorkload keeps the tables well typed.
LEMMA ReserveTypes ==
  ASSUME StoreTypeOK, NEW w \in Workload, NEW n \in Node, ReserveNodeForWorkload(w, n)
  PROVE  StoreTypeOK'
  <1>1. Plus(nodes[n].alloc, workloads[w].req) \in Resources
    BY ResourceTypes DEF StoreTypeOK, WorkloadRow, NodeRow
  <1>2. nodes' \in [Node -> NodeRow]
    BY <1>1 DEF StoreTypeOK, ReserveNodeForWorkload, NodeRow
  <1>3. workloads' \in [Workload -> WorkloadRow]
    <2> DEFINE new == [workloads[w] EXCEPT !.node = n, !.desired = "SCHEDULED"]
    <2>1. new \in WorkloadRow
      BY DEF StoreTypeOK, WorkloadRow
    <2>2. workloads' = [workloads EXCEPT ![w] = new]
      BY DEF ReserveNodeForWorkload, StoreTypeOK
    <2> HIDE DEF new
    <2>3. QED BY <2>1, <2>2 DEF StoreTypeOK
  <1>4. QED BY <1>2, <1>3 DEF StoreTypeOK, ReserveNodeForWorkload

\* MarkWorkloadRunning and UpdateWorkloadActualState keep the tables well
\* typed.
LEMMA RunningTypes ==
  ASSUME StoreTypeOK, NEW w \in Workload, NEW n \in Node \cup {Null},
         \/ MarkWorkloadRunning(w, n)
         \/ UpdateWorkloadActualState(w, "STOPPED")
         \/ UpdateWorkloadActualState(w, "RUNNING")
         \/ UpdateWorkloadActualState(w, "SCHEDULED")
  PROVE  StoreTypeOK'
  BY DEF StoreTypeOK, MarkWorkloadRunning, UpdateWorkloadActualState, WorkloadRow, Unfinished, Finished

\* The nodes table is well typed after the reservation of a workload is
\* released, whether or not it has a node.
LEMMA ReleasedType ==
  ASSUME StoreTypeOK, NEW w \in Workload
  PROVE  Released(w) \in [Node -> NodeRow]
  <1>1. CASE workloads[w].node = Null
    BY <1>1 DEF StoreTypeOK, Released
  <1>2. CASE workloads[w].node # Null
    <2>1. workloads[w].node \in Node /\ workloads[w].req \in Resources
      BY <1>2 DEF StoreTypeOK, WorkloadRow
    <2>2. Minus(nodes[workloads[w].node].alloc, workloads[w].req) \in Resources
      BY <2>1, ResourceTypes DEF StoreTypeOK, NodeRow
    <2>3. QED BY <1>2, <2>1, <2>2 DEF StoreTypeOK, Released, NodeRow
  <1>3. QED BY <1>1, <1>2

\* MarkWorkloadFailedAndReleaseResources and
\* MarkWorkloadStoppedAndReleaseResources keep the tables well typed.
LEMMA FinishTypes ==
  ASSUME StoreTypeOK, NEW w \in Workload, NEW final \in Finished, FinishAndRelease(w, final)
  PROVE  StoreTypeOK'
  <1>1. nodes' \in [Node -> NodeRow]
    BY ReleasedType DEF StoreTypeOK, FinishAndRelease
  <1>2. workloads' \in [Workload -> WorkloadRow]
    BY DEF StoreTypeOK, FinishAndRelease, WorkloadRow, Finished
  <1>3. QED BY <1>1, <1>2 DEF StoreTypeOK, FinishAndRelease

\* RecoverWorkloadsFromNode keeps the tables well typed.
LEMMA RecoverTypes ==
  ASSUME StoreTypeOK, NEW n \in Node, RecoverWorkloadsFromNode(n)
  PROVE  StoreTypeOK'
  <1> DEFINE reset(w) == [workloads[w] EXCEPT !.node = Null, !.container = Null,
                                              !.desired = "PENDING", !.actual = "PENDING"]
  <1>1. \A w \in Workload : reset(w) \in WorkloadRow
    BY DEF StoreTypeOK, WorkloadRow, Unfinished
  <1>2. workloads' \in [Workload -> WorkloadRow]
    <2> HIDE DEF reset
    <2>1. workloads' = [w \in Workload |->
             IF workloads[w].node = n /\ workloads[w].actual \in Unfinished
             THEN reset(w) ELSE workloads[w]]
      BY DEF RecoverWorkloadsFromNode, reset
    <2>2. QED BY <1>1, <2>1 DEF StoreTypeOK
  <1>3. nodes' \in [Node -> NodeRow]
    BY DEF StoreTypeOK, RecoverWorkloadsFromNode, NodeRow, Resources, NoResources
  <1>4. QED BY <1>2, <1>3 DEF StoreTypeOK, RecoverWorkloadsFromNode

\* A step that writes no table keeps the tables well typed.
LEMMA UnchangedTypes == StoreTypeOK /\ UNCHANGED tables => StoreTypeOK'
  BY DEF tables, StoreTypeOK

\* Each of the four controllers, and each part of one that a failed write
\* leaves done, keeps the tables well typed.
LEMMA ControllerTypes ==
  ASSUME StoreTypeOK, NEW s \in Service, NEW svc \in ServiceRow, NEW timedOut \in BOOLEAN,
         \/ DeploymentController(s, svc)
         \/ ReplicaController(s, svc)
         \/ ReplicaControllerPart(s, svc)
         \/ DeletionController(s)
         \/ DeletionControllerPart(s)
         \/ DeploymentStatusController(s, svc, timedOut)
  PROVE  StoreTypeOK'
  <1>1. CASE DeploymentController(s, svc)
    BY <1>1, UnchangedTypes, CreatePendingTypes, StopWorkloadsTypes DEF DeploymentController
  <1>2. CASE ReplicaController(s, svc)
    BY <1>2, UnchangedTypes, CreatePendingTypes, StopWorkloadsTypes DEF ReplicaController
  <1>3. CASE ReplicaControllerPart(s, svc)
    BY <1>3, CreatePendingTypes, StopWorkloadsTypes DEF ReplicaControllerPart
  <1>4. CASE DeletionController(s)
    BY <1>4, DeletionTypes, StopWorkloadsTypes DEF DeletionController
  <1>5. CASE DeletionControllerPart(s)
    BY <1>5, StopWorkloadsTypes DEF DeletionControllerPart
  <1>6. CASE DeploymentStatusController(s, svc, timedOut)
    <2>1. RolloutStatus(s, svc, timedOut) \in {"AVAILABLE", "PROGRESSING", "FAILED"}
      BY DEF RolloutStatus
    <2>2. QED
      BY <1>6, <2>1, UnchangedTypes, DeploymentStatusTypes DEF DeploymentStatusController
  <1>7. QED
    BY <1>1, <1>2, <1>3, <1>4, <1>5, <1>6

\* What type correctness needs to be inductive: each phase of the cycle has
\* the node, workload or service it works on.
Shape == TypeOK /\ CursorOK

\* The count of faults stays within its bound.
LEMMA FaultType == ASSUME faults \in 0..MaxFaults, Fault PROVE faults' \in 0..MaxFaults
  BY MaxFaultsAssumption DEF Fault

\* The API handlers keep the types and the cursor of the cycle.
LEMMA ClientShape == ASSUME Shape, ClientStep PROVE Shape'
  <1> USE DEF Shape, TypeOK, CursorOK, Outside, NoFault, local
  <1>1. ASSUME NEW n \in Node, NEW cap \in Capacities, registerNode(n, cap) PROVE Shape'
    <2>1. StoreTypeOK'
      BY <1>1, NodeTransactionTypes, CapacitiesAssumption DEF registerNode
    <2>2. QED BY <1>1, <2>1 DEF registerNode
  <1>2. ASSUME NEW n \in Node, heartbeat(n) PROVE Shape'
    <2>1. NoResources \in Resources
      BY DEF NoResources, Resources
    <2>2. StoreTypeOK'
      BY <1>2, <2>1, NodeTransactionTypes DEF heartbeat
    <2>3. QED BY <1>2, <2>2 DEF heartbeat
  <1>3. ASSUME NEW s \in Service, NEW replicas \in Replicas, NEW req \in Requests,
               NEW strategy \in Strategies, createService(s, replicas, req, strategy)
        PROVE Shape'
    <2> DEFINE row == [status |-> "ACTIVE", version |-> 1,
                       deployment |-> "AVAILABLE", started |-> FALSE,
                       replicas |-> replicas, surge |-> strategy.surge,
                       unavailable |-> strategy.unavailable, req |-> req]
    <2>1. row \in ServiceRow
      BY RequestsAssumption, ReplicasAssumption, StrategiesAssumption DEF ServiceRow
    <2>2. StoreTypeOK'
      BY <1>3, <2>1, CreateServiceTypes DEF createService
    <2>3. QED BY <1>3, <2>2 DEF createService
  <1>4. ASSUME NEW s \in Service, NEW replicas \in Replicas, NEW req \in Requests,
               NEW newImage \in BOOLEAN, updateService(s, replicas, req, newImage)
        PROVE Shape'
    <2>1. StoreTypeOK'
      BY <1>4, UpdateServiceTypes, RequestsAssumption, ReplicasAssumption DEF updateService
    <2>2. updates' \in 0..MaxUpdates
      BY <1>4, MaxUpdatesAssumption DEF updateService
    <2>3. QED BY <1>4, <2>1, <2>2 DEF updateService
  <1>5. ASSUME NEW s \in Service, deleteService(s) PROVE Shape'
    <2>1. StoreTypeOK'
      BY <1>5, DeletionTypes DEF deleteService
    <2>2. QED BY <1>5, <2>1 DEF deleteService
  <1>6. QED BY <1>1, <1>2, <1>3, <1>4, <1>5 DEF ClientStep

\* Everything that can go wrong keeps the types and the cursor of the cycle.
LEMMA FaultShape == ASSUME Shape, FaultStep PROVE Shape'
  <1> USE DEF Shape, TypeOK, CursorOK, Outside, local
  <1>0. Fault => faults' \in 0..MaxFaults
    BY FaultType
  <1>1. ASSUME NEW n \in Node, markUnhealthy(n) PROVE Shape'
    <2>1. NoResources \in Resources
      BY DEF NoResources, Resources
    <2>2. StoreTypeOK'
      BY <1>1, <2>1, NodeTransactionTypes DEF markUnhealthy
    <2>3. QED BY <1>0, <1>1, <2>2 DEF markUnhealthy
  <1>2. ASSUME NEW n \in Node, NodeCallFails(n) PROVE Shape'
    BY <1>0, <1>2, UnchangedTypes DEF NodeCallFails, NodeVisited
  <1>3. ASSUME NEW n \in Node, NEW w \in Workload, ContainerExits(n, w) PROVE Shape'
    BY <1>0, <1>3, UnchangedTypes DEF ContainerExits, SetContainer, ContainerStatus
  <1>4. ASSUME NEW n \in Node, NEW w \in Workload, ContainerRemoved(n, w) PROVE Shape'
    BY <1>0, <1>4, UnchangedTypes DEF ContainerRemoved, SetContainer, ContainerStatus
  <1>5. ASSUME NEW w \in Workload, StopTrackedFails(w) \/ LookupFails(w) PROVE Shape'
    BY <1>0, <1>5, UnchangedTypes
    DEF StopTrackedFails, LookupFails, SetContainer, StoppedContainer, ContainerStatus
  <1>6. ASSUME NEW w \in Workload, LaunchFails(w) PROVE Shape'
    <2>1. StoreTypeOK'
      BY <1>6, UnchangedTypes, FinishTypes
      DEF LaunchFails, MarkWorkloadFailedAndReleaseResources, Finished
    <2>2. containers' \in [Node -> [Workload -> ContainerStatus]]
      BY <1>6 DEF LaunchFails, SetContainer, ContainerStatus
    <2>3. QED BY <1>0, <1>6, <2>1, <2>2 DEF LaunchFails, Executed, ToLaunch
  <1>7. ASSUME NEW w \in Workload, StopFails(w) PROVE Shape'
    <2>1. containers' \in [Node -> [Workload -> ContainerStatus]]
      BY <1>7 DEF StopFails, SetContainer, StoppedContainer, ContainerStatus
    <2>2. QED BY <1>0, <1>7, <2>1, UnchangedTypes DEF StopFails, Executed, ToStop
  <1>8. ASSUME NodeAborted PROVE Shape'
    <2>1. containers' \in [Node -> [Workload -> ContainerStatus]]
      BY <1>8 DEF NodeAborted, SetContainer, StoppedContainer, ContainerStatus
    <2>2. QED BY <1>0, <1>8, <2>1, UnchangedTypes
          DEF NodeAborted, LeaveNode, NothingListed, ContainerStatus, Phase
  <1>9. ASSUME NEW s \in Service, LeaveService(s) PROVE
               /\ pc' = "services" /\ snap' \in [Service -> ServiceRow]
               /\ nodeSnap' = nodeSnap /\ listed' = listed /\ curNode' = curNode
               /\ curService' = Null /\ curWorkload' = curWorkload
               /\ pend' = {} /\ todo' = todo /\ updates' = updates
    BY <1>9 DEF LeaveService, AbsentService, ServiceRow, NoResources, Resources
  <1>10. ASSUME ReplicasFail PROVE Shape'
    <2>1. curService \in Service /\ snap[curService] \in ServiceRow
      BY <1>10 DEF ReplicasFail
    <2>2. StoreTypeOK'
      BY <1>10, <2>1, ControllerTypes DEF ReplicasFail
    <2>3. QED BY <1>0, <1>9, <1>10, <2>1, <2>2 DEF ReplicasFail, Phase
  <1>11. ASSUME ServiceFails PROVE Shape'
    BY <1>0, <1>9, <1>11, UnchangedTypes DEF ServiceFails, Phase
  <1>12. ASSUME Crash PROVE Shape'
    BY <1>0, <1>12, UnchangedTypes
    DEF Crash, Phase, NothingListed, ContainerStatus, AbsentService, ServiceRow,
        NoResources, Resources
  <1>13. ASSUME ListingFails PROVE Shape'
    BY <1>0, <1>13, UnchangedTypes DEF ListingFails
  <1>14. QED
    BY <1>1, <1>2, <1>3, <1>4, <1>5, <1>6, <1>7, <1>8, <1>10, <1>11, <1>12, <1>13
    DEF FaultStep

\* Going on to the next service keeps the types and the cursor.
LEMMA LeaveServiceShape ==
  ASSUME Shape, NEW s \in Service, LeaveService(s), StoreTypeOK',
         containers' \in [Node -> [Workload -> ContainerStatus]], faults' \in 0..MaxFaults
  PROVE  Shape'
  BY DEF Shape, TypeOK, CursorOK, LeaveService, AbsentService, ServiceRow, NoResources,
         Resources, Phase

\* An engine call keeps the containers well typed.
LEMMA ContainerType ==
  ASSUME containers \in [Node -> [Workload -> ContainerStatus]],
         NEW n, NEW w \in Workload, NEW status \in ContainerStatus,
         SetContainer(n, w, status)
  PROVE  containers' \in [Node -> [Workload -> ContainerStatus]]
  <1>1. CASE n \in Node
    <2>1. [containers[n] EXCEPT ![w] = status] \in [Workload -> ContainerStatus]
      BY <1>1
    <2>2. QED BY <1>1, <2>1 DEF SetContainer
  <1>2. CASE n \notin Node
    BY <1>2 DEF SetContainer
  <1>3. QED BY <1>1, <1>2

\* The steps of reconcile over the nodes and their containers keep the types
\* and the cursor.
LEMMA NodePhaseShape ==
  ASSUME Shape,
         \/ ListServices
         \/ ListNodes
         \/ \E n \in Node : RecoverNode(n) \/ ReconcileNode(n)
         \/ NodesDone
         \/ \E w \in Workload : StopTracked(w) \/ SyncTracked(w) \/ FailMissing(w)
         \/ NodeDone
  PROVE  Shape'
  <1> USE DEF Shape, TypeOK, CursorOK
  <1>1. CASE ListServices
    <2>1. snap' \in [Service -> ServiceRow]
      BY <1>1 DEF ListServices, StoreTypeOK
    <2>2. QED BY <1>1, <2>1, UnchangedTypes DEF ListServices, Phase
  <1>2. CASE ListNodes
    <2>1. nodeSnap' \in [Node -> {"ABSENT", "READY", "UNHEALTHY"}]
      BY <1>2 DEF ListNodes, StoreTypeOK, NodeRow
    <2>2. QED BY <1>2, <2>1, UnchangedTypes DEF ListNodes, Phase
  <1>3. ASSUME NEW n \in Node, RecoverNode(n) PROVE Shape'
    <2>1. StoreTypeOK'
      BY <1>3, RecoverTypes DEF RecoverNode
    <2>2. QED BY <1>3, <2>1 DEF RecoverNode, NodeVisited
  <1>4. ASSUME NEW n \in Node, ReconcileNode(n) PROVE Shape'
    <2>1. pend' \in SUBSET Workload
      BY <1>4 DEF ReconcileNode, OutOfSync
    <2>2. listed' \in [Workload -> ContainerStatus]
      BY <1>4 DEF ReconcileNode
    <2>3. QED BY <1>4, <2>1, <2>2, UnchangedTypes DEF ReconcileNode, NodeVisited, Phase
  <1>5. CASE NodesDone
    BY <1>5, UnchangedTypes DEF NodesDone, Phase
  <1>6. ASSUME NEW w \in Workload, StopTracked(w) PROVE Shape'
    <2>1. curNode \in Node
      BY <1>6 DEF StopTracked
    <2>2. StoreTypeOK'
      BY <1>6, <2>1, RunningTypes DEF StopTracked
    <2>3. containers' \in [Node -> [Workload -> ContainerStatus]]
      BY <1>6, <2>1 DEF StopTracked, SetContainer, StoppedContainer, ContainerStatus
    <2>4. QED BY <1>6, <2>2, <2>3 DEF StopTracked
  <1>7. ASSUME NEW w \in Workload, SyncTracked(w) PROVE Shape'
    <2>1. curNode \in Node
      BY <1>7 DEF SyncTracked
    <2>2. containerState(listed[w]) \in {"RUNNING", "SCHEDULED", "FAILED"}
      BY DEF containerState
    <2>3. StoreTypeOK'
      BY <1>7, <2>1, <2>2, RunningTypes, FinishTypes
      DEF SyncTracked, MarkWorkloadFailedAndReleaseResources, Finished
    <2>4. QED BY <1>7, <2>3 DEF SyncTracked
  <1>8. ASSUME NEW w \in Workload, FailMissing(w) PROVE Shape'
    <2>1. StoreTypeOK'
      BY <1>8, FinishTypes DEF FailMissing, MarkWorkloadFailedAndReleaseResources, Finished
    <2>2. QED BY <1>8, <2>1 DEF FailMissing, local
  <1>9. CASE NodeDone
    BY <1>9, UnchangedTypes DEF NodeDone, LeaveNode, NothingListed, ContainerStatus, Phase
  <1>10. QED
    BY <1>1, <1>2, <1>3, <1>4, <1>5, <1>6, <1>7, <1>8, <1>9

\* The steps of reconcile over the services, the scheduling and the execution
\* of their workloads keep the types and the cursor.
LEMMA ServicePhaseShape ==
  ASSUME Shape,
         \/ \E s \in Service : \/ SkipService(s)
                               \/ ReconcileDeletion(s)
                               \/ ReconcileDeployment(s)
                               \/ DeploymentFails(s)
         \/ ServicesDone
         \/ ReconcileReplicas
         \/ ReplicasOutOfIds
         \/ \E w \in Workload : PickNode(w) \/ NoNode(w) \/ ExecuteOnly(w)
         \/ Reserve
         \/ ReserveFails
         \/ ReconcileStatus
         \/ \E w \in Workload : Launch(w) \/ LaunchConflict(w) \/ Stop(w)
         \/ ExecuteDone
  PROVE  Shape'
  <1> USE DEF Shape, TypeOK, CursorOK
  <1>0. Fault => faults' \in 0..MaxFaults
    BY FaultType
  <1>1. ASSUME NEW s \in Service, SkipService(s) \/ DeploymentFails(s) PROVE Shape'
    BY <1>0, <1>1, UnchangedTypes, LeaveServiceShape DEF SkipService, DeploymentFails
  <1>2. ASSUME NEW s \in Service, ReconcileDeletion(s) PROVE Shape'
    <2>1. StoreTypeOK'
      BY <1>2, ControllerTypes DEF ReconcileDeletion
    <2>2. todo' \in SUBSET Workload
      BY <1>2 DEF ReconcileDeletion, ToExecute
    <2>3. QED BY <1>0, <1>2, <2>1, <2>2 DEF ReconcileDeletion, Phase
  <1>3. ASSUME NEW s \in Service, ReconcileDeployment(s) PROVE Shape'
    <2>1. StoreTypeOK'
      BY <1>3, ControllerTypes DEF ReconcileDeployment
    <2>2. QED BY <1>3, <2>1 DEF ReconcileDeployment, Phase
  <1>4. CASE ServicesDone
    BY <1>4, UnchangedTypes DEF ServicesDone, Phase
  <1>5. CASE ReconcileReplicas
    <2>1. StoreTypeOK'
      BY <1>5, ControllerTypes DEF ReconcileReplicas
    <2>2. pend' \in SUBSET Workload
      BY <1>5 DEF ReconcileReplicas, ToSchedule
    <2>3. QED BY <1>5, <2>1, <2>2 DEF ReconcileReplicas, Phase
  <1>6. CASE ReplicasOutOfIds
    <2>1. curService \in Service /\ snap[curService] \in ServiceRow
      BY <1>6 DEF ReplicasOutOfIds
    <2>2. StoreTypeOK'
      BY <1>6, <2>1, CreatePendingTypes DEF ReplicasOutOfIds
    <2>3. QED BY <1>6, <2>1, <2>2, LeaveServiceShape DEF ReplicasOutOfIds
  <1>7. ASSUME NEW w \in Workload, PickNode(w) PROVE Shape'
    <2>1. curNode' \in Node
      BY <1>7 DEF PickNode, BestNodes
    <2>2. QED BY <1>7, <2>1, UnchangedTypes DEF PickNode, Phase
  <1>8. ASSUME NEW w \in Workload, NoNode(w) PROVE Shape'
    BY <1>8, UnchangedTypes DEF NoNode
  <1>9. ASSUME NEW w \in Workload, ExecuteOnly(w) PROVE Shape'
    <2>1. todo' \in SUBSET Workload
      BY <1>9 DEF ExecuteOnly, ToExecute
    <2>2. QED BY <1>9, <2>1, UnchangedTypes DEF ExecuteOnly, Phase
  <1>10. CASE Reserve
    <2>1. StoreTypeOK'
      BY <1>10, ReserveTypes DEF Reserve
    <2>2. todo' \in SUBSET Workload
      BY <1>10 DEF Reserve, ToExecute
    <2>3. QED BY <1>10, <2>1, <2>2 DEF Reserve, Phase
  <1>11. CASE ReserveFails
    BY <1>0, <1>11, UnchangedTypes DEF ReserveFails, Phase
  <1>12. CASE ReconcileStatus
    <2>1. curService \in Service /\ snap[curService] \in ServiceRow
      BY <1>12 DEF ReconcileStatus
    <2>2. StoreTypeOK'
      BY <1>12, <2>1, ControllerTypes DEF ReconcileStatus
    <2>3. QED BY <1>0, <1>12, <2>1, <2>2, LeaveServiceShape DEF ReconcileStatus
  <1>13. ASSUME NEW w \in Workload, Launch(w) PROVE Shape'
    <2>1. workloads[w].node \in Node \cup {Null}
      BY DEF StoreTypeOK, WorkloadRow
    <2>2. StoreTypeOK'
      BY <1>13, <2>1, RunningTypes DEF Launch
    <2>3. containers' \in [Node -> [Workload -> ContainerStatus]]
      BY <1>13 DEF Launch, SetContainer, ContainerStatus
    <2>4. QED BY <1>13, <2>2, <2>3 DEF Launch, Executed
  <1>14. ASSUME NEW w \in Workload, LaunchConflict(w) PROVE Shape'
    BY <1>14, UnchangedTypes DEF LaunchConflict, Executed
  <1>15. ASSUME NEW w \in Workload, Stop(w) PROVE Shape'
    <2>1. StoreTypeOK'
      BY <1>15, FinishTypes DEF Stop, MarkWorkloadStoppedAndReleaseResources, Finished
    <2>2. containers' \in [Node -> [Workload -> ContainerStatus]]
      <3>1. containers' = containers \/ SetContainer(workloads[w].container, w, "none")
        BY <1>15 DEF Stop
      <3>2. QED BY <3>1, ContainerType DEF ContainerStatus
    <2>3. QED BY <1>15, <2>1, <2>2 DEF Stop, Executed
  <1>16. CASE ExecuteDone
    <2>1. curService \in Service /\ StoreTypeOK'
      BY <1>16, UnchangedTypes DEF ExecuteDone
    <2>2. CASE snap[curService].status = "DELETING"
      BY <1>16, <2>1, <2>2, LeaveServiceShape DEF ExecuteDone
    <2>3. CASE snap[curService].status # "DELETING"
      BY <1>16, <2>1, <2>3 DEF ExecuteDone, Phase
    <2>4. QED BY <2>2, <2>3
  <1>17. QED
    BY <1>1, <1>2, <1>3, <1>4, <1>5, <1>6, <1>7, <1>8, <1>9, <1>10, <1>11, <1>12,
       <1>13, <1>14, <1>15, <1>16

\* Every step keeps the types and the cursor of the cycle.
LEMMA ShapeStep == ASSUME Shape, [Next]_vars PROVE Shape'
  <1>1. CASE CycleStep
    BY <1>1, NodePhaseShape, ServicePhaseShape DEF CycleStep
  <1>2. CASE FaultStep
    BY <1>2, FaultShape
  <1>3. CASE ClientStep
    BY <1>3, ClientShape
  <1>4. CASE UNCHANGED vars
    BY <1>4, UnchangedTypes DEF vars, tables, local, Shape, TypeOK, CursorOK
  <1>5. QED BY <1>1, <1>2, <1>3, <1>4 DEF Next

\* Type correctness of the control plane: every column of every row, and
\* every variable of the reconciler's goroutine, has its type in every
\* reachable state. It says in particular that the allocation of a node,
\* which several transactions release, never goes below zero.
THEOREM TypeCorrect == Spec => []TypeOK
  <1>1. Init => Shape
    BY InitType DEF Shape, Init, LocalInit, CursorOK
  <1>2. Shape /\ [Next]_vars => Shape'
    BY ShapeStep
  <1>3. Shape => TypeOK
    BY DEF Shape
  <1>4. QED BY <1>1, <1>2, <1>3, PTL DEF Spec
=============================================================================
