-------------------------- MODULE InvariantProofs --------------------------
(***************************************************************************)
(* The inductive invariant Inv of Reconciler and what follows from it.     *)
(* Three layers, each proved from the ones before: Rows and Loop (rows,    *)
(* engines and the listings of the goroutine), VisitOK (the service at     *)
(* hand), and the relation of rows, snapshot and services, which is        *)
(* derived from how the tables may age in one step (Ages, Inserts,         *)
(* ServicesAge, SnapshotAges).                                             *)
(***************************************************************************)
EXTENDS ReconcilerProofs

\* What the invariant says of the workloads table and the engines.
Rows == RowsConsistent /\ RecordedWasStarted /\ FinishedNotRunning

\* A step does no more to containers than to end or remove them.
Fading ==
    \A n \in Node : \A w \in Workload :
        containers'[n][w] \in {containers[n][w], "exited", "none"}

\* StopContainer and DeleteContainer, done or not done, do no more to a
\* container than to end or remove it.
LEMMA FadingSet ==
  ASSUME containers \in [Node -> [Workload -> ContainerStatus]],
         NEW n, NEW w \in Workload,
         NEW status \in {containers[n][w], StoppedContainer(containers[n][w]), "none"},
         SetContainer(n, w, status)
  PROVE  Fading
  <1>1. CASE n \in Node
    <2>1. status \in {containers[n][w], "exited", "none"}
      BY DEF StoppedContainer
    <2>2. containers' = [containers EXCEPT ![n] = [containers[n] EXCEPT ![w] = status]]
      BY DEF SetContainer
    <2>3. QED BY <1>1, <2>1, <2>2 DEF Fading
  <1>2. CASE n \notin Node
    <2>1. containers' = containers
      BY <1>2 DEF SetContainer
    <2>2. QED BY <2>1 DEF Fading
  <1>3. QED BY <1>1, <1>2

\* Ending or removing containers, with no row written, keeps Rows.
LEMMA RowsKept ==
  ASSUME Rows, workloads' = workloads, Fading \/ containers' = containers
  PROVE  Rows'
  <1> USE DEF Rows
  <1>1. RowsConsistent'
    BY DEF RowsConsistent, RowConsistent
  <1>2. RecordedWasStarted'
    BY DEF RecordedWasStarted, Fading
  <1>3. FinishedNotRunning'
    BY DEF FinishedNotRunning, Fading
  <1>4. QED BY <1>1, <1>2, <1>3

\* The insertion of pending workloads keeps Rows.
LEMMA RowsCreated ==
  ASSUME StoreTypeOK, Rows, NEW s \in Service, NEW svc \in ServiceRow, NEW ids,
         CreatePendingWorkloads(ids, s, svc), containers' = containers
  PROVE  Rows'
  <1> USE NullAssumption DEF Rows, CreatePendingWorkloads, PendingRow, StoreTypeOK
  <1>1. RowsConsistent'
    BY DEF RowsConsistent, RowConsistent
  <1>2. RecordedWasStarted'
    BY DEF RecordedWasStarted
  <1>3. FinishedNotRunning'
    BY DEF FinishedNotRunning, Finished
  <1>4. QED BY <1>1, <1>2, <1>3

\* Asking existing workloads to stop keeps Rows.
LEMMA RowsStopped ==
  ASSUME StoreTypeOK, Rows, NEW ids, \A w \in ids : workloads[w].actual # "ABSENT",
         StopWorkloads(ids), containers' = containers
  PROVE  Rows'
  <1> USE DEF Rows, StopWorkloads, StoreTypeOK, WorkloadRow
  <1>1. RowsConsistent'
    BY DEF RowsConsistent, RowConsistent
  <1>2. RecordedWasStarted'
    BY DEF RecordedWasStarted
  <1>3. FinishedNotRunning'
    BY DEF FinishedNotRunning
  <1>4. QED BY <1>1, <1>2, <1>3

\* The reservation of a node for a workload that is still unplaced keeps
\* Rows.
LEMMA RowsReserved ==
  ASSUME StoreTypeOK, Rows, NEW w \in Workload, NEW n \in Node,
         workloads[w].desired = "PENDING",
         ReserveNodeForWorkload(w, n), containers' = containers
  PROVE  Rows'
  <1> DEFINE new == [workloads[w] EXCEPT !.node = n, !.desired = "SCHEDULED"]
  <1>1. /\ workloads' = [workloads EXCEPT ![w] = new]
        /\ \A v \in Workload : workloads'[v] = IF v = w THEN new ELSE workloads[v]
    BY DEF ReserveNodeForWorkload, StoreTypeOK
  <1>2. RowConsistent(workloads[w])
    BY DEF Rows, RowsConsistent
  <1>3. RowConsistent(new) /\ new.container = Null /\ new.actual = "PENDING"
    BY <1>2, NullAssumption DEF RowConsistent, StoreTypeOK, WorkloadRow
  <1> HIDE DEF new
  <1>4. RowsConsistent'
    BY <1>1, <1>3 DEF Rows, RowsConsistent, RowConsistent
  <1>5. RecordedWasStarted'
    BY <1>1, <1>3, NullAssumption DEF Rows, RecordedWasStarted
  <1>6. FinishedNotRunning'
    BY <1>1, <1>3 DEF Rows, FinishedNotRunning, Finished
  <1>7. QED BY <1>4, <1>5, <1>6 DEF Rows

\* Recording the end of a workload keeps Rows if its container does not run
\* after the step.
LEMMA RowsFinished ==
  ASSUME StoreTypeOK, Rows, NEW w \in Workload, NEW final \in Finished,
         workloads[w].actual # "ABSENT", workloads[w].desired # "PENDING",
         \/ workloads' = workloads
         \/ workloads' = [workloads EXCEPT ![w].actual = final],
         Fading \/ containers' = containers,
         \A n \in Node : workloads[w].container = n => containers'[n][w] # "running"
  PROVE  Rows'
  <1>1. CASE workloads' = workloads
    BY <1>1, RowsKept
  <1>2. CASE workloads' = [workloads EXCEPT ![w].actual = final]
    <2> USE <1>2 DEF Rows, StoreTypeOK, WorkloadRow
    <2>1. RowsConsistent'
      BY DEF RowsConsistent, RowConsistent, Finished
    <2>2. RecordedWasStarted'
      BY DEF RecordedWasStarted, Fading
    <2>3. FinishedNotRunning'
      BY DEF FinishedNotRunning, Fading
    <2>4. QED BY <2>1, <2>2, <2>3
  <1>3. QED BY <1>1, <1>2

\* Taking the unfinished workloads off a lost node keeps Rows.
LEMMA RowsRecovered ==
  ASSUME StoreTypeOK, Rows, NEW n \in Node, RecoverWorkloadsFromNode(n),
         containers' = containers
  PROVE  Rows'
  <1> DEFINE reset(w) == [workloads[w] EXCEPT !.node = Null, !.container = Null,
                                              !.desired = "PENDING", !.actual = "PENDING"]
  <1>1. \A w \in Workload :
          \/ workloads'[w] = workloads[w]
          \/ workloads'[w] = reset(w) /\ workloads[w].actual \in Unfinished
    BY DEF RecoverWorkloadsFromNode
  <1>2. \A w \in Workload :
          /\ reset(w).container = Null
          /\ reset(w).actual = "PENDING"
          /\ RowConsistent(workloads[w]) /\ workloads[w].actual \in Unfinished
                => RowConsistent(reset(w))
    BY DEF StoreTypeOK, WorkloadRow, RowConsistent, Unfinished
  <1> HIDE DEF reset
  <1>3. RowsConsistent'
    BY <1>1, <1>2 DEF Rows, RowsConsistent, RowConsistent
  <1>4. RecordedWasStarted'
    BY <1>1, <1>2, NullAssumption DEF Rows, RecordedWasStarted
  <1>5. FinishedNotRunning'
    BY <1>1, <1>2 DEF Rows, FinishedNotRunning, Finished
  <1>6. QED BY <1>3, <1>4, <1>5 DEF Rows

\* Starting the container of a placed workload and recording it keeps Rows.
LEMMA RowsLaunched ==
  ASSUME StoreTypeOK, Rows, containers \in [Node -> [Workload -> ContainerStatus]],
         NEW w \in Workload, NEW n \in Node, workloads[w].node = n,
         SetContainer(n, w, "running"), MarkWorkloadRunning(w, n)
  PROVE  Rows'
  <1> DEFINE new == [workloads[w] EXCEPT !.container = n, !.actual = "RUNNING"]
  <1>1. \A v \in Workload : workloads'[v] = IF v = w THEN new ELSE workloads[v]
    BY DEF MarkWorkloadRunning, StoreTypeOK
  <1>2. RowConsistent(workloads[w]) /\ workloads[w].desired = "SCHEDULED"
    BY DEF Rows, RowsConsistent, MarkWorkloadRunning
  <1>3. RowConsistent(new) /\ new.container = n /\ new.actual = "RUNNING"
    BY <1>2, NullAssumption DEF RowConsistent, StoreTypeOK, WorkloadRow
  <1>4. \A m \in Node : \A v \in Workload :
           containers'[m][v] = IF m = n /\ v = w THEN "running" ELSE containers[m][v]
    BY DEF SetContainer
  <1> HIDE DEF new
  <1>5. RowsConsistent'
    BY <1>1, <1>3 DEF Rows, RowsConsistent, RowConsistent
  <1>6. RecordedWasStarted'
    BY <1>1, <1>3, <1>4 DEF Rows, RecordedWasStarted
  <1>7. FinishedNotRunning'
    BY <1>1, <1>3, <1>4 DEF Rows, FinishedNotRunning, Finished
  <1>8. QED BY <1>5, <1>6, <1>7 DEF Rows

\* Recording a workload that has a container id as RUNNING keeps Rows.
LEMMA RowsRunning ==
  ASSUME StoreTypeOK, Rows, NEW w \in Workload, workloads[w].container # Null,
         UpdateWorkloadActualState(w, "RUNNING"), containers' = containers
  PROVE  Rows'
  <1> USE DEF Rows, StoreTypeOK, WorkloadRow, UpdateWorkloadActualState
  <1>1. RowsConsistent'
    BY DEF RowsConsistent, RowConsistent
  <1>2. RecordedWasStarted'
    BY DEF RecordedWasStarted
  <1>3. FinishedNotRunning'
    BY DEF FinishedNotRunning, Finished
  <1>4. QED BY <1>1, <1>2, <1>3

\* A container that is created or started for a workload without a container
\* id, and not recorded, keeps Rows, whether or not the workload is marked
\* FAILED.
LEMMA RowsUnrecorded ==
  ASSUME StoreTypeOK, Rows, containers \in [Node -> [Workload -> ContainerStatus]],
         NEW w \in Workload, NEW n \in Node, NEW status \in ContainerStatus,
         workloads[w].container = Null, workloads[w].desired = "SCHEDULED",
         SetContainer(n, w, status),
         \/ workloads' = workloads
         \/ workloads' = [workloads EXCEPT ![w].actual = "FAILED"]
  PROVE  Rows'
  <1>1. \A m \in Node : \A v \in Workload \ {w} : containers'[m][v] = containers[m][v]
    BY DEF SetContainer
  <1>2. \A v \in Workload : workloads'[v].container = workloads[v].container
    BY DEF StoreTypeOK, WorkloadRow
  <1>3. \A v \in Workload \ {w} : workloads'[v] = workloads[v]
    BY DEF StoreTypeOK
  <1>4. RowsConsistent'
    BY DEF Rows, RowsConsistent, RowConsistent, StoreTypeOK, WorkloadRow
  <1>5. RecordedWasStarted'
    BY <1>1, <1>2, <1>3, NullAssumption DEF Rows, RecordedWasStarted
  <1>6. FinishedNotRunning'
    BY <1>1, <1>2, <1>3, NullAssumption DEF Rows, FinishedNotRunning
  <1>7. QED BY <1>4, <1>5, <1>6 DEF Rows

\* What the invariant says of the listings the goroutine works from.
Loop == ListingOK /\ PendOK /\ TodoOK /\ ReserveOK

\* The part of the invariant that is inductive without the services.
Known == Shape /\ Rows /\ Loop

\* Between the loops over containers and over workloads there is nothing to
\* know of a listing.
LEMMA LoopBetween ==
  ASSUME pc' \notin {"containers", "execute", "reserve"}
  PROVE  Loop'
  BY DEF Loop, ListingOK, PendOK, TodoOK, ReserveOK

\* What others do to the engines does not invalidate the listings.
LEMMA LoopKept ==
  ASSUME Loop, UNCHANGED local, workloads' = workloads, Fading \/ containers' = containers,
         curNode \in Node \/ pc # "containers"
  PROVE  Loop'
  <1>1. ListingOK'
    BY DEF Loop, ListingOK, local, Fading
  <1>2. PendOK'
    BY DEF Loop, PendOK, local
  <1>3. TodoOK' /\ ReserveOK'
    BY DEF Loop, TodoOK, ReserveOK, local, NeedsExecution
  <1>4. QED BY <1>1, <1>2, <1>3 DEF Loop

\* Executing one workload does not change what is to be done for the others.
LEMMA LoopExecuting ==
  ASSUME StoreTypeOK, Loop, NEW w, pc = "execute",
         \/ workloads' = workloads
         \/ \A v \in Workload \ {w} : workloads'[v] = workloads[v],
         Executed(w), todo \in SUBSET Workload
  PROVE  Loop'
  BY DEF Loop, Executed, ListingOK, PendOK, TodoOK, ReserveOK, NeedsExecution

\* The listing executeScheduledWorkloads begins with holds just the workloads
\* to execute.
LEMMA LoopListed ==
  ASSUME NEW s, ToExecute(s), pc' = "execute"
  PROVE  Loop'
  BY DEF Loop, ToExecute, ListingOK, PendOK, TodoOK, ReserveOK, NeedsExecution

\* Reconciling one container does not change what was listed of the others.
LEMMA LoopScanning ==
  ASSUME StoreTypeOK, Loop, NEW w \in Workload, pc = "containers", pc' = "containers",
         curNode \in Node, pend \in SUBSET Workload, 
         \A v \in Workload : workloads'[v].container = workloads[v].container,
         \A v \in Workload \ {w} : workloads'[v] = workloads[v],
         Fading \/ containers' = containers,
         curNode' = curNode, listed' = listed, pend' \subseteq pend \ {w}
  PROVE  Loop'
  <1>1. ListingOK'
    BY DEF Loop, ListingOK, Fading
  <1>2. PendOK'
    BY DEF Loop, PendOK
  <1>3. TodoOK' /\ ReserveOK'
    BY DEF TodoOK, ReserveOK
  <1>4. QED BY <1>1, <1>2, <1>3 DEF Loop

\* The API handlers keep the invariant on rows and listings: they write
\* neither workloads nor containers.
LEMMA ClientKnown == ASSUME Known, ClientStep PROVE Rows' /\ Loop'
  <1> DEFINE Quiet == workloads' = workloads /\ containers' = containers /\ UNCHANGED local
  <1>1. Quiet
    <2> USE DEF Outside
    <2>1. ASSUME NEW n, NEW cap, registerNode(n, cap) PROVE Quiet
      BY <2>1 DEF registerNode, RegisterNode
    <2>2. ASSUME NEW n, heartbeat(n) PROVE Quiet
      BY <2>2 DEF heartbeat, UpdateHeartbeat
    <2>3. ASSUME NEW s, NEW replicas, NEW req, NEW strategy,
                 createService(s, replicas, req, strategy)
          PROVE Quiet
      BY <2>3 DEF createService, CreateService
    <2>4. ASSUME NEW s, NEW replicas, NEW req, NEW newImage,
                 updateService(s, replicas, req, newImage)
          PROVE Quiet
      BY <2>4 DEF updateService, UpdateService
    <2>5. ASSUME NEW s, deleteService(s) PROVE Quiet
      BY <2>5 DEF deleteService, MarkServiceDeleting
    <2> HIDE DEF Quiet
    <2>6. QED BY <2>1, <2>2, <2>3, <2>4, <2>5 DEF ClientStep
  <1>2. QED BY <1>1, RowsKept, LoopKept DEF Known, Shape, CursorOK

\* Everything that can go wrong keeps the invariant on rows and listings.
LEMMA FaultKnown == ASSUME Known, FaultStep PROVE Rows' /\ Loop'
  <1> USE DEF Known, Shape, TypeOK, CursorOK
  <1>1. ASSUME NEW n \in Node, markUnhealthy(n) PROVE Rows' /\ Loop'
    <2>1. workloads' = workloads /\ containers' = containers /\ UNCHANGED local
      BY <1>1 DEF markUnhealthy, SetNodeStatus, Outside
    <2>2. QED BY <2>1, RowsKept, LoopKept
  <1>2. ASSUME NEW n \in Node, NodeCallFails(n) PROVE Rows' /\ Loop'
    BY <1>2, RowsKept, LoopBetween DEF NodeCallFails, tables
  <1>3. ASSUME NEW n \in Node, NEW w \in Workload, ContainerExits(n, w) \/ ContainerRemoved(n, w)
        PROVE Rows' /\ Loop'
    <2>1. Fading
      BY <1>3, FadingSet DEF ContainerExits, ContainerRemoved, StoppedContainer
    <2>2. workloads' = workloads /\ UNCHANGED local
      BY <1>3 DEF ContainerExits, ContainerRemoved, Outside, tables
    <2>3. QED BY <2>1, <2>2, RowsKept, LoopKept
  <1>4. ASSUME NEW w \in Workload, StopTrackedFails(w) \/ LookupFails(w) PROVE Rows' /\ Loop'
    <2>1. Fading \/ containers' = containers
      BY <1>4, FadingSet DEF StopTrackedFails, LookupFails
    <2>2. workloads' = workloads
      BY <1>4 DEF StopTrackedFails, LookupFails, tables
    <2>3. QED BY <1>4, <2>1, <2>2, RowsKept, LoopScanning DEF StopTrackedFails, LookupFails
  <1>5. ASSUME NEW w \in Workload, LaunchFails(w) PROVE Rows' /\ Loop'
    <2>1. /\ pc = "execute" /\ w \in todo /\ workloads[w].desired = "SCHEDULED"
          /\ Executed(w)
      BY <1>5 DEF LaunchFails, ToLaunch
    <2>2. workloads[w].node # Null /\ workloads[w].actual \in {"PENDING", "SCHEDULED"}
      BY <2>1 DEF Loop, TodoOK, NeedsExecution
    <2>3. workloads[w].node \in Node /\ workloads[w].container = Null
      BY <2>2 DEF Rows, RowsConsistent, RowConsistent, StoreTypeOK, WorkloadRow
    <2>4. PICK status \in ContainerStatus : SetContainer(workloads[w].node, w, status)
      BY <1>5 DEF LaunchFails, ContainerStatus
    <2>5. \/ workloads' = workloads
          \/ workloads' = [workloads EXCEPT ![w].actual = "FAILED"]
      BY <1>5 DEF LaunchFails, tables, MarkWorkloadFailedAndReleaseResources, FinishAndRelease
    <2>6. Rows'
      BY <2>1, <2>3, <2>4, <2>5, RowsUnrecorded
    <2>7. Loop'
      BY <2>1, <2>5, LoopExecuting DEF StoreTypeOK
    <2>8. QED BY <2>6, <2>7
  <1>6. ASSUME NEW w \in Workload, StopFails(w) PROVE Rows' /\ Loop'
    <2>1. Fading \/ containers' = containers
      BY <1>6, FadingSet DEF StopFails
    <2>2. workloads' = workloads
      BY <1>6 DEF StopFails, tables
    <2>3. QED BY <1>6, <2>1, <2>2, RowsKept, LoopExecuting DEF StopFails, ToStop
  <1>7. ASSUME NodeAborted PROVE Rows' /\ Loop'
    <2>1. Fading \/ containers' = containers
      BY <1>7, FadingSet DEF NodeAborted
    <2>2. QED BY <1>7, <2>1, RowsKept, LoopBetween DEF NodeAborted, LeaveNode, tables
  <1>8. ASSUME ReplicasFail PROVE Rows' /\ Loop'
    <2>1. curService \in Service /\ snap[curService] \in ServiceRow
      BY <1>8 DEF ReplicasFail
    <2>2. CASE \E ids : CreatePendingWorkloads(ids, curService, snap[curService])
      BY <1>8, <2>1, <2>2, RowsCreated, LoopBetween DEF ReplicasFail, LeaveService
    <2>3. CASE \E ids : StopWorkloads(ids) /\ \A w \in ids : workloads[w].actual # "ABSENT"
      BY <1>8, <2>3, RowsStopped, LoopBetween DEF ReplicasFail, LeaveService
    <2>4. QED
      BY <1>8, <2>2, <2>3
      DEF ReplicasFail, ReplicaControllerPart, ScaleDownCandidates, ListWorkloadsByService
  <1>9. ASSUME ServiceFails PROVE Rows' /\ Loop'
    BY <1>9, RowsKept, LoopBetween DEF ServiceFails, LeaveService, tables
  <1>10. ASSUME Crash PROVE Rows' /\ Loop'
    BY <1>10, RowsKept, LoopBetween DEF Crash, tables
  <1>11. ASSUME ListingFails PROVE Rows' /\ Loop'
    <2>1. workloads' = workloads /\ containers' = containers
      BY <1>11 DEF ListingFails, tables
    <2>2. Loop'
      BY <1>11 DEF ListingFails, Loop, ListingOK, PendOK, TodoOK, ReserveOK
    <2>3. QED BY <2>1, <2>2, RowsKept
  <1>12. QED
    BY <1>1, <1>2, <1>3, <1>4, <1>5, <1>6, <1>7, <1>8, <1>9, <1>10, <1>11 DEF FaultStep

\* The controllers keep Rows: they insert pending rows and ask existing ones
\* to stop.
LEMMA ControllerRows ==
  ASSUME StoreTypeOK, Rows, NEW s \in Service, NEW svc \in ServiceRow, containers' = containers,
         \/ DeploymentController(s, svc)
         \/ ReplicaController(s, svc)
         \/ DeletionController(s)
         \/ DeletionControllerPart(s)
  PROVE  Rows'
  <1> DEFINE Creates == \E ids : CreatePendingWorkloads(ids, s, svc)
             Stops == \E ids : /\ \A w \in ids : workloads[w].actual # "ABSENT"
                               /\ StopWorkloads(ids)
  <1>1. DeploymentController(s, svc) => workloads' = workloads \/ Creates \/ Stops
    BY DEF DeploymentController, oldActiveWorkloads, ListWorkloadsByService, tables
  <1>2. ReplicaController(s, svc) => workloads' = workloads \/ Creates \/ Stops
    BY DEF ReplicaController, ScaleDownCandidates, ListWorkloadsByService, tables
  <1>3. DeletionController(s) => workloads' = workloads \/ Stops
    BY DEF DeletionController, UnfinishedWorkloads, ListWorkloadsByService, MarkServiceDeleted
  <1>4. DeletionControllerPart(s) => Stops
    BY DEF DeletionControllerPart, UnfinishedWorkloads, ListWorkloadsByService
  <1>5. Creates => Rows'
    BY RowsCreated
  <1>6. Stops => Rows'
    BY RowsStopped
  <1>7. workloads' = workloads => Rows'
    BY RowsKept
  <1> HIDE DEF Creates, Stops
  <1>8. QED BY <1>1, <1>2, <1>3, <1>4, <1>5, <1>6, <1>7

\* The steps of reconcile over the nodes and their containers keep the
\* invariant on rows and listings.
LEMMA NodePhaseKnown ==
  ASSUME Known,
         \/ ListServices
         \/ ListNodes
         \/ \E n \in Node : RecoverNode(n) \/ ReconcileNode(n)
         \/ NodesDone
         \/ \E w \in Workload : StopTracked(w) \/ SyncTracked(w) \/ FailMissing(w)
         \/ NodeDone
  PROVE  Rows' /\ Loop'
  <1> USE DEF Known, Shape, TypeOK, CursorOK
  <1>1. CASE ListServices \/ ListNodes \/ NodesDone \/ NodeDone
    BY <1>1, RowsKept, LoopBetween
    DEF ListServices, ListNodes, NodesDone, NodeDone, LeaveNode, tables
  <1>2. ASSUME NEW n \in Node, RecoverNode(n) PROVE Rows' /\ Loop'
    BY <1>2, RowsRecovered, LoopBetween DEF RecoverNode
  <1>3. ASSUME NEW n \in Node, ReconcileNode(n) PROVE Rows' /\ Loop'
    <2>1. workloads' = workloads /\ containers' = containers
      BY <1>3 DEF ReconcileNode, tables
    <2>2. pc' = "containers" /\ curNode' = n /\ listed' = containers[n] /\ pend' = OutOfSync(n)
      BY <1>3 DEF ReconcileNode
    <2>3. ListingOK'
      BY <2>1, <2>2 DEF ListingOK, Rows, RecordedWasStarted
    <2>4. PendOK'
      BY <2>1, <2>2 DEF PendOK, OutOfSync, Tracked, Rows, FinishedNotRunning
    <2>5. TodoOK' /\ ReserveOK'
      BY <2>2 DEF TodoOK, ReserveOK
    <2>6. QED BY <2>1, <2>3, <2>4, <2>5, RowsKept DEF Loop
  <1>4. ASSUME NEW w \in Workload, StopTracked(w) PROVE Rows' /\ Loop'
    <2>1. /\ pc = "containers" /\ w \in pend /\ curNode \in Node
          /\ workloads[w].desired = "STOPPED"
          /\ SetContainer(curNode, w, StoppedContainer(containers[curNode][w]))
          /\ workloads' = [workloads EXCEPT ![w].actual = "STOPPED"]
          /\ pend' = pend \ {w}
          /\ pc' = pc /\ curNode' = curNode /\ listed' = listed
      BY <1>4 DEF StopTracked, StopRequested, UpdateWorkloadActualState
    <2>2. Fading
      BY <2>1, FadingSet
    <2>3. workloads[w].container = curNode
      BY <2>1 DEF Loop, PendOK
    <2>4. containers'[curNode][w] # "running"
      BY <2>1 DEF SetContainer, StoppedContainer
    <2>5. workloads[w].actual # "ABSENT"
      BY <2>1 DEF Rows, RowsConsistent, RowConsistent
    <2>6. Rows'
      BY <2>1, <2>2, <2>3, <2>4, <2>5, RowsFinished DEF Finished
    <2>7. Loop'
      BY <2>1, <2>2, LoopScanning DEF StoreTypeOK, WorkloadRow
    <2>8. QED BY <2>6, <2>7
  <1>5. ASSUME NEW w \in Workload, SyncTracked(w) PROVE Rows' /\ Loop'
    <2>1. /\ pc = "containers" /\ w \in pend /\ curNode \in Node
          /\ containers' = containers
          /\ pend' = pend \ {w}
          /\ pc' = pc /\ curNode' = curNode /\ listed' = listed
      BY <1>5 DEF SyncTracked
    <2>2. workloads[w].container = curNode /\ workloads[w].container # Null
      BY <2>1, NullAssumption DEF Loop, PendOK
    <2>3. /\ listed[w] # "created"
          /\ listed[w] # "running" => containers[curNode][w] # "running"
      BY <2>1, <2>2 DEF Loop, ListingOK
    <2>4. workloads[w].actual # "ABSENT" /\ workloads[w].desired # "PENDING"
      BY <2>2 DEF Rows, RowsConsistent, RowConsistent
    <2>5. CASE listed[w] = "running"
      <3>1. UpdateWorkloadActualState(w, "RUNNING")
        BY <1>5, <2>5 DEF SyncTracked, containerState
      <3>2. Rows'
        BY <2>1, <2>2, <3>1, RowsRunning
      <3>3. Loop'
        BY <2>1, <3>1, LoopScanning DEF UpdateWorkloadActualState, StoreTypeOK, WorkloadRow
      <3>4. QED BY <3>2, <3>3
    <2>6. CASE listed[w] # "running"
      <3>1. containerState(listed[w]) = "FAILED"
        BY <2>3, <2>6 DEF containerState
      <3>2. \/ workloads' = workloads
            \/ workloads' = [workloads EXCEPT ![w].actual = "FAILED"]
        BY <1>5, <3>1 DEF SyncTracked, MarkWorkloadFailedAndReleaseResources, FinishAndRelease
      <3>3. Rows'
        BY <2>1, <2>2, <2>3, <2>4, <2>6, <3>2, RowsFinished DEF Finished
      <3>4. /\ \A v \in Workload : workloads'[v].container = workloads[v].container
            /\ \A v \in Workload \ {w} : workloads'[v] = workloads[v]
        BY <3>2 DEF StoreTypeOK, WorkloadRow
      <3>5. Loop'
        BY <2>1, <3>4, LoopScanning
      <3>6. QED BY <3>3, <3>5
    <2>7. QED BY <2>5, <2>6
  <1>6. ASSUME NEW w \in Workload, FailMissing(w) PROVE Rows' /\ Loop'
    <2>1. /\ pc = "containers" /\ pend = {} /\ curNode \in Node
          /\ w \in MissingContainers
          /\ containers' = containers
          /\ pend' = pend /\ pc' = pc /\ curNode' = curNode /\ listed' = listed
      BY <1>6 DEF FailMissing, local
    <2>2. /\ workloads[w].container # Null /\ workloads[w].node = curNode
          /\ workloads[w].actual \in {"RUNNING", "SCHEDULED"}
          /\ ~(workloads[w].container = curNode /\ listed[w] # "none")
      BY <2>1 DEF MissingContainers, ListWorkloadsByNode
    <2>3. workloads[w].container = curNode /\ workloads[w].desired # "PENDING"
      BY <2>2 DEF Rows, RowsConsistent, RowConsistent
    <2>4. containers[curNode][w] # "running"
      BY <2>1, <2>2, <2>3 DEF Loop, ListingOK
    <2>5. \/ workloads' = workloads
          \/ workloads' = [workloads EXCEPT ![w].actual = "FAILED"]
      BY <1>6 DEF FailMissing, MarkWorkloadFailedAndReleaseResources, FinishAndRelease
    <2>6. Rows'
      BY <2>1, <2>2, <2>3, <2>4, <2>5, RowsFinished DEF Finished
    <2>7. /\ \A v \in Workload : workloads'[v].container = workloads[v].container
          /\ \A v \in Workload \ {w} : workloads'[v] = workloads[v]
      BY <2>5 DEF StoreTypeOK, WorkloadRow
    <2>8. Loop'
      BY <2>1, <2>7, LoopScanning
    <2>9. QED BY <2>6, <2>8
  <1>7. QED
    BY <1>1, <1>2, <1>3, <1>4, <1>5, <1>6

\* The steps of reconcile over the services, the scheduling and the execution
\* of their workloads keep the invariant on rows and listings.
LEMMA ServicePhaseKnown ==
  ASSUME Known,
         \/ \E s \in Service : \/ SkipService(s)
                               \/ ReconcileDeletion(s)
                               \/ ReconcileDeployment(s)
                               \/ DeploymentFails(s)
         \/ ServicesDone
         \/ ReconcileReplicas
         \/ ReplicasOutOfIds
         \/ \E w \in Workload : PickNode(w) \/ NoNode(w) \/ ExecuteOnly(w)
         \/ Reserve
         \/ ReserveFails
         \/ ReconcileStatus
         \/ \E w \in Workload : Launch(w) \/ LaunchConflict(w) \/ Stop(w)
         \/ ExecuteDone
  PROVE  Rows' /\ Loop'
  <1> USE DEF Known, Shape, TypeOK, CursorOK
  <1>1. ASSUME NEW s \in Service, SkipService(s) \/ DeploymentFails(s) PROVE Rows' /\ Loop'
    BY <1>1, RowsKept, LoopBetween DEF SkipService, DeploymentFails, LeaveService, tables
  <1>2. ASSUME NEW s \in Service, ReconcileDeletion(s) PROVE Rows' /\ Loop'
    BY <1>2, ControllerRows, LoopListed DEF ReconcileDeletion
  <1>3. ASSUME NEW s \in Service, ReconcileDeployment(s) PROVE Rows' /\ Loop'
    BY <1>3, ControllerRows, LoopBetween DEF ReconcileDeployment
  <1>4. CASE ServicesDone
    BY <1>4, RowsKept, LoopBetween DEF ServicesDone, tables
  <1>5. CASE ReconcileReplicas
    BY <1>5, ControllerRows, LoopBetween DEF ReconcileReplicas
  <1>6. CASE ReplicasOutOfIds
    BY <1>6, RowsCreated, LoopBetween DEF ReplicasOutOfIds, LeaveService
  <1>7. ASSUME NEW w \in Workload, PickNode(w) PROVE Rows' /\ Loop'
    <2>1. workloads' = workloads /\ containers' = containers
      BY <1>7 DEF PickNode, tables
    <2>2. Loop'
      BY <1>7, <2>1 DEF PickNode, Loop, ListingOK, PendOK, TodoOK, ReserveOK
    <2>3. QED BY <2>1, <2>2, RowsKept
  <1>8. ASSUME NEW w \in Workload, NoNode(w) PROVE Rows' /\ Loop'
    BY <1>8, RowsKept, LoopBetween DEF NoNode, tables
  <1>9. ASSUME NEW w \in Workload, ExecuteOnly(w) PROVE Rows' /\ Loop'
    BY <1>9, RowsKept, LoopListed DEF ExecuteOnly, tables
  <1>10. CASE Reserve
    <2>1. workloads[curWorkload].desired = "PENDING"
      BY <1>10 DEF Reserve, Loop, ReserveOK
    <2>2. QED BY <1>10, <2>1, RowsReserved, LoopListed DEF Reserve
  <1>11. CASE ReserveFails
    BY <1>11, RowsKept, LoopBetween DEF ReserveFails, tables
  <1>12. CASE ReconcileStatus
    <2>1. workloads' = workloads
      BY <1>12 DEF ReconcileStatus, DeploymentStatusController, UpdateDeploymentStatus, tables
    <2>2. QED BY <1>12, <2>1, RowsKept, LoopBetween DEF ReconcileStatus, LeaveService
  <1>13. ASSUME NEW w \in Workload, Launch(w) PROVE Rows' /\ Loop'
    <2>1. /\ pc = "execute" /\ w \in todo /\ workloads[w].desired = "SCHEDULED"
          /\ Executed(w)
      BY <1>13 DEF Launch, ToLaunch
    <2>2. workloads[w].node \in Node
      BY <2>1 DEF Loop, TodoOK, NeedsExecution, StoreTypeOK, WorkloadRow
    <2>3. Rows'
      BY <1>13, <2>2, RowsLaunched DEF Launch
    <2>4. \A v \in Workload \ {w} : workloads'[v] = workloads[v]
      BY <1>13 DEF Launch, MarkWorkloadRunning, StoreTypeOK
    <2>5. Loop'
      BY <2>1, <2>4, LoopExecuting
    <2>6. QED BY <2>3, <2>5
  <1>14. ASSUME NEW w \in Workload, LaunchConflict(w) PROVE Rows' /\ Loop'
    BY <1>14, RowsKept, LoopExecuting DEF LaunchConflict, ToLaunch, tables
  <1>15. ASSUME NEW w \in Workload, Stop(w) PROVE Rows' /\ Loop'
    <2>1. /\ pc = "execute" /\ w \in todo /\ workloads[w].desired = "STOPPED"
          /\ Executed(w)
      BY <1>15 DEF Stop, ToStop
    <2>2. \/ workloads' = workloads
          \/ workloads' = [workloads EXCEPT ![w].actual = "STOPPED"]
      BY <1>15 DEF Stop, MarkWorkloadStoppedAndReleaseResources, FinishAndRelease
    <2>3. workloads[w].actual # "ABSENT"
      BY <2>1 DEF Rows, RowsConsistent, RowConsistent
    <2>4. /\ Fading \/ containers' = containers
          /\ \A n \in Node : workloads[w].container = n => containers'[n][w] # "running"
      <3>1. CASE workloads[w].container = Null
        BY <1>15, <3>1, NullAssumption DEF Stop
      <3>2. CASE workloads[w].container # Null
        <4>1. SetContainer(workloads[w].container, w, "none")
          BY <1>15, <3>2 DEF Stop
        <4>2. Fading
          BY <4>1, FadingSet
        <4>3. \A n \in Node : workloads[w].container = n => containers'[n][w] = "none"
          BY <4>1 DEF SetContainer
        <4>4. QED BY <4>2, <4>3
      <3>3. QED BY <3>1, <3>2
    <2>5. Rows'
      BY <2>1, <2>2, <2>3, <2>4, RowsFinished DEF Finished
    <2>6. Loop'
      BY <2>1, <2>2, LoopExecuting DEF StoreTypeOK
    <2>7. QED BY <2>5, <2>6
  <1>16. CASE ExecuteDone
    BY <1>16, RowsKept, LoopBetween DEF ExecuteDone, LeaveService, tables
  <1>17. QED
    BY <1>1, <1>2, <1>3, <1>4, <1>5, <1>6, <1>7, <1>8, <1>9, <1>10, <1>11, <1>12,
       <1>13, <1>14, <1>15, <1>16

\* Every step keeps what is known of the service at hand.
LEMMA VisitKept == ASSUME Shape, VisitOK, [Next]_vars PROVE VisitOK'
  <1> USE DEF VisitOK
  <1>1. ASSUME pc' \in {"idle", "listNodes", "nodes", "containers", "services"} PROVE VisitOK'
    BY <1>1
  <1>2. ASSUME UNCHANGED <<snap, curService>>,
               \/ pc' = pc
               \/ pc \in {"replica", "schedule", "reserve"}
                     /\ pc' \in {"schedule", "reserve", "execute"}
        PROVE  VisitOK'
    BY <1>2
  <1>3. CASE ClientStep
    <2>1. UNCHANGED local
      BY <1>3 DEF ClientStep, registerNode, heartbeat, createService, updateService,
                  deleteService, Outside
    <2>2. QED BY <1>2, <2>1 DEF local
  <1>4. CASE FaultStep
    <2>1. ASSUME NEW n \in Node, markUnhealthy(n) \/ NodeCallFails(n) PROVE VisitOK'
      BY <1>1, <1>2, <2>1 DEF markUnhealthy, NodeCallFails, Outside, local
    <2>2. ASSUME NEW n \in Node, NEW w \in Workload, ContainerExits(n, w) \/ ContainerRemoved(n, w)
          PROVE VisitOK'
      BY <1>2, <2>2 DEF ContainerExits, ContainerRemoved, Outside, local
    <2>3. ASSUME NEW w \in Workload,
                 StopTrackedFails(w) \/ LookupFails(w) \/ LaunchFails(w) \/ StopFails(w)
          PROVE VisitOK'
      BY <1>2, <2>3 DEF StopTrackedFails, LookupFails, LaunchFails, StopFails, Executed
    <2>4. CASE NodeAborted \/ ReplicasFail \/ ServiceFails \/ ListingFails \/ Crash
      BY <1>1, <1>2, <2>4
      DEF NodeAborted, LeaveNode, ReplicasFail, ServiceFails, LeaveService, ListingFails, Crash
    <2>5. QED BY <1>4, <2>1, <2>2, <2>3, <2>4 DEF FaultStep
  <1>5. CASE CycleStep
    <2>1. CASE ListServices \/ ListNodes \/ NodesDone \/ NodeDone \/ ServicesDone
               \/ ReplicasOutOfIds \/ ReconcileStatus
      BY <1>1, <2>1
      DEF ListServices, ListNodes, NodesDone, NodeDone, LeaveNode, ServicesDone,
          ReplicasOutOfIds, ReconcileStatus, LeaveService
    <2>2. ASSUME NEW n \in Node, RecoverNode(n) \/ ReconcileNode(n) PROVE VisitOK'
      BY <1>1, <2>2 DEF RecoverNode, ReconcileNode
    <2>3. ASSUME NEW w \in Workload, StopTracked(w) \/ SyncTracked(w) \/ FailMissing(w)
          PROVE VisitOK'
      BY <1>1, <2>3 DEF StopTracked, SyncTracked, FailMissing, local
    <2>4. ASSUME NEW s \in Service, SkipService(s) \/ DeploymentFails(s) PROVE VisitOK'
      BY <1>1, <2>4 DEF SkipService, DeploymentFails, LeaveService
    <2>5. ASSUME NEW s \in Service, ReconcileDeletion(s) \/ ReconcileDeployment(s) PROVE VisitOK'
      BY <2>5 DEF ReconcileDeletion, ReconcileDeployment
    <2>6. CASE ReconcileReplicas \/ Reserve \/ ReserveFails
      BY <1>2, <2>6 DEF ReconcileReplicas, Reserve, ReserveFails
    <2>7. ASSUME NEW w \in Workload, PickNode(w) \/ NoNode(w) \/ ExecuteOnly(w) PROVE VisitOK'
      BY <1>2, <2>7 DEF PickNode, NoNode, ExecuteOnly
    <2>8. ASSUME NEW w \in Workload, Launch(w) \/ LaunchConflict(w) \/ Stop(w) PROVE VisitOK'
      BY <1>2, <2>8 DEF Launch, LaunchConflict, Stop, Executed
    <2>9. CASE ExecuteDone
      BY <1>1, <2>9 DEF ExecuteDone, LeaveService
    <2>10. QED
      BY <1>5, <2>1, <2>2, <2>3, <2>4, <2>5, <2>6, <2>7, <2>8, <2>9 DEF CycleStep
  <1>6. CASE UNCHANGED vars
    BY <1>2, <1>6 DEF vars, local
  <1>7. QED BY <1>3, <1>4, <1>5, <1>6 DEF Next

\* Two rows of the same workload that mean the same to WorkloadLife.
SameJob(old, new) == jobOf(new) = jobOf(old)
SameLife(old, new) ==
    /\ SameJob(old, new)
    /\ stageOf(new) = stageOf(old)
    /\ placeOf(new) = placeOf(old)

\* A row that one step took further in its life.
RowMoves(old, new) ==
    /\ SameJob(old, new)
    /\ \/ /\ stageOf(old) = "waiting" /\ stageOf(new) = "placed"
          /\ placeOf(new) \in Node
       \/ /\ stageOf(old) = "placed" /\ stageOf(new) = "running"
          /\ placeOf(new) = placeOf(old)
       \/ /\ stageOf(old) \in {"waiting", "placed", "running"} /\ stageOf(new) = "finished"
          /\ placeOf(new) = Null

\* A row after its node n was lost.
RowEvicted(n, old, new) ==
    /\ SameJob(old, new)
    /\ IF placeOf(old) = n THEN stageOf(new) = "waiting" /\ placeOf(new) = Null
                           ELSE stageOf(new) = stageOf(old) /\ placeOf(new) = placeOf(old)

\* How many rows a controller inserts for s: a replacement within the surge,
\* or at most as many as are missing when no older workload is active.
InsertAllowed(s, svc, ids) ==
    \/ /\ oldActiveWorkloads(s, svc.version) # {}
       /\ SurgeAllowed(s, svc)
       /\ \E w \in FreeWorkload : ids = {w}
    \/ /\ oldActiveWorkloads(s, svc.version) = {}
       /\ \/ Cardinality(ids) = MissingReplicas(s, svc)
          \/ Cardinality(ids) < MissingReplicas(s, svc)

\* What a step may do to the workloads table: at most one row moves on, or a
\* node is lost with all its rows; or new rows are inserted for a service
\* that the snapshot has as ACTIVE and not FAILED, in its version there.
OneMoves ==
    \E w \in Workload :
        /\ RowMoves(workloads[w], workloads'[w])
        /\ \A v \in Workload \ {w} : SameLife(workloads[v], workloads'[v])

NodeEvicted == \E n \in Node : \A w \in Workload : RowEvicted(n, workloads[w], workloads'[w])

Moves ==
    \/ \A w \in Workload : SameLife(workloads[w], workloads'[w])
    \/ OneMoves
    \/ NodeEvicted

Inserts ==
    \E s \in Service : \E ids \in SUBSET FreeWorkload :
        /\ snap[s].status = "ACTIVE" /\ snap[s].deployment # "FAILED"
        /\ InsertAllowed(s, snap[s], ids)
        /\ CreatePendingWorkloads(ids, s, snap[s])

\* What follows for a single row: it is never handed to another service or
\* version, and stays finished once it is.
RowAges(old, new) ==
    /\ new.service = old.service /\ new.version = old.version
    /\ old.actual \in Finished => new.actual \in Finished
    /\ old.actual = "ABSENT" => new.actual = "ABSENT"

Ages == \A w \in Workload : RowAges(workloads[w], workloads'[w])

\* Rows that only move on age.
LEMMA MovesAge ==
  ASSUME StoreTypeOK, StoreTypeOK', Moves
  PROVE  Ages
  <1> SUFFICES ASSUME NEW w \in Workload PROVE RowAges(workloads[w], workloads'[w])
    BY DEF Ages
  <1> DEFINE old == workloads[w]
             new == workloads'[w]
  <1>1. /\ old.actual \in {"ABSENT"} \cup Unfinished \cup Finished
        /\ new.actual \in {"ABSENT"} \cup Unfinished \cup Finished
    BY DEF StoreTypeOK, WorkloadRow
  <1>2. /\ stageOf(old) = "finished" <=> old.actual \in Finished
        /\ stageOf(new) = "finished" <=> new.actual \in Finished
        /\ stageOf(old) = "none" <=> old.actual = "ABSENT"
        /\ stageOf(new) = "none" <=> new.actual = "ABSENT"
    BY <1>1 DEF stageOf, Finished, Unfinished
  <1>3. SameLife(old, new) \/ RowMoves(old, new) \/ \E n \in Node : RowEvicted(n, old, new)
    BY DEF Moves, OneMoves, NodeEvicted
  <1>4. SameJob(old, new)
    BY <1>3 DEF SameLife, RowMoves, RowEvicted
  <1>5. new.service = old.service /\ new.version = old.version
    BY <1>4 DEF SameJob, jobOf
  <1>6. stageOf(old) \in {"finished", "none"} => placeOf(old) = Null
    BY <1>1, <1>2 DEF placeOf, Finished, Unfinished
  <1> HIDE DEF old, new
  <1>7. stageOf(old) \in {"finished", "none"} => stageOf(new) = stageOf(old)
    BY <1>3, <1>6, NullAssumption DEF SameLife, RowMoves, RowEvicted
  <1>8. RowAges(old, new)
    BY <1>2, <1>5, <1>7 DEF RowAges
  <1>9. QED BY <1>8 DEF old, new

\* A step that does not write the workloads table.
LEMMA KeptMoves == workloads' = workloads => Moves
  BY DEF Moves, SameLife, SameJob

\* Asking workloads to stop changes nothing WorkloadLife knows of.
LEMMA StoppedMoves ==
  ASSUME StoreTypeOK, NEW ids, StopWorkloads(ids)
  PROVE  Moves
  <1>1. \A w \in Workload : SameLife(workloads[w], workloads'[w])
    BY DEF StopWorkloads, StoreTypeOK, WorkloadRow, SameLife, SameJob, stageOf, placeOf, jobOf
  <1>2. QED BY <1>1 DEF Moves

\* A final state is recorded: the workload finishes, or was finished.
LEMMA FinishedMoves ==
  ASSUME StoreTypeOK, NEW w \in Workload, NEW state \in Finished,
         workloads' = [workloads EXCEPT ![w].actual = state],
         workloads[w].actual # "ABSENT"
  PROVE  Moves
  <1> DEFINE new == [workloads[w] EXCEPT !.actual = state]
  <1>1. \A v \in Workload : workloads'[v] = IF v = w THEN new ELSE workloads[v]
    BY DEF StoreTypeOK
  <1>2. SameLife(workloads[w], new) \/ RowMoves(workloads[w], new)
    BY DEF SameLife, RowMoves, SameJob, stageOf, placeOf, jobOf, StoreTypeOK, WorkloadRow,
           Finished, Unfinished
  <1> HIDE DEF new
  <1>3. QED BY <1>1, <1>2 DEF Moves, OneMoves, SameLife, SameJob

\* RUNNING is recorded of a workload that is recorded as RUNNING.
LEMMA RunningMoves ==
  ASSUME StoreTypeOK, NEW w \in Workload,
         workloads' = [workloads EXCEPT ![w].actual = "RUNNING"],
         workloads[w].actual = "RUNNING"
  PROVE  Moves
  <1>1. workloads' = workloads
    BY DEF StoreTypeOK, WorkloadRow
  <1>2. QED BY <1>1, KeptMoves

\* A reservation places a workload that waits.
LEMMA ReservedMoves ==
  ASSUME StoreTypeOK, Rows, NEW w \in Workload, NEW n \in Node,
         workloads[w].desired = "PENDING", ReserveNodeForWorkload(w, n)
  PROVE  Moves
  <1> DEFINE new == [workloads[w] EXCEPT !.node = n, !.desired = "SCHEDULED"]
  <1>1. \A v \in Workload : workloads'[v] = IF v = w THEN new ELSE workloads[v]
    BY DEF ReserveNodeForWorkload, StoreTypeOK
  <1>2. workloads[w].actual = "PENDING" /\ workloads[w].node = Null
    BY DEF Rows, RowsConsistent, RowConsistent
  <1>3. RowMoves(workloads[w], new)
    BY <1>2, NullAssumption
    DEF RowMoves, SameJob, stageOf, placeOf, jobOf, StoreTypeOK, WorkloadRow, Finished,
        Unfinished
  <1> HIDE DEF new
  <1>4. QED BY <1>1, <1>3 DEF Moves, OneMoves, SameLife, SameJob

\* A workload that was placed becomes RUNNING.
LEMMA LaunchedMoves ==
  ASSUME StoreTypeOK, NEW w \in Workload, NEW n \in Node, MarkWorkloadRunning(w, n),
         workloads[w].actual = "PENDING", workloads[w].node # Null
  PROVE  Moves
  <1> DEFINE new == [workloads[w] EXCEPT !.container = n, !.actual = "RUNNING"]
  <1>1. \A v \in Workload : workloads'[v] = IF v = w THEN new ELSE workloads[v]
    BY DEF MarkWorkloadRunning, StoreTypeOK
  <1>2. RowMoves(workloads[w], new)
    BY DEF RowMoves, SameJob, stageOf, placeOf, jobOf, StoreTypeOK, WorkloadRow, Finished,
           Unfinished
  <1> HIDE DEF new
  <1>3. QED BY <1>1, <1>2 DEF Moves, OneMoves, SameLife, SameJob

\* Recovery evicts the unfinished workloads of the node.
LEMMA RecoveredMoves ==
  ASSUME StoreTypeOK, NEW n \in Node, RecoverWorkloadsFromNode(n)
  PROVE  Moves
  <1> SUFFICES ASSUME NEW w \in Workload PROVE RowEvicted(n, workloads[w], workloads'[w])
    BY DEF Moves, NodeEvicted
  <1> DEFINE reset == [workloads[w] EXCEPT !.node = Null, !.container = Null,
                                           !.desired = "PENDING", !.actual = "PENDING"]
  <1>1. workloads'[w] = IF workloads[w].node = n /\ workloads[w].actual \in Unfinished
                        THEN reset ELSE workloads[w]
    BY DEF RecoverWorkloadsFromNode
  <1>2. /\ jobOf(reset) = jobOf(workloads[w])
        /\ reset.actual = "PENDING" /\ reset.node = Null
    BY DEF jobOf, StoreTypeOK, WorkloadRow
  <1>3. stageOf(reset) = "waiting" /\ placeOf(reset) = Null
    BY <1>2 DEF stageOf, placeOf, Finished, Unfinished
  <1> HIDE DEF reset
  <1>4. placeOf(workloads[w]) = n <=> workloads[w].node = n /\ workloads[w].actual \in Unfinished
    BY NullAssumption DEF placeOf
  <1>5. QED BY <1>1, <1>2, <1>3, <1>4 DEF RowEvicted, SameJob

\* The controllers move rows, or insert rows with unused ids; the deletion
\* controller inserts none.
LEMMA ControllerMoves ==
  ASSUME StoreTypeOK, NEW s \in Service, NEW svc \in ServiceRow,
         \/ DeploymentController(s, svc)
         \/ ReplicaController(s, svc)
         \/ ReplicaControllerPart(s, svc)
         \/ DeletionController(s)
         \/ DeletionControllerPart(s)
  PROVE  \/ Moves
         \/ \E ids \in SUBSET FreeWorkload :
               /\ CreatePendingWorkloads(ids, s, svc)
               /\ svc.deployment # "FAILED" /\ InsertAllowed(s, svc, ids)
               /\ ~DeletionController(s) /\ ~DeletionControllerPart(s)
  <1> DEFINE Creates == \E ids \in SUBSET FreeWorkload :
                          /\ CreatePendingWorkloads(ids, s, svc)
                          /\ svc.deployment # "FAILED" /\ InsertAllowed(s, svc, ids)
  <1>1. \A ids : StopWorkloads(ids) => Moves
    BY StoppedMoves
  <1>2. CASE DeletionController(s) \/ DeletionControllerPart(s)
    BY <1>1, <1>2, KeptMoves DEF DeletionController, DeletionControllerPart, MarkServiceDeleted
  <1>3. DeploymentController(s, svc) => Moves \/ Creates
    BY <1>1, KeptMoves DEF DeploymentController, RolloutIdle, InsertAllowed, tables
  <1>4. ReplicaController(s, svc) => Moves \/ Creates
    BY <1>1, KeptMoves DEF ReplicaController, ReplicasIdle, InsertAllowed, tables
  <1>5. ReplicaControllerPart(s, svc) => Moves \/ Creates
    BY <1>1 DEF ReplicaControllerPart, ReplicasIdle, InsertAllowed
  <1>6. QED BY <1>2, <1>3, <1>4, <1>5

\* Every step moves the workloads table, or inserts rows for a service the
\* snapshot has as ACTIVE.
LEMMA StepMoves == ASSUME Known, VisitOK, [Next]_vars PROVE Moves \/ Inserts
  <1> USE DEF Known, Shape, TypeOK, CursorOK, Finished
  <1>1. CASE ClientStep
    <2>1. workloads' = workloads
      <3>1. ASSUME NEW n, NEW cap, registerNode(n, cap) PROVE workloads' = workloads
        BY <3>1 DEF registerNode, RegisterNode
      <3>2. ASSUME NEW n, heartbeat(n) PROVE workloads' = workloads
        BY <3>2 DEF heartbeat, UpdateHeartbeat
      <3>3. ASSUME NEW s, NEW replicas, NEW req, NEW strategy,
                   createService(s, replicas, req, strategy)
            PROVE workloads' = workloads
        BY <3>3 DEF createService, CreateService
      <3>4. ASSUME NEW s, NEW replicas, NEW req, NEW newImage,
                   updateService(s, replicas, req, newImage)
            PROVE workloads' = workloads
        BY <3>4 DEF updateService, UpdateService
      <3>5. ASSUME NEW s, deleteService(s) PROVE workloads' = workloads
        BY <3>5 DEF deleteService, MarkServiceDeleting
      <3>6. QED BY <1>1, <3>1, <3>2, <3>3, <3>4, <3>5 DEF ClientStep
    <2>2. QED BY <2>1, KeptMoves
  <1>2. CASE FaultStep
    <2>1. ASSUME NEW w \in Workload, LaunchFails(w) PROVE Moves
      <3>1. \/ workloads' = workloads
            \/ workloads' = [workloads EXCEPT ![w].actual = "FAILED"]
        BY <2>1 DEF LaunchFails, tables, MarkWorkloadFailedAndReleaseResources, FinishAndRelease
      <3>2. workloads[w].actual # "ABSENT"
        BY <2>1 DEF LaunchFails, ToLaunch, Rows, RowsConsistent, RowConsistent
      <3>3. QED BY <3>1, <3>2, KeptMoves, FinishedMoves
    <2>2. CASE ReplicasFail
      BY <2>2, ControllerMoves DEF ReplicasFail, VisitOK, Inserts
    <2>3. CASE /\ ~ReplicasFail
               /\ \A w \in Workload : ~LaunchFails(w)
      <3>1. workloads' = workloads
        BY <1>2, <2>3
        DEF FaultStep, markUnhealthy, SetNodeStatus, NodeCallFails, ContainerExits,
            ContainerRemoved, StopTrackedFails, LookupFails, StopFails, NodeAborted, ServiceFails,
            ListingFails, Crash, tables
      <3>2. QED BY <3>1, KeptMoves
    <2>4. QED BY <2>1, <2>2, <2>3
  <1>3. CASE CycleStep
    <2>1. ASSUME NEW n \in Node, RecoverNode(n) PROVE Moves
      BY <2>1, RecoveredMoves DEF RecoverNode
    <2>2. ASSUME NEW w \in Workload, StopTracked(w) PROVE Moves
      <3>1. /\ workloads[w].desired = "STOPPED"
            /\ workloads' = [workloads EXCEPT ![w].actual = "STOPPED"]
        BY <2>2 DEF StopTracked, StopRequested, UpdateWorkloadActualState
      <3>2. workloads[w].actual # "ABSENT"
        BY <3>1 DEF Rows, RowsConsistent, RowConsistent
      <3>3. QED BY <3>1, <3>2, FinishedMoves
    <2>3. ASSUME NEW w \in Workload, SyncTracked(w) PROVE Moves
      <3>1. pc = "containers" /\ w \in pend /\ curNode \in Node
        BY <2>3 DEF SyncTracked
      <3>2. /\ workloads[w].container = curNode
            /\ workloads[w].actual \in Finished => listed[w] # "running"
        BY <3>1 DEF Loop, PendOK
      <3>3. listed[w] # "created" /\ workloads[w].actual # "ABSENT"
        BY <3>1, <3>2, NullAssumption DEF Loop, ListingOK, Rows, RowsConsistent, RowConsistent
      <3>4. \/ workloads' = workloads
            \/ workloads' = [workloads EXCEPT ![w].actual = "FAILED"]
            \/ listed[w] = "running" /\ workloads' = [workloads EXCEPT ![w].actual = "RUNNING"]
        BY <2>3, <3>3
        DEF SyncTracked, containerState, MarkWorkloadFailedAndReleaseResources,
            FinishAndRelease, UpdateWorkloadActualState
      <3>5. listed[w] = "running" => workloads[w].actual = "RUNNING"
        BY <3>1, <3>2, <3>3, NullAssumption
        DEF Rows, RowsConsistent, RowConsistent, StoreTypeOK, WorkloadRow, Unfinished
      <3>6. QED BY <3>3, <3>4, <3>5, KeptMoves, FinishedMoves, RunningMoves
    <2>4. ASSUME NEW w \in Workload, FailMissing(w) PROVE Moves
      <3>1. \/ workloads' = workloads
            \/ workloads' = [workloads EXCEPT ![w].actual = "FAILED"]
        BY <2>4 DEF FailMissing, MarkWorkloadFailedAndReleaseResources, FinishAndRelease
      <3>2. workloads[w].actual # "ABSENT"
        BY <2>4 DEF FailMissing, MissingContainers
      <3>3. QED BY <3>1, <3>2, KeptMoves, FinishedMoves
    <2>5. ASSUME NEW s \in Service, ReconcileDeletion(s) PROVE Moves
      BY <2>5, ControllerMoves DEF ReconcileDeletion
    <2>6. ASSUME NEW s \in Service, ReconcileDeployment(s) PROVE Moves \/ Inserts
      BY <2>6, ControllerMoves DEF ReconcileDeployment, Inserts
    <2>7. CASE ReconcileReplicas
      BY <2>7, ControllerMoves DEF ReconcileReplicas, VisitOK, Inserts
    <2>8. CASE ReplicasOutOfIds
      BY <2>8 DEF ReplicasOutOfIds, ReplicasIdle, VisitOK, Inserts, InsertAllowed
    <2>9. CASE Reserve
      BY <2>9, ReservedMoves DEF Reserve, Loop, ReserveOK
    <2>10. CASE ReconcileStatus
      <3>1. workloads' = workloads
        BY <2>10
        DEF ReconcileStatus, DeploymentStatusController, UpdateDeploymentStatus, tables
      <3>2. QED BY <3>1, KeptMoves
    <2>11. ASSUME NEW w \in Workload, Launch(w) PROVE Moves
      <3>1. pc = "execute" /\ w \in todo /\ workloads[w].desired = "SCHEDULED"
        BY <2>11 DEF Launch, ToLaunch
      <3>2. workloads[w].actual \in {"PENDING", "SCHEDULED"} /\ workloads[w].node # Null
        BY <3>1 DEF Loop, TodoOK, NeedsExecution
      <3>3. workloads[w].actual = "PENDING" /\ workloads[w].node \in Node
        BY <3>2 DEF Rows, RowsConsistent, RowConsistent, StoreTypeOK, WorkloadRow
      <3>4. QED BY <2>11, <3>2, <3>3, LaunchedMoves DEF Launch
    <2>12. ASSUME NEW w \in Workload, Stop(w) PROVE Moves
      <3>1. \/ workloads' = workloads
            \/ workloads' = [workloads EXCEPT ![w].actual = "STOPPED"]
        BY <2>12 DEF Stop, MarkWorkloadStoppedAndReleaseResources, FinishAndRelease
      <3>2. workloads[w].actual # "ABSENT"
        BY <2>12 DEF Stop, ToStop, Rows, RowsConsistent, RowConsistent
      <3>3. QED BY <3>1, <3>2, KeptMoves, FinishedMoves
    <2>13. ASSUME NEW w \in Workload,
                  PickNode(w) \/ NoNode(w) \/ ExecuteOnly(w) \/ LaunchConflict(w)
           PROVE Moves
      BY <2>13, KeptMoves DEF PickNode, NoNode, ExecuteOnly, LaunchConflict, tables
    <2>14. ASSUME NEW s \in Service, SkipService(s) \/ DeploymentFails(s) PROVE Moves
      BY <2>14, KeptMoves DEF SkipService, DeploymentFails, tables
    <2>15. ASSUME NEW n \in Node, ReconcileNode(n) PROVE Moves
      BY <2>15, KeptMoves DEF ReconcileNode, tables
    <2>16. CASE ListServices \/ ListNodes \/ NodesDone \/ NodeDone \/ ServicesDone
                \/ ReserveFails \/ ExecuteDone
      BY <2>16, KeptMoves
      DEF ListServices, ListNodes, NodesDone, NodeDone, ServicesDone, ReserveFails,
          ExecuteDone, tables
    <2>17. QED
      BY <1>3, <2>1, <2>2, <2>3, <2>4, <2>5, <2>6, <2>7, <2>8, <2>9, <2>10, <2>11, <2>12,
         <2>13, <2>14, <2>15, <2>16
      DEF CycleStep
  <1>4. CASE UNCHANGED vars
    BY <1>4, KeptMoves DEF vars, tables
  <1>5. QED BY <1>1, <1>2, <1>3, <1>4 DEF Next

\* What a step may do to the row of s: the version does not shrink, nobody
\* brings the service back, it is DELETED only by a deletion that found no
\* workload of it unfinished and had read it as DELETING, its deployment
\* becomes FAILED only at the end of a visit and leaves FAILED only with a new
\* version.
ServiceAges(s, old, new) ==
    /\ old.version <= new.version
    /\ new.status = "ABSENT" => new.version = 0
    /\ old.status \in {"ACTIVE", "DELETING"} =>
          new.status \in {"ACTIVE", "DELETING", "DELETED"}
    /\ new.status = "DELETED" =>
          \/ old.status = "DELETED"
          \/ /\ UnfinishedWorkloads(s) = {} /\ workloads' = workloads
             /\ snap[s].status # "ACTIVE"
    /\ new.deployment = "FAILED" => old.deployment = "FAILED" \/ snap'[s] = AbsentService
    /\ old.deployment = "FAILED" => new.deployment = "FAILED" \/ new.version > old.version

\* Every row of the services table ages in this step.
ServicesAge == \A s \in Service : ServiceAges(s, services[s], services'[s])

\* The snapshot only loses services, unless it is read anew.
SnapshotAges ==
    \/ \A s \in Service : snap'[s] \in {snap[s], AbsentService}
    \/ snap' = services /\ services' = services

\* A step that does not write the services table.
LEMMA KeptServicesAge ==
  ASSUME StoreTypeOK, SnapshotOK, services' = services
  PROVE  ServicesAge
  BY DEF ServicesAge, ServiceAges, SnapshotOK, StoreTypeOK, ServiceRow

\* A step that writes one row of the services table.
LEMMA OneServiceAges ==
  ASSUME StoreTypeOK, SnapshotOK, NEW s \in Service, NEW new,
         services' = [services EXCEPT ![s] = new], ServiceAges(s, services[s], new)
  PROVE  ServicesAge
  BY DEF ServicesAge, ServiceAges, SnapshotOK, StoreTypeOK, ServiceRow

\* The API handlers age the services table: create, update and delete.
LEMMA ClientServices == ASSUME Shape, SnapshotOK, ClientStep PROVE ServicesAge
  <1> USE DEF Shape, TypeOK
  <1>1. ASSUME NEW n, NEW cap, registerNode(n, cap) PROVE ServicesAge
    BY <1>1, KeptServicesAge DEF registerNode, RegisterNode
  <1>2. ASSUME NEW n, heartbeat(n) PROVE ServicesAge
    BY <1>2, KeptServicesAge DEF heartbeat, UpdateHeartbeat
  <1>3. ASSUME NEW s \in Service, NEW replicas, NEW req, NEW strategy,
               createService(s, replicas, req, strategy)
        PROVE ServicesAge
    <2> DEFINE row == [status |-> "ACTIVE", version |-> 1,
                       deployment |-> "AVAILABLE", started |-> FALSE,
                       replicas |-> replicas, surge |-> strategy.surge,
                       unavailable |-> strategy.unavailable, req |-> req]
    <2>1. services[s].status = "ABSENT" /\ services' = [services EXCEPT ![s] = row]
      BY <1>3 DEF createService, CreateService
    <2>2. row.status = "ACTIVE" /\ row.version = 1 /\ row.deployment = "AVAILABLE"
      OBVIOUS
    <2>3. services[s].version = 0
      BY <2>1 DEF SnapshotOK
    <2> HIDE DEF row
    <2>4. ServiceAges(s, services[s], row)
      BY <2>1, <2>2, <2>3 DEF ServiceAges
    <2>5. QED BY <2>1, <2>4, OneServiceAges
  <1>4. ASSUME NEW s \in Service, NEW replicas, NEW req, NEW newImage \in BOOLEAN,
               updateService(s, replicas, req, newImage)
        PROVE ServicesAge
    <2> DEFINE old == services[s]
               version == IF newImage THEN old.version + 1 ELSE old.version
               deployment == IF newImage THEN "PROGRESSING" ELSE old.deployment
               started == old.started \/ newImage
               new == [old EXCEPT !.replicas = replicas, !.req = req, !.version = version,
                                  !.deployment = deployment, !.started = started]
    <2>1. services' = [services EXCEPT ![s] = new] /\ old.status # "ABSENT"
      BY <1>4 DEF updateService, UpdateService
    <2>2. old \in ServiceRow
      BY DEF StoreTypeOK
    <2>3. version \in Nat /\ old.version <= version
      BY <2>2 DEF ServiceRow
    <2>4. new.status = old.status /\ new.version = version /\ new.deployment = deployment
      <3> HIDE DEF old, version, deployment, started
      <3>1. QED BY <2>2 DEF ServiceRow
    <2>5. deployment = "FAILED" => old.deployment = "FAILED"
      OBVIOUS
    <2>6. old.deployment = "FAILED" => deployment = "FAILED" \/ version > old.version
      BY <2>2 DEF ServiceRow
    <2> HIDE DEF new, version, deployment
    <2>7. ServiceAges(s, services[s], new)
      BY <2>1, <2>2, <2>3, <2>4, <2>5, <2>6 DEF ServiceAges, ServiceRow
    <2>8. QED BY <2>1, <2>7, OneServiceAges
  <1>5. ASSUME NEW s \in Service, deleteService(s) PROVE ServicesAge
    <2> DEFINE new == [services[s] EXCEPT !.status = "DELETING"]
    <2>1. services' = [services EXCEPT ![s] = new]
      BY <1>5 DEF deleteService, MarkServiceDeleting
    <2>2. ServiceAges(s, services[s], new)
      BY DEF ServiceAges, StoreTypeOK, ServiceRow
    <2> HIDE DEF new
    <2>3. QED BY <2>1, <2>2, OneServiceAges
  <1>6. QED BY <1>1, <1>2, <1>3, <1>4, <1>5 DEF ClientStep

\* Nothing that goes wrong writes the services table.
LEMMA FaultServices == ASSUME Shape, SnapshotOK, FaultStep PROVE ServicesAge
  <1> USE DEF Shape, TypeOK
  <1>1. CASE ReplicasFail
    <2>1. services' = services
      BY <1>1 DEF ReplicasFail, ReplicaControllerPart, CreatePendingWorkloads, StopWorkloads
    <2>2. QED BY <2>1, KeptServicesAge
  <1>2. ASSUME NEW w \in Workload, LaunchFails(w) PROVE ServicesAge
    <2>1. services' = services
      BY <1>2 DEF LaunchFails, tables, MarkWorkloadFailedAndReleaseResources, FinishAndRelease
    <2>2. QED BY <2>1, KeptServicesAge
  <1>3. CASE ~ReplicasFail /\ \A w \in Workload : ~LaunchFails(w)
    <2>1. services' = services
      BY <1>3
      DEF FaultStep, markUnhealthy, SetNodeStatus, NodeCallFails, ContainerExits,
          ContainerRemoved, StopTrackedFails, LookupFails, StopFails, NodeAborted, ServiceFails,
          ListingFails, Crash, tables
    <2>2. QED BY <2>1, KeptServicesAge
  <1>4. QED BY <1>1, <1>2, <1>3

\* The reconciler ages the services table: it writes the deployment status,
\* and the end of a deletion.
LEMMA CycleServices ==
  ASSUME Shape, SnapshotOK, VisitOK, FailureSeen, CycleStep
  PROVE  ServicesAge
  <1> USE DEF Shape, TypeOK, CursorOK
  <1>1. ASSUME NEW s \in Service, ReconcileDeletion(s) PROVE ServicesAge
    <2>1. snap[s].status = "DELETING"
      BY <1>1 DEF ReconcileDeletion
    <2>2. CASE services' = services
      BY <2>2, KeptServicesAge
    <2>3. CASE UnfinishedWorkloads(s) = {} /\ MarkServiceDeleted(s)
      <3> DEFINE new == [services[s] EXCEPT !.status = "DELETED"]
      <3>1. services' = [services EXCEPT ![s] = new] /\ workloads' = workloads
        BY <2>3 DEF MarkServiceDeleted
      <3>2. /\ new.status = "DELETED" /\ new.version = services[s].version
            /\ new.deployment = services[s].deployment
        BY DEF StoreTypeOK, ServiceRow
      <3> HIDE DEF new
      <3>3. ServiceAges(s, services[s], new)
        BY <2>1, <2>3, <3>1, <3>2 DEF ServiceAges, StoreTypeOK, ServiceRow
      <3>4. QED BY <3>1, <3>3, OneServiceAges
    <2>4. QED
      BY <1>1, <2>2, <2>3
      DEF ReconcileDeletion, DeletionController, DeletionControllerPart, StopWorkloads
  <1>2. CASE ReconcileStatus
    <2>1. curService \in Service
      BY <1>2 DEF ReconcileStatus
    <2>2. CASE services' = services
      BY <2>2, KeptServicesAge
    <2>3. ASSUME NEW status, UpdateDeploymentStatus(curService, status),
                 snap[curService].deployment # "FAILED"
          PROVE ServicesAge
      <3> DEFINE new == [services[curService] EXCEPT !.deployment = status]
      <3>1. services' = [services EXCEPT ![curService] = new]
        BY <2>3 DEF UpdateDeploymentStatus
      <3>2. /\ new.status = services[curService].status
            /\ new.version = services[curService].version
        BY <2>1 DEF StoreTypeOK, ServiceRow
      <3> HIDE DEF new
      <3>3. services[curService].deployment # "FAILED"
        BY <1>2, <2>1, <2>3 DEF ReconcileStatus, VisitOK, FailureSeen
      <3>4. snap'[curService] = AbsentService
        BY <1>2, <2>1 DEF ReconcileStatus, LeaveService
      <3>5. ServiceAges(curService, services[curService], new)
        BY <2>1, <3>2, <3>3, <3>4 DEF ServiceAges, SnapshotOK, StoreTypeOK, ServiceRow
      <3>6. QED BY <2>1, <3>1, <3>5, OneServiceAges
    <2>4. QED BY <1>2, <2>2, <2>3 DEF ReconcileStatus, DeploymentStatusController, tables
  <1>3. ASSUME NEW s \in Service, ReconcileDeployment(s) PROVE services' = services
    BY <1>3
    DEF ReconcileDeployment, DeploymentController, CreatePendingWorkloads, StopWorkloads, tables
  <1>4. ASSUME ReconcileReplicas PROVE services' = services
    BY <1>4
    DEF ReconcileReplicas, ReplicaController, CreatePendingWorkloads, StopWorkloads, tables
  <1>5. ASSUME NEW w \in Workload,
               \/ StopTracked(w) \/ SyncTracked(w) \/ FailMissing(w)
               \/ PickNode(w) \/ NoNode(w) \/ ExecuteOnly(w)
               \/ Launch(w) \/ LaunchConflict(w) \/ Stop(w)
        PROVE services' = services
    BY <1>5
    DEF StopTracked, SyncTracked, FailMissing, PickNode, NoNode, ExecuteOnly, Launch,
        LaunchConflict, Stop, UpdateWorkloadActualState, MarkWorkloadRunning,
        MarkWorkloadFailedAndReleaseResources, MarkWorkloadStoppedAndReleaseResources,
        FinishAndRelease, tables
  <1>6. ASSUME NEW n \in Node, RecoverNode(n) \/ ReconcileNode(n) PROVE services' = services
    BY <1>6 DEF RecoverNode, RecoverWorkloadsFromNode, ReconcileNode, tables
  <1>7. ASSUME NEW s \in Service, SkipService(s) \/ DeploymentFails(s)
        PROVE services' = services
    BY <1>7 DEF SkipService, DeploymentFails, tables
  <1>8. ASSUME \/ ListServices \/ ListNodes \/ NodesDone \/ NodeDone \/ ServicesDone
               \/ ReplicasOutOfIds \/ Reserve \/ ReserveFails \/ ExecuteDone
        PROVE services' = services
    BY <1>8
    DEF ListServices, ListNodes, NodesDone, NodeDone, ServicesDone, ReplicasOutOfIds,
        CreatePendingWorkloads, Reserve, ReserveNodeForWorkload, ReserveFails, ExecuteDone,
        tables
  <1>9. QED
    BY <1>1, <1>2, <1>3, <1>4, <1>5, <1>6, <1>7, <1>8, KeptServicesAge DEF CycleStep

\* Every step ages the snapshot of the services.
LEMMA StepSnapshot == ASSUME Shape, [Next]_vars PROVE SnapshotAges
  <1> USE DEF Shape, TypeOK, CursorOK
  <1>1. ASSUME snap' = snap PROVE SnapshotAges
    BY <1>1 DEF SnapshotAges
  <1>2. ASSUME NEW s \in Service, LeaveService(s) PROVE SnapshotAges
    BY <1>2 DEF LeaveService, SnapshotAges
  <1>3. CASE ClientStep
    BY <1>1, <1>3
    DEF ClientStep, registerNode, heartbeat, createService, updateService, deleteService,
        Outside, local
  <1>4. CASE FaultStep
    <2>1. CASE Crash
      BY <2>1 DEF Crash, SnapshotAges
    <2>2. CASE ReplicasFail \/ ServiceFails
      BY <1>2, <2>2 DEF ReplicasFail, ServiceFails
    <2>3. CASE ~Crash /\ ~ReplicasFail /\ ~ServiceFails
      <3>1. snap' = snap
        BY <1>4, <2>3
        DEF FaultStep, markUnhealthy, NodeCallFails, ContainerExits, ContainerRemoved,
            StopTrackedFails, LookupFails, LaunchFails, StopFails, Executed, NodeAborted, LeaveNode,
            ListingFails, Outside, local
      <3>2. QED BY <1>1, <3>1
    <2>4. QED BY <2>1, <2>2, <2>3
  <1>5. CASE CycleStep
    <2>1. CASE ListServices
      BY <2>1 DEF ListServices, SnapshotAges, tables
    <2>2. ASSUME NEW s \in Service, SkipService(s) \/ DeploymentFails(s) PROVE SnapshotAges
      BY <1>2, <2>2 DEF SkipService, DeploymentFails
    <2>3. CASE ReplicasOutOfIds \/ ReconcileStatus \/ ExecuteDone
      BY <1>1, <1>2, <2>3 DEF ReplicasOutOfIds, ReconcileStatus, ExecuteDone
    <2>4. ASSUME NEW s \in Service, ReconcileDeletion(s) \/ ReconcileDeployment(s)
          PROVE SnapshotAges
      BY <1>1, <2>4 DEF ReconcileDeletion, ReconcileDeployment
    <2>5. ASSUME NEW w \in Workload,
                 \/ StopTracked(w) \/ SyncTracked(w) \/ FailMissing(w)
                 \/ PickNode(w) \/ NoNode(w) \/ ExecuteOnly(w)
                 \/ Launch(w) \/ LaunchConflict(w) \/ Stop(w)
          PROVE SnapshotAges
      BY <1>1, <2>5
      DEF StopTracked, SyncTracked, FailMissing, PickNode, NoNode, ExecuteOnly, Launch,
          LaunchConflict, Stop, Executed, local
    <2>6. ASSUME NEW n \in Node, RecoverNode(n) \/ ReconcileNode(n) PROVE SnapshotAges
      BY <1>1, <2>6 DEF RecoverNode, ReconcileNode
    <2>7. CASE \/ ListNodes \/ NodesDone \/ NodeDone \/ ServicesDone
               \/ ReconcileReplicas \/ Reserve \/ ReserveFails
      BY <1>1, <2>7
      DEF ListNodes, NodesDone, NodeDone, LeaveNode, ServicesDone, ReconcileReplicas,
          Reserve, ReserveFails
    <2>8. QED
      BY <1>5, <2>1, <2>2, <2>3, <2>4, <2>5, <2>6, <2>7 DEF CycleStep
  <1>6. CASE UNCHANGED vars
    BY <1>1, <1>6 DEF vars, local
  <1>7. QED BY <1>3, <1>4, <1>5, <1>6 DEF Next

\* From the ways in which the tables and the snapshot age follows what
\* relates them: a stale ACTIVE snapshot is never of a DELETED service, so
\* nothing is inserted for one, and no snapshot or row is ahead of its
\* service.
LEMMA HistoryKept ==
  ASSUME TypeOK, TypeOK', SnapshotOK, FailureSeen, DeletedHasNoWork, VersionsBounded,
         ServicesAge, SnapshotAges, Ages \/ Inserts
  PROVE  SnapshotOK' /\ FailureSeen' /\ DeletedHasNoWork' /\ VersionsBounded'
  <1>1. \A s \in Service : snap[s].version \in Nat /\ services[s].version \in Nat
                             /\ services'[s].version \in Nat
    BY DEF TypeOK, StoreTypeOK, ServiceRow
  <1>2. \A w \in Workload : workloads[w].version \in Nat
    BY DEF TypeOK, StoreTypeOK, WorkloadRow
  <1>3. SnapshotOK'
    BY DEF SnapshotOK, ServicesAge, ServiceAges, SnapshotAges, AbsentService
  <1>4. FailureSeen'
    BY DEF FailureSeen, ServicesAge, ServiceAges, SnapshotAges, AbsentService
  <1>5. \A s \in Service : snap'[s].version <= services'[s].version
    BY <1>1 DEF VersionsBounded, SnapshotAges, ServicesAge, ServiceAges, AbsentService
  <1>6. CASE Ages
    <2>1. VersionsBounded'
      BY <1>1, <1>2, <1>5, <1>6
      DEF VersionsBounded, ServicesAge, ServiceAges, Ages, RowAges
    <2>2. \A s \in Service : UnfinishedWorkloads(s)' \subseteq UnfinishedWorkloads(s)
      BY <1>6
      DEF UnfinishedWorkloads, ListWorkloadsByService, Ages, RowAges, TypeOK, StoreTypeOK,
          WorkloadRow, Unfinished, Finished
    <2>3. DeletedHasNoWork'
      BY <2>2 DEF DeletedHasNoWork, ServicesAge, ServiceAges
    <2>4. QED BY <1>3, <1>4, <2>1, <2>3
  <1>7. CASE Inserts
    <2>1. PICK s \in Service, ids \in SUBSET FreeWorkload :
             snap[s].status = "ACTIVE" /\ CreatePendingWorkloads(ids, s, snap[s])
      BY <1>7 DEF Inserts
    <2>2. services' = services /\ services[s].status # "DELETED"
      BY <2>1 DEF CreatePendingWorkloads, SnapshotOK
    <2>3. \A w \in Workload :
             \/ workloads'[w] = workloads[w]
             \/ workloads'[w].service = s /\ workloads'[w].version = snap[s].version
      BY <2>1 DEF CreatePendingWorkloads, PendingRow
    <2>4. VersionsBounded'
      BY <1>1, <1>2, <1>5, <2>2, <2>3 DEF VersionsBounded
    <2>5. DeletedHasNoWork'
      BY <2>2, <2>3 DEF DeletedHasNoWork, UnfinishedWorkloads, ListWorkloadsByService
    <2>6. QED BY <1>3, <1>4, <2>4, <2>5
  <1>8. QED BY <1>6, <1>7

\* The invariant is the conjunction of the parts treated above.
LEMMA InvParts ==
  Inv <=> /\ Known /\ VisitOK /\ SnapshotOK /\ FailureSeen
          /\ DeletedHasNoWork /\ VersionsBounded
  BY DEF Inv, Known, Shape, Rows, Loop

\* The invariant holds initially.
LEMMA InitInv == Init => Inv
  <1> SUFFICES ASSUME Init PROVE Inv
    OBVIOUS
  <1>1. TypeOK /\ CursorOK
    BY InitType DEF Init, LocalInit, CursorOK
  <1>2. RowsConsistent
    BY DEF Init, StoreInit, AbsentWorkload, RowsConsistent, RowConsistent
  <1>3. RecordedWasStarted /\ FinishedNotRunning
    BY DEF Init, StoreInit, AbsentWorkload, RecordedWasStarted, FinishedNotRunning, Finished
  <1>4. ListingOK /\ PendOK /\ TodoOK /\ ReserveOK /\ VisitOK
    BY DEF Init, LocalInit, ListingOK, PendOK, TodoOK, ReserveOK, VisitOK
  <1>5. SnapshotOK /\ FailureSeen
    BY DEF Init, StoreInit, LocalInit, SnapshotOK, FailureSeen, AbsentService
  <1>6. DeletedHasNoWork
    BY DEF Init, StoreInit, DeletedHasNoWork, AbsentService
  <1>7. VersionsBounded
    BY DEF Init, StoreInit, LocalInit, VersionsBounded, AbsentService, AbsentWorkload
  <1>8. QED BY <1>1, <1>2, <1>3, <1>4, <1>5, <1>6, <1>7 DEF Inv

\* Every step keeps the invariant.
LEMMA InvStep == Inv /\ [Next]_vars => Inv'
  <1> SUFFICES ASSUME Inv, [Next]_vars PROVE Inv'
    OBVIOUS
  <1>1. /\ Known /\ VisitOK /\ SnapshotOK /\ FailureSeen
        /\ DeletedHasNoWork /\ VersionsBounded
    BY InvParts
  <1>2. Shape'
    BY <1>1, ShapeStep DEF Known
  <1>3. Rows' /\ Loop'
    <2>1. CASE CycleStep
      BY <1>1, <2>1, NodePhaseKnown, ServicePhaseKnown DEF CycleStep
    <2>2. CASE FaultStep
      BY <1>1, <2>2, FaultKnown
    <2>3. CASE ClientStep
      BY <1>1, <2>3, ClientKnown
    <2>4. CASE UNCHANGED vars
      BY <1>1, <2>4, RowsKept, LoopKept DEF Known, Shape, CursorOK, vars, tables
    <2>5. QED BY <2>1, <2>2, <2>3, <2>4 DEF Next
  <1>4. VisitOK'
    BY <1>1, VisitKept DEF Known
  <1>5. ServicesAge
    <2>1. CASE UNCHANGED vars
      BY <1>1, <2>1, KeptServicesAge DEF Known, Shape, TypeOK, vars, tables
    <2>2. QED
      BY <1>1, <2>1, ClientServices, FaultServices, CycleServices DEF Known, Next
  <1>6. SnapshotAges /\ (Ages \/ Inserts)
    BY <1>1, <1>2, StepSnapshot, StepMoves, MovesAge DEF Known, Shape, TypeOK
  <1>7. SnapshotOK' /\ FailureSeen' /\ DeletedHasNoWork' /\ VersionsBounded'
    BY <1>1, <1>2, <1>5, <1>6, HistoryKept DEF Known, Shape
  <1>8. QED
    BY <1>2, <1>3, <1>4, <1>7 DEF Inv, Shape, Rows, Loop

\* The inductive invariant holds in every reachable state: what the
\* reconciler's goroutine knows from its stale listings and snapshots stays
\* true while the API, the health checker, the engines and failures
\* interleave with it.
THEOREM InvariantHolds == Spec => []Inv
  BY InitInv, InvStep, PTL DEF Spec

\* The columns of every workload row agree with each other in every reachable
\* state, whatever fails between two transactions.
THEOREM RowsStayConsistent == Spec => []RowsConsistent
  <1>1. Inv => RowsConsistent
    BY DEF Inv
  <1>2. QED BY <1>1, InvariantHolds, PTL

\* A DELETED service never again has an unfinished workload, although the
\* controllers work from snapshots taken before the deletion.
THEOREM DeletedStaysEmpty == Spec => []DeletedHasNoWork
  <1>1. Inv => DeletedHasNoWork
    BY DEF Inv
  <1>2. QED BY <1>1, InvariantHolds, PTL

\* No workload and no snapshot is of a later version than its service.
THEOREM VersionsStayBounded == Spec => []VersionsBounded
  <1>1. Inv => VersionsBounded
    BY DEF Inv
  <1>2. QED BY <1>1, InvariantHolds, PTL

\* A workload recorded as FAILED or STOPPED has no running container under
\* its container id.
THEOREM FinishedNeverRuns == Spec => []FinishedNotRunning
  <1>1. Inv => FinishedNotRunning
    BY DEF Inv
  <1>2. QED BY <1>1, InvariantHolds, PTL

\* No step of recovery, scheduling, execution or runtime reconciliation makes
\* a finished workload unfinished again.
THEOREM FinishedStaysFinished == Spec => FinishedIsFinal
  <1> DEFINE Final == \A w \in Workload : workloads[w].actual \in Finished
                                             => workloads'[w].actual \in Finished
  <1>1. Inv /\ [Next]_vars => Final
    <2> SUFFICES ASSUME Inv, [Next]_vars PROVE Final
      OBVIOUS
    <2>1. Ages \/ Inserts
      BY InvParts, InvStep, StepMoves, MovesAge DEF Inv, TypeOK
    <2>2. CASE Ages
      BY <2>2 DEF Ages, RowAges
    <2>3. CASE Inserts
      BY <2>3 DEF Inserts, CreatePendingWorkloads, FreeWorkload, Finished
    <2>4. QED BY <2>1, <2>2, <2>3
  <1>2. QED
    BY <1>1, InvariantHolds, PTL DEF Spec, FinishedIsFinal

-----------------------------------------------------------------------------
(* What follows from the way the tables move in one step (Moves, Inserts,  *)
(* ServicesAge): the control plane implements WorkloadLife, and a FAILED   *)
(* deployment is left alone until it gets a new version.                   *)

\* What every step from a state of the invariant is known to do.
LEMMA StepKnown ==
  ASSUME Inv, [Next]_vars
  PROVE  /\ Moves \/ Inserts
         /\ ServicesAge
         /\ StoreTypeOK /\ StoreTypeOK'
         /\ FailureSeen
  <1>1. Inv'
    BY InvStep
  <1>2. /\ Known /\ VisitOK /\ SnapshotOK /\ FailureSeen
        /\ Shape /\ StoreTypeOK /\ StoreTypeOK'
    BY <1>1, InvParts DEF Known, Shape, TypeOK, Inv
  <1>3. ServicesAge
    <2>1. CASE UNCHANGED vars
      BY <1>2, <2>1, KeptServicesAge DEF vars, tables
    <2>2. QED BY <1>2, <2>1, ClientServices, FaultServices, CycleServices DEF Next
  <1>4. QED BY <1>2, <1>3, StepMoves

\* A step in which at most one workload moves on is a step of WorkloadLife.
LEMMA MovesImplement == ASSUME Moves PROVE [Life!Next]_(Life!vars)
  <1>1. CASE \A w \in Workload : SameLife(workloads[w], workloads'[w])
    BY <1>1 DEF Life!vars, SameLife, SameJob
  <1>2. CASE OneMoves
    <2>1. PICK w \in Workload :
             /\ RowMoves(workloads[w], workloads'[w])
             /\ \A v \in Workload \ {w} : SameLife(workloads[v], workloads'[v])
      BY <1>2 DEF OneMoves
    <2>2. \A v \in Workload : jobOf(workloads'[v]) = jobOf(workloads[v])
      BY <2>1 DEF RowMoves, SameLife, SameJob
    <2>3. \A v \in Workload \ {w} : /\ stageOf(workloads'[v]) = stageOf(workloads[v])
                                    /\ placeOf(workloads'[v]) = placeOf(workloads[v])
      BY <2>1 DEF SameLife
    <2>4. CASE /\ stageOf(workloads[w]) = "waiting" /\ stageOf(workloads'[w]) = "placed"
               /\ placeOf(workloads'[w]) \in Node
      <3>1. Life!Place(w, placeOf(workloads'[w]))
        BY <2>2, <2>3, <2>4 DEF Life!Place
      <3>2. QED BY <2>4, <3>1 DEF Life!Next
    <2>5. CASE /\ stageOf(workloads[w]) = "placed" /\ stageOf(workloads'[w]) = "running"
               /\ placeOf(workloads'[w]) = placeOf(workloads[w])
      <3>1. Life!Start(w)
        BY <2>2, <2>3, <2>5 DEF Life!Start
      <3>2. QED BY <3>1 DEF Life!Next
    <2>6. CASE /\ stageOf(workloads[w]) \in {"waiting", "placed", "running"}
               /\ stageOf(workloads'[w]) = "finished"
               /\ placeOf(workloads'[w]) = Null
      <3>1. Life!Finish(w)
        BY <2>2, <2>3, <2>6 DEF Life!Finish
      <3>2. QED BY <3>1 DEF Life!Next
    <2>7. QED BY <2>1, <2>4, <2>5, <2>6 DEF RowMoves
  <1>3. CASE NodeEvicted
    <2>1. PICK n \in Node : \A w \in Workload : RowEvicted(n, workloads[w], workloads'[w])
      BY <1>3 DEF NodeEvicted
    <2>2. Life!Evict(n)
      BY <2>1 DEF Life!Evict, RowEvicted, SameJob
    <2>3. QED BY <2>2 DEF Life!Next
  <1>4. QED BY <1>1, <1>2, <1>3 DEF Moves

\* The insertion of pending rows is the creation of workloads.
LEMMA InsertsImplement == ASSUME Inserts PROVE Life!Next
  <1>1. PICK s \in Service, ids \in SUBSET FreeWorkload :
           CreatePendingWorkloads(ids, s, snap[s])
    BY DEF Inserts
  <1> DEFINE row == PendingRow(s, snap[s])
  <1>2. row.actual = "PENDING" /\ row.node = Null
    BY DEF PendingRow
  <1>3. stageOf(row) = "waiting" /\ placeOf(row) = Null
    BY <1>2 DEF stageOf, placeOf, Finished, Unfinished
  <1>4. \A w \in Workload : workloads'[w] = IF w \in ids THEN row ELSE workloads[w]
    BY <1>1 DEF CreatePendingWorkloads
  <1>5. ids \subseteq Workload /\ \A w \in ids : workloads[w].actual = "ABSENT"
    BY <1>1 DEF FreeWorkload
  <1>6. \A w \in ids : stageOf(workloads[w]) = "none" /\ placeOf(workloads[w]) = Null
    BY <1>5 DEF stageOf, placeOf, Finished, Unfinished
  <1> HIDE DEF row
  <1>7. Life!Create(ids)
    BY <1>3, <1>4, <1>5, <1>6 DEF Life!Create
  <1>8. QED BY <1>5, <1>7 DEF Life!Next

\* The control plane implements WorkloadLife, for any number of nodes,
\* services, workloads, faults and updates: crashes, lost answers, stale
\* snapshots and recovered nodes never place a workload twice, start it where
\* it is not placed, take it up again or turn it into another one.
THEOREM LifeImplemented == Spec => ImplementsLife
  <1>1. Init => Life!Init
    BY DEF Init, StoreInit, AbsentWorkload, Life!Init, stageOf, placeOf, Unfinished, Finished
  <1>2. Inv /\ [Next]_vars => [Life!Next]_(Life!vars)
    BY StepKnown, MovesImplement, InsertsImplement
  <1>3. QED BY <1>1, <1>2, InvariantHolds, PTL DEF Spec, ImplementsLife, Life!Spec

\* A FAILED deployment stays FAILED and gets no workload until a client brings
\* a new version: neither the status nor a controller of a cycle that began
\* before the failure reaches past it.
THEOREM FailureIsFrozen == Spec => FailedUntilNewVersion
  <1> DEFINE Frozen ==
        \A s \in Service : services[s].deployment = "FAILED" =>
            /\ \/ services'[s].deployment = "FAILED"
               \/ services'[s].version > services[s].version
            /\ \A w \in Workload : workloads'[w].service = s => workloads[w].service = s
  <1>1. Inv /\ [Next]_vars => Frozen
    <2> SUFFICES ASSUME Inv, [Next]_vars,
                        NEW s \in Service, services[s].deployment = "FAILED"
                 PROVE  /\ \/ services'[s].deployment = "FAILED"
                           \/ services'[s].version > services[s].version
                        /\ \A w \in Workload :
                              workloads'[w].service = s => workloads[w].service = s
      OBVIOUS
    <2>1. \/ services'[s].deployment = "FAILED"
          \/ services'[s].version > services[s].version
      BY StepKnown DEF ServicesAge, ServiceAges
    <2>2. CASE Moves
      BY <2>1, <2>2, StepKnown, MovesAge DEF Ages, RowAges
    <2>3. CASE Inserts
      <3>1. PICK t \in Service, ids \in SUBSET FreeWorkload :
               /\ snap[t].status = "ACTIVE" /\ snap[t].deployment # "FAILED"
               /\ CreatePendingWorkloads(ids, t, snap[t])
        BY <2>3 DEF Inserts
      <3>2. t # s
        BY <3>1, StepKnown DEF FailureSeen
      <3>3. \A w \in Workload : workloads'[w] = workloads[w] \/ workloads'[w].service = t
        BY <3>1 DEF CreatePendingWorkloads, PendingRow
      <3>4. QED BY <2>1, <3>2, <3>3
    <2>4. QED BY <2>2, <2>3, StepKnown
  <1>2. QED BY <1>1, InvariantHolds, PTL DEF Spec, FailedUntilNewVersion
=============================================================================
