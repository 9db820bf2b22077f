---------------------------- MODULE LimitProofs ----------------------------
(***************************************************************************)
(* The limits the control plane keeps to.  The allocation of a node grows  *)
(* by checked reservations only and is never more than the workloads       *)
(* placed on it asked for.  A rolling update never has more workloads      *)
(* active, or fewer in service, than its strategy allows: Undisturbed and  *)
(* Calm say in which behaviours the two limits hold.                       *)
(***************************************************************************)
EXTENDS InvariantProofs, FoldProofs

\* The allocation of n does not grow in this step, or its reservation was
\* checked.
AllocationChecked(n) ==
    \/ nodes'[n].alloc.cpu > nodes[n].alloc.cpu
    \/ nodes'[n].alloc.mem > nodes[n].alloc.mem
    => /\ nodes[n].status = "READY"
       /\ nodes'[n].alloc.cpu <= nodes[n].cap.cpu
       /\ nodes'[n].alloc.mem <= nodes[n].cap.mem

\* The same of every node.
Checked == \A n \in Node : AllocationChecked(n)

\* A step that changes no allocation.
LEMMA KeptChecked ==
  ASSUME StoreTypeOK, \A n \in Node : nodes'[n].alloc = nodes[n].alloc
  PROVE  Checked
  BY DEF Checked, AllocationChecked, StoreTypeOK, NodeRow, Resources

\* A release shrinks the allocation of one node or leaves it.
LEMMA ReleasedChecked ==
  ASSUME StoreTypeOK, NEW w \in Workload, nodes' = nodes \/ nodes' = Released(w)
  PROVE  Checked
  <1>1. CASE nodes' = nodes \/ workloads[w].node = Null
    BY <1>1, KeptChecked DEF Released
  <1>2. CASE nodes' = Released(w) /\ workloads[w].node # Null
    <2> DEFINE m == workloads[w].node
               new == Minus(nodes[m].alloc, workloads[w].req)
    <2>1. m \in Node /\ workloads[w].req \in Resources /\ nodes[m].alloc \in Resources
      BY <1>2 DEF StoreTypeOK, WorkloadRow, NodeRow
    <2>2. \A n \in Node : nodes'[n].alloc = IF n = m THEN new ELSE nodes[n].alloc
      BY <1>2, <2>1 DEF Released, StoreTypeOK, NodeRow
    <2>3. new.cpu <= nodes[m].alloc.cpu /\ new.mem <= nodes[m].alloc.mem /\ new \in Resources
      BY <2>1 DEF Minus, Resources
    <2> HIDE DEF new, m
    <2>4. QED
      BY <2>1, <2>2, <2>3 DEF Checked, AllocationChecked, StoreTypeOK, NodeRow, Resources
  <1>3. QED BY <1>1, <1>2

\* A reservation reads the status and the free capacity of the node in the
\* transaction that takes it.
LEMMA ReservedChecked ==
  ASSUME StoreTypeOK, NEW w \in Workload, NEW m \in Node, ReserveNodeForWorkload(w, m)
  PROVE  Checked
  <1> DEFINE new == Plus(nodes[m].alloc, workloads[w].req)
  <1>1. workloads[w].req \in Resources /\ nodes[m].alloc \in Resources /\ nodes[m].cap \in Resources
    BY DEF StoreTypeOK, WorkloadRow, NodeRow
  <1>2. \A n \in Node : nodes'[n].alloc = IF n = m THEN new ELSE nodes[n].alloc
    BY DEF ReserveNodeForWorkload, StoreTypeOK, NodeRow
  <1>3. nodes[m].status = "READY" /\ new.cpu <= nodes[m].cap.cpu /\ new.mem <= nodes[m].cap.mem
    BY <1>1 DEF ReserveNodeForWorkload, Reservable, Fits, Plus, Resources
  <1> HIDE DEF new
  <1>4. QED
    BY <1>1, <1>2, <1>3 DEF Checked, AllocationChecked, StoreTypeOK, NodeRow, Resources

\* Recovery clears the allocation of a node.
LEMMA RecoveredChecked ==
  ASSUME StoreTypeOK, NEW m \in Node, RecoverWorkloadsFromNode(m)
  PROVE  Checked
  <1>1. \A n \in Node : nodes'[n].alloc = IF n = m THEN NoResources ELSE nodes[n].alloc
    BY DEF RecoverWorkloadsFromNode, StoreTypeOK, NodeRow
  <1>2. QED
    BY <1>1 DEF Checked, AllocationChecked, StoreTypeOK, NodeRow, Resources, NoResources

\* No step but a reservation makes an allocation grow.
LEMMA StepChecked == ASSUME Shape, [Next]_vars PROVE Checked
  <1> USE DEF Shape, TypeOK, CursorOK
  <1>0. ASSUME nodes' = nodes PROVE Checked
    BY <1>0, KeptChecked
  <1>1. CASE ClientStep
    <2>1. ASSUME NEW n \in Node, NEW cap, registerNode(n, cap) PROVE Checked
      <3>1. \A m \in Node : nodes'[m].alloc = nodes[m].alloc
        BY <2>1 DEF registerNode, RegisterNode, StoreTypeOK, NodeRow
      <3>2. QED BY <3>1, KeptChecked
    <2>2. ASSUME NEW n \in Node, heartbeat(n) PROVE Checked
      <3>1. \A m \in Node : nodes'[m].alloc = nodes[m].alloc
        BY <2>2 DEF heartbeat, UpdateHeartbeat, StoreTypeOK, NodeRow
      <3>2. QED BY <3>1, KeptChecked
    <2>3. ASSUME NEW s, NEW replicas, NEW req, NEW strategy,
                 createService(s, replicas, req, strategy)
          PROVE Checked
      BY <1>0, <2>3 DEF createService, CreateService
    <2>4. ASSUME NEW s, NEW replicas, NEW req, NEW newImage,
                 updateService(s, replicas, req, newImage)
          PROVE Checked
      BY <1>0, <2>4 DEF updateService, UpdateService
    <2>5. ASSUME NEW s, deleteService(s) PROVE Checked
      BY <1>0, <2>5 DEF deleteService, MarkServiceDeleting
    <2>6. QED BY <1>1, <2>1, <2>2, <2>3, <2>4, <2>5 DEF ClientStep
  <1>2. CASE FaultStep
    <2>1. ASSUME NEW n \in Node, markUnhealthy(n) PROVE Checked
      <3>1. \A m \in Node : nodes'[m].alloc = nodes[m].alloc
        BY <2>1 DEF markUnhealthy, SetNodeStatus, StoreTypeOK, NodeRow
      <3>2. QED BY <3>1, KeptChecked
    <2>2. ASSUME NEW w \in Workload, LaunchFails(w) PROVE Checked
      <3>1. nodes' = nodes \/ nodes' = Released(w)
        BY <2>2 DEF LaunchFails, tables, MarkWorkloadFailedAndReleaseResources, FinishAndRelease
      <3>2. QED BY <3>1, ReleasedChecked
    <2>3. CASE ReplicasFail
      BY <1>0, <2>3 DEF ReplicasFail, ReplicaControllerPart, CreatePendingWorkloads, StopWorkloads
    <2>4. CASE /\ ~ReplicasFail
               /\ \A w \in Workload : ~LaunchFails(w)
               /\ \A n \in Node : ~markUnhealthy(n)
      <3>1. nodes' = nodes
        BY <1>2, <2>4
        DEF FaultStep, NodeCallFails, ContainerExits, ContainerRemoved, StopTrackedFails,
            LookupFails, StopFails, NodeAborted, ServiceFails, ListingFails, Crash, tables
      <3>2. QED BY <1>0, <3>1
    <2>5. QED BY <2>1, <2>2, <2>3, <2>4
  <1>3. CASE CycleStep
    <2>1. ASSUME NEW n \in Node, RecoverNode(n) PROVE Checked
      BY <2>1, RecoveredChecked DEF RecoverNode
    <2>2. ASSUME NEW w \in Workload, SyncTracked(w) \/ FailMissing(w) \/ Stop(w) PROVE Checked
      <3>1. nodes' = nodes \/ nodes' = Released(w)
        BY <2>2
        DEF SyncTracked, FailMissing, Stop, MarkWorkloadFailedAndReleaseResources,
            MarkWorkloadStoppedAndReleaseResources, FinishAndRelease, UpdateWorkloadActualState
      <3>2. QED BY <3>1, ReleasedChecked
    <2>3. CASE Reserve
      BY <2>3, ReservedChecked DEF Reserve
    <2>4. ASSUME NEW s \in Service,
                 \/ SkipService(s) \/ DeploymentFails(s)
                 \/ ReconcileDeletion(s) \/ ReconcileDeployment(s)
          PROVE Checked
      BY <1>0, <2>4
      DEF SkipService, DeploymentFails, ReconcileDeletion, ReconcileDeployment,
          DeletionController, DeletionControllerPart, DeploymentController, MarkServiceDeleted,
          StopWorkloads, CreatePendingWorkloads, tables
    <2>5. CASE ReconcileReplicas \/ ReplicasOutOfIds \/ ReconcileStatus
      BY <1>0, <2>5
      DEF ReconcileReplicas, ReplicasOutOfIds, ReconcileStatus, ReplicaController,
          DeploymentStatusController, UpdateDeploymentStatus, StopWorkloads,
          CreatePendingWorkloads, tables
    <2>6. ASSUME NEW w \in Workload,
                 \/ StopTracked(w) \/ PickNode(w) \/ NoNode(w) \/ ExecuteOnly(w)
                 \/ Launch(w) \/ LaunchConflict(w)
          PROVE Checked
      BY <1>0, <2>6
      DEF StopTracked, PickNode, NoNode, ExecuteOnly, Launch, LaunchConflict,
          UpdateWorkloadActualState, MarkWorkloadRunning, tables
    <2>7. ASSUME NEW n \in Node, ReconcileNode(n) PROVE Checked
      BY <1>0, <2>7 DEF ReconcileNode, tables
    <2>8. CASE \/ ListServices \/ ListNodes \/ NodesDone \/ NodeDone \/ ServicesDone
               \/ ReserveFails \/ ExecuteDone
      BY <1>0, <2>8
      DEF ListServices, ListNodes, NodesDone, NodeDone, ServicesDone, ReserveFails,
          ExecuteDone, tables
    <2>9. QED
      BY <1>3, <2>1, <2>2, <2>3, <2>4, <2>5, <2>6, <2>7, <2>8 DEF CycleStep
  <1>4. CASE UNCHANGED vars
    BY <1>0, <1>4 DEF vars, tables
  <1>5. QED BY <1>1, <1>2, <1>3, <1>4 DEF Next

\* Whatever happens between the choice of a node by the scheduler and its
\* reservation, an allocation only grows on a node that is READY in that step
\* and only up to the capacity it has then.
THEOREM ReservationsChecked == Spec => ReservationChecked
  <1>1. Init => Shape
    BY InitType DEF Shape, Init, LocalInit, CursorOK
  <1>2. Shape /\ [Next]_vars => Shape'
    BY ShapeStep
  <1>3. Shape /\ [Next]_vars => Checked
    BY StepChecked
  <1>4. QED
    BY <1>1, <1>2, <1>3, PTL DEF Spec, ReservationChecked, Checked, AllocationChecked

-----------------------------------------------------------------------------
(* The books of a node.                                                    *)

\* The row of a workload that may hold a reservation on n, and all of them.
HoldsOn(row, n) == row.node = n /\ row.actual \in Unfinished \cup {"STOPPED"}
Holders(n) == {w \in Workload : HoldsOn(workloads[w], n)}

\* The requests of the workloads, in one dimension.
Asked(dim) == [w \in Workload |-> workloads[w].req[dim]]

\* NoPhantomReservation, with its sum over the holders.
LEMMA PhantomSum ==
  /\ NoPhantomReservation <=>
        \A n \in Node : \A dim \in {"cpu", "mem"} :
            nodes[n].alloc[dim] <= SumFunctionOnSet(Asked(dim), Holders(n))
  /\ NoPhantomReservation' <=>
        \A n \in Node : \A dim \in {"cpu", "mem"} :
            nodes'[n].alloc[dim] <= SumFunctionOnSet(Asked(dim)', Holders(n)')
  <1>1. \A n : {w \in ListWorkloadsByNode(n) :
                   workloads[w].actual \in Unfinished \cup {"STOPPED"}} = Holders(n)
    BY DEF ListWorkloadsByNode, Holders, HoldsOn, Unfinished
  <1>2. \A n : {w \in ListWorkloadsByNode(n)' :
                   workloads'[w].actual \in Unfinished \cup {"STOPPED"}} = Holders(n)'
    BY DEF ListWorkloadsByNode, Holders, HoldsOn, Unfinished
  <1>3. QED BY <1>1, <1>2, Zenon DEF NoPhantomReservation, Requested, Asked

\* The holders are finitely many and all the amounts are numbers.
Countable ==
    /\ \A n : IsFiniteSet(Holders(n)) /\ Holders(n) \subseteq Workload
    /\ \A dim \in {"cpu", "mem"} : \A w \in Workload : Asked(dim)[w] \in Nat
    /\ \A dim \in {"cpu", "mem"} : \A n : SumFunctionOnSet(Asked(dim), Holders(n)) \in Nat
    /\ \A dim \in {"cpu", "mem"} : \A n \in Node : nodes[n].alloc[dim] \in Nat

\* This follows from the types.
LEMMA HoldersFinite == StoreTypeOK => Countable
  <1> SUFFICES ASSUME StoreTypeOK PROVE Countable
    OBVIOUS
  <1>1. \A n : IsFiniteSet(Holders(n)) /\ Holders(n) \subseteq Workload
    <2>1. \A n : Holders(n) \in SUBSET Workload
      BY DEF Holders
    <2>2. QED BY <2>1, WorkloadAssumption, FS_Subset
  <1>2. \A dim \in {"cpu", "mem"} : \A w \in Workload : Asked(dim)[w] \in Nat
    BY DEF Asked, StoreTypeOK, WorkloadRow, Resources
  <1>3. \A dim \in {"cpu", "mem"} : \A n \in Node : nodes[n].alloc[dim] \in Nat
    BY DEF StoreTypeOK, NodeRow, Resources
  <1>4. ASSUME NEW dim \in {"cpu", "mem"}, NEW n
        PROVE  SumFunctionOnSet(Asked(dim), Holders(n)) \in Nat
    <2>1. \A w \in Holders(n) : Asked(dim)[w] \in Nat
      BY <1>1, <1>2
    <2>2. QED BY <1>1, <2>1, SumType
  <1>5. QED BY <1>1, <1>2, <1>3, <1>4 DEF Countable

\* And so it does after a step.
LEMMA HoldersFiniteNext == StoreTypeOK' => Countable'
  BY HoldersFinite, PTL

\* A step in which no allocation grows, and one in which nobody who holds a
\* reservation loses it or asks for something else.
Shrinks ==
    \A n \in Node : nodes'[n].alloc.cpu <= nodes[n].alloc.cpu /\ nodes'[n].alloc.mem <= nodes[n].alloc.mem
KeepsHolding ==
    \A w \in Workload : \A n \in Node : HoldsOn(workloads[w], n) =>
        HoldsOn(workloads'[w], n) /\ workloads'[w].req = workloads[w].req

\* Both together keep the books.
LEMMA PhantomKept ==
  ASSUME StoreTypeOK, StoreTypeOK', NoPhantomReservation, Shrinks, KeepsHolding
  PROVE  NoPhantomReservation'
  <1> SUFFICES ASSUME NEW n \in Node, NEW dim \in {"cpu", "mem"}
               PROVE  nodes'[n].alloc[dim] <= SumFunctionOnSet(Asked(dim)', Holders(n)')
    BY PhantomSum
  <1> DEFINE old == SumFunctionOnSet(Asked(dim), Holders(n))
             mid == SumFunctionOnSet(Asked(dim)', Holders(n))
             new == SumFunctionOnSet(Asked(dim)', Holders(n)')
  <1>1. nodes[n].alloc[dim] <= old
    BY PhantomSum
  <1>2. /\ Holders(n) \subseteq Holders(n)'
        /\ \A w \in Holders(n) : Asked(dim)'[w] = Asked(dim)[w]
    BY DEF KeepsHolding, Holders, Asked
  <1>3. mid = old
    <2>1. IsFiniteSet(Holders(n)) /\ \A w \in Holders(n) : Asked(dim)[w] \in Nat
      BY HoldersFinite DEF Countable
    <2>2. QED BY <1>2, <2>1, SumSame
  <1>4. mid <= new
    <2>1. IsFiniteSet(Holders(n)') /\ \A w \in Holders(n)' : Asked(dim)'[w] \in Nat
      BY HoldersFiniteNext DEF Countable
    <2>2. QED BY <1>2, <2>1, SumGrows
  <1>5. nodes'[n].alloc[dim] <= nodes[n].alloc[dim]
    BY DEF Shrinks
  <1>6. old \in Nat /\ new \in Nat /\ nodes[n].alloc[dim] \in Nat /\ nodes'[n].alloc[dim] \in Nat
    BY HoldersFinite, HoldersFiniteNext DEF Countable
  <1> HIDE DEF old, mid, new
  <1>7. nodes'[n].alloc[dim] <= new
    BY <1>1, <1>3, <1>4, <1>5, <1>6
  <1>8. QED BY <1>7 DEF new

\* A release makes no allocation grow.
LEMMA ReleasedShrinks ==
  ASSUME StoreTypeOK, NEW w \in Workload, nodes' = nodes \/ nodes' = Released(w)
  PROVE  Shrinks
  <1>1. CASE nodes' = nodes \/ workloads[w].node = Null
    BY <1>1 DEF Released, Shrinks, StoreTypeOK, NodeRow, Resources
  <1>2. CASE nodes' = Released(w) /\ workloads[w].node # Null
    <2> DEFINE m == workloads[w].node
               new == Minus(nodes[m].alloc, workloads[w].req)
    <2>1. m \in Node /\ workloads[w].req \in Resources /\ nodes[m].alloc \in Resources
      BY <1>2 DEF StoreTypeOK, WorkloadRow, NodeRow
    <2>2. \A n \in Node : nodes'[n].alloc = IF n = m THEN new ELSE nodes[n].alloc
      BY <1>2, <2>1 DEF Released, StoreTypeOK, NodeRow
    <2>3. new.cpu <= nodes[m].alloc.cpu /\ new.mem <= nodes[m].alloc.mem
      BY <2>1 DEF Minus, Resources
    <2> HIDE DEF new, m
    <2>4. QED BY <2>1, <2>2, <2>3 DEF Shrinks, StoreTypeOK, NodeRow, Resources
  <1>3. QED BY <1>1, <1>2

\* A workload that fails stops holding a reservation and gives it back, on the
\* one node it has it on.
LEMMA FailedPhantom ==
  ASSUME StoreTypeOK, StoreTypeOK', NoPhantomReservation, NEW w \in Workload,
         MarkWorkloadFailedAndReleaseResources(w)
  PROVE  NoPhantomReservation'
  <1> DEFINE m == workloads[w].node
  <1>1. CASE workloads' = workloads /\ nodes' = nodes
    <2>1. Shrinks /\ KeepsHolding
      BY <1>1 DEF Shrinks, KeepsHolding, StoreTypeOK, NodeRow, Resources
    <2>2. QED BY <2>1, PhantomKept
  <1>2. CASE workloads' = [workloads EXCEPT ![w].actual = "FAILED"] /\ nodes' = Released(w)
    <2>1. \A v \in Workload : /\ workloads'[v].req = workloads[v].req
                              /\ workloads'[v].node = workloads[v].node
                              /\ workloads'[v].actual = IF v = w THEN "FAILED" ELSE workloads[v].actual
      BY <1>2 DEF StoreTypeOK, WorkloadRow
    <2>2. \A dim : Asked(dim)' = Asked(dim)
      BY <2>1 DEF Asked
    <2>3. \A n : Holders(n)' = Holders(n) \ {w}
      BY <2>1 DEF Holders, HoldsOn, Unfinished
    <2> SUFFICES ASSUME NEW n \in Node, NEW dim \in {"cpu", "mem"}
                 PROVE  nodes'[n].alloc[dim] <= SumFunctionOnSet(Asked(dim), Holders(n) \ {w})
      BY <2>2, <2>3, PhantomSum
    <2> DEFINE old == SumFunctionOnSet(Asked(dim), Holders(n))
               new == SumFunctionOnSet(Asked(dim), Holders(n) \ {w})
    <2>4. nodes[n].alloc[dim] <= old
      BY PhantomSum
    <2>5. /\ IsFiniteSet(Holders(n)) /\ \A v \in Holders(n) : Asked(dim)[v] \in Nat
          /\ nodes[n].alloc[dim] \in Nat /\ nodes'[n].alloc[dim] \in Nat
          /\ old \in Nat /\ Asked(dim)[w] \in Nat
      BY HoldersFinite, HoldersFiniteNext DEF Countable
    <2>6. new \in Nat
      <3>1. IsFiniteSet(Holders(n) \ {w})
        BY <2>5, FS_RemoveElement
      <3>2. QED BY <2>5, <3>1, SumType
    <2>7. nodes'[n].alloc[dim] <= nodes[n].alloc[dim]
      BY <1>2, ReleasedShrinks DEF Shrinks
    <2>8. CASE w \in Holders(n)
      <3>1. old = Asked(dim)[w] + new
        BY <2>5, <2>8, SumRemove
      <3>2. m = n /\ m # Null
        BY <2>8, NullAssumption DEF Holders, HoldsOn
      <3>3. nodes'[n].alloc = Minus(nodes[n].alloc, workloads[w].req)
        BY <1>2, <3>2 DEF Released, StoreTypeOK, NodeRow
      <3>4. nodes'[n].alloc[dim] = IF nodes[n].alloc[dim] < Asked(dim)[w] THEN 0
                                   ELSE nodes[n].alloc[dim] - Asked(dim)[w]
        <4>1. Asked(dim)[w] = workloads[w].req[dim]
          BY DEF Asked
        <4>2. CASE dim = "cpu"
          BY <3>3, <4>1, <4>2 DEF Minus
        <4>3. CASE dim = "mem"
          BY <3>3, <4>1, <4>3 DEF Minus
        <4>4. QED BY <4>2, <4>3
      <3> HIDE DEF old, new
      <3>5. nodes'[n].alloc[dim] <= new
        BY <2>4, <2>5, <2>6, <3>1, <3>4
      <3>6. QED BY <3>5 DEF new
    <2>9. CASE w \notin Holders(n)
      <3>1. Holders(n) \ {w} = Holders(n)
        BY <2>9
      <3>2. new = old
        BY <3>1
      <3> HIDE DEF old, new
      <3>3. nodes'[n].alloc[dim] <= new
        BY <2>4, <2>5, <2>7, <3>2
      <3>4. QED BY <3>3 DEF new
    <2>10. QED BY <2>8, <2>9
  <1>3. QED
    BY <1>1, <1>2 DEF MarkWorkloadFailedAndReleaseResources, FinishAndRelease

\* A workload that is placed holds what its node is charged with.
LEMMA ReservedPhantom ==
  ASSUME StoreTypeOK, StoreTypeOK', NoPhantomReservation, NEW w \in Workload, NEW m \in Node,
         workloads[w].node = Null, workloads[w].actual = "PENDING",
         ReserveNodeForWorkload(w, m)
  PROVE  NoPhantomReservation'
  <1>1. \A v \in Workload : /\ workloads'[v].req = workloads[v].req
                            /\ workloads'[v].node = IF v = w THEN m ELSE workloads[v].node
                            /\ workloads'[v].actual = workloads[v].actual
    BY DEF ReserveNodeForWorkload, StoreTypeOK, WorkloadRow
  <1>2. \A dim : Asked(dim)' = Asked(dim)
    BY <1>1 DEF Asked
  <1>3. /\ \A n \in Node : Holders(n)' = IF n = m THEN Holders(n) \cup {w} ELSE Holders(n)
        /\ w \notin Holders(m)
    BY <1>1, NullAssumption DEF Holders, HoldsOn, Unfinished
  <1>4. \A n \in Node : nodes'[n].alloc = IF n = m THEN Plus(nodes[n].alloc, workloads[w].req)
                                          ELSE nodes[n].alloc
    BY DEF ReserveNodeForWorkload, StoreTypeOK, NodeRow
  <1> SUFFICES ASSUME NEW n \in Node, NEW dim \in {"cpu", "mem"}
               PROVE  nodes'[n].alloc[dim] <= SumFunctionOnSet(Asked(dim), Holders(n)')
    BY <1>2, PhantomSum
  <1> DEFINE old == SumFunctionOnSet(Asked(dim), Holders(n))
  <1>5. nodes[n].alloc[dim] <= old
    BY PhantomSum
  <1>6. CASE n = m
    <2>1. /\ IsFiniteSet(Holders(n)) /\ \A v \in Holders(n) \cup {w} : Asked(dim)[v] \in Nat
          /\ nodes[n].alloc[dim] \in Nat /\ old \in Nat /\ Asked(dim)[w] \in Nat
      BY HoldersFinite DEF Countable
    <2>2. SumFunctionOnSet(Asked(dim), Holders(n) \cup {w}) = Asked(dim)[w] + old
      BY <1>3, <1>6, <2>1, SumAdd
    <2>3. nodes'[n].alloc[dim] = nodes[n].alloc[dim] + Asked(dim)[w]
      <3>1. Asked(dim)[w] = workloads[w].req[dim]
        BY DEF Asked
      <3>2. nodes'[n].alloc = Plus(nodes[n].alloc, workloads[w].req)
        BY <1>4, <1>6
      <3>3. CASE dim = "cpu"
        BY <3>1, <3>2, <3>3 DEF Plus
      <3>4. CASE dim = "mem"
        BY <3>1, <3>2, <3>4 DEF Plus
      <3>5. QED BY <3>3, <3>4
    <2>4. Holders(n)' = Holders(n) \cup {w}
      BY <1>3, <1>6
    <2> HIDE DEF old
    <2>5. QED BY <1>5, <2>1, <2>2, <2>3, <2>4
  <1>7. CASE n # m
    BY <1>3, <1>4, <1>5, <1>7
  <1>8. QED BY <1>6, <1>7

\* A node that is given up has nothing allocated; the others keep their books.
LEMMA RecoveredPhantom ==
  ASSUME StoreTypeOK, StoreTypeOK', NoPhantomReservation, NEW m \in Node,
         RecoverWorkloadsFromNode(m)
  PROVE  NoPhantomReservation'
  <1>1. \A v \in Workload : /\ workloads'[v].req = workloads[v].req
                            /\ workloads[v].node # m => workloads'[v] = workloads[v]
                            /\ workloads'[v].node \in {workloads[v].node, Null}
    BY DEF RecoverWorkloadsFromNode, StoreTypeOK, WorkloadRow
  <1>2. \A dim : Asked(dim)' = Asked(dim)
    BY <1>1 DEF Asked
  <1>3. \A n \in Node : n # m => Holders(n)' = Holders(n)
    BY <1>1, NullAssumption DEF Holders, HoldsOn
  <1>4. \A n \in Node : nodes'[n].alloc = IF n = m THEN NoResources ELSE nodes[n].alloc
    BY DEF RecoverWorkloadsFromNode, StoreTypeOK, NodeRow
  <1> SUFFICES ASSUME NEW n \in Node, NEW dim \in {"cpu", "mem"}
               PROVE  nodes'[n].alloc[dim] <= SumFunctionOnSet(Asked(dim)', Holders(n)')
    BY PhantomSum
  <1>5. CASE n = m
    <2>1. nodes'[n].alloc[dim] = 0
      BY <1>4, <1>5 DEF NoResources
    <2>2. SumFunctionOnSet(Asked(dim)', Holders(n)') \in Nat
      BY HoldersFiniteNext DEF Countable
    <2>3. QED BY <2>1, <2>2
  <1>6. CASE n # m
    <2>1. nodes[n].alloc[dim] <= SumFunctionOnSet(Asked(dim), Holders(n))
      BY PhantomSum
    <2>2. QED BY <1>2, <1>3, <1>4, <1>6, <2>1
  <1>7. QED BY <1>5, <1>6

\* The controllers charge nobody and take nothing from those who hold.
LEMMA ControllerPhantom ==
  ASSUME StoreTypeOK, NEW s, NEW svc,
         \/ DeploymentController(s, svc) \/ ReplicaController(s, svc)
         \/ ReplicaControllerPart(s, svc)
         \/ DeletionController(s) \/ DeletionControllerPart(s)
  PROVE  nodes' = nodes /\ KeepsHolding
  <1>1. ASSUME NEW ids, StopWorkloads(ids) PROVE nodes' = nodes /\ KeepsHolding
    BY <1>1 DEF StopWorkloads, KeepsHolding, HoldsOn, StoreTypeOK, WorkloadRow
  <1>2. ASSUME NEW ids \in SUBSET FreeWorkload, CreatePendingWorkloads(ids, s, svc)
        PROVE  nodes' = nodes /\ KeepsHolding
    <2>1. \A w \in Workload : w \in ids => workloads[w].actual = "ABSENT"
      BY <1>2 DEF FreeWorkload
    <2>2. \A w \in Workload : w \notin ids => workloads'[w] = workloads[w]
      BY <1>2 DEF CreatePendingWorkloads
    <2>3. nodes' = nodes
      BY <1>2 DEF CreatePendingWorkloads
    <2>4. QED BY <2>1, <2>2, <2>3 DEF KeepsHolding, HoldsOn, Unfinished
  <1>3. ASSUME workloads' = workloads PROVE KeepsHolding
    BY <1>3 DEF KeepsHolding
  <1>4. \A w \in FreeWorkload : {w} \in SUBSET FreeWorkload
    OBVIOUS
  <1>5. DeletionController(s) \/ DeletionControllerPart(s) => nodes' = nodes /\ KeepsHolding
    BY <1>1, <1>3 DEF DeletionController, DeletionControllerPart, MarkServiceDeleted
  <1>6. DeploymentController(s, svc) => nodes' = nodes /\ KeepsHolding
    BY <1>1, <1>2, <1>3, <1>4 DEF DeploymentController, tables
  <1>7. ReplicaController(s, svc) => nodes' = nodes /\ KeepsHolding
    BY <1>1, <1>2, <1>3 DEF ReplicaController, tables
  <1>8. ReplicaControllerPart(s, svc) => nodes' = nodes /\ KeepsHolding
    BY <1>1, <1>2 DEF ReplicaControllerPart
  <1>9. QED BY <1>5, <1>6, <1>7, <1>8

\* Every step from a state of the invariant keeps the books.
LEMMA StepPhantom == ASSUME Inv, NoPhantomReservation, [Next]_vars PROVE NoPhantomReservation'
  <1>1. Inv'
    BY InvStep
  <1>2. StoreTypeOK /\ StoreTypeOK' /\ Shape /\ CursorOK /\ RowsConsistent /\ ReserveOK
    BY <1>1 DEF Inv, TypeOK, Shape
  <1>3. ASSUME \A n \in Node : nodes'[n].alloc = nodes[n].alloc PROVE Shrinks
    BY <1>2, <1>3 DEF Shrinks, StoreTypeOK, NodeRow, Resources
  <1>4. ASSUME workloads' = workloads PROVE KeepsHolding
    BY <1>4 DEF KeepsHolding
  <1>5. ASSUME \A n \in Node : nodes'[n].alloc = nodes[n].alloc, KeepsHolding
        PROVE  NoPhantomReservation'
    BY <1>2, <1>3, <1>5, PhantomKept
  <1>6. ASSUME nodes' = nodes, workloads' = workloads PROVE NoPhantomReservation'
    BY <1>4, <1>5, <1>6
  <1>7. ASSUME NEW w \in Workload, MarkWorkloadFailedAndReleaseResources(w)
        PROVE  NoPhantomReservation'
    BY <1>2, <1>7, FailedPhantom
  <1>8. ASSUME NEW w \in Workload, NEW state \in Unfinished \cup {"STOPPED"},
               UpdateWorkloadActualState(w, state)
        PROVE  NoPhantomReservation'
    <2>1. nodes' = nodes /\ KeepsHolding
      BY <1>2, <1>8
      DEF UpdateWorkloadActualState, KeepsHolding, HoldsOn, StoreTypeOK, WorkloadRow
    <2>2. QED BY <1>5, <2>1
  <1>9. CASE ClientStep
    <2>1. workloads' = workloads /\ \A n \in Node : nodes'[n].alloc = nodes[n].alloc
      <3>1. ASSUME NEW n \in Node, NEW cap, registerNode(n, cap)
            PROVE  workloads' = workloads /\ \A m \in Node : nodes'[m].alloc = nodes[m].alloc
        BY <1>2, <3>1 DEF registerNode, RegisterNode, StoreTypeOK, NodeRow
      <3>2. ASSUME NEW n \in Node, heartbeat(n)
            PROVE  workloads' = workloads /\ \A m \in Node : nodes'[m].alloc = nodes[m].alloc
        BY <1>2, <3>2 DEF heartbeat, UpdateHeartbeat, StoreTypeOK, NodeRow
      <3>3. ASSUME NEW s, NEW replicas, NEW req, NEW strategy,
                   createService(s, replicas, req, strategy)
            PROVE  workloads' = workloads /\ nodes' = nodes
        BY <3>3 DEF createService, CreateService
      <3>4. ASSUME NEW s, NEW replicas, NEW req, NEW newImage,
                   updateService(s, replicas, req, newImage)
            PROVE  workloads' = workloads /\ nodes' = nodes
        BY <3>4 DEF updateService, UpdateService
      <3>5. ASSUME NEW s, deleteService(s) PROVE workloads' = workloads /\ nodes' = nodes
        BY <3>5 DEF deleteService, MarkServiceDeleting
      <3>6. QED BY <1>9, <3>1, <3>2, <3>3, <3>4, <3>5 DEF ClientStep
    <2>2. QED BY <1>4, <1>5, <2>1
  <1>10. CASE FaultStep
    <2>1. ASSUME NEW n \in Node, markUnhealthy(n) PROVE NoPhantomReservation'
      <3>1. workloads' = workloads /\ \A m \in Node : nodes'[m].alloc = nodes[m].alloc
        BY <1>2, <2>1 DEF markUnhealthy, SetNodeStatus, StoreTypeOK, NodeRow
      <3>2. QED BY <1>4, <1>5, <3>1
    <2>2. ASSUME NEW w \in Workload, LaunchFails(w) PROVE NoPhantomReservation'
      BY <1>6, <1>7, <2>2 DEF LaunchFails, tables
    <2>3. CASE ReplicasFail
      BY <1>2, <1>5, <2>3, ControllerPhantom DEF ReplicasFail
    <2>4. CASE /\ ~ReplicasFail
               /\ \A w \in Workload : ~LaunchFails(w)
               /\ \A n \in Node : ~markUnhealthy(n)
      <3>1. nodes' = nodes /\ workloads' = workloads
        BY <1>10, <2>4
        DEF FaultStep, NodeCallFails, ContainerExits, ContainerRemoved, StopTrackedFails,
            LookupFails, StopFails, NodeAborted, ServiceFails, ListingFails, Crash, tables
      <3>2. QED BY <1>6, <3>1
    <2>5. QED BY <2>1, <2>2, <2>3, <2>4
  <1>11. CASE CycleStep
    <2>1. ASSUME NEW n \in Node, RecoverNode(n) PROVE NoPhantomReservation'
      BY <1>2, <2>1, RecoveredPhantom DEF RecoverNode
    <2>2. ASSUME NEW w \in Workload, StopTracked(w) PROVE NoPhantomReservation'
      BY <1>8, <2>2 DEF StopTracked
    <2>3. ASSUME NEW w \in Workload, SyncTracked(w) PROVE NoPhantomReservation'
      <3>1. \/ MarkWorkloadFailedAndReleaseResources(w)
            \/ UpdateWorkloadActualState(w, "RUNNING")
            \/ UpdateWorkloadActualState(w, "SCHEDULED")
        BY <2>3 DEF SyncTracked, containerState
      <3>2. QED BY <1>7, <1>8, <3>1 DEF Unfinished
    <2>4. ASSUME NEW w \in Workload, FailMissing(w) PROVE NoPhantomReservation'
      BY <1>7, <2>4 DEF FailMissing
    <2>5. ASSUME NEW w \in Workload, Stop(w) PROVE NoPhantomReservation'
      <3>1. nodes' = nodes \/ nodes' = Released(w)
        BY <2>5 DEF Stop, MarkWorkloadStoppedAndReleaseResources, FinishAndRelease
      <3>2. Shrinks
        BY <1>2, <3>1, ReleasedShrinks
      <3>3. \/ workloads' = workloads
            \/ workloads' = [workloads EXCEPT ![w].actual = "STOPPED"]
        BY <2>5 DEF Stop, MarkWorkloadStoppedAndReleaseResources, FinishAndRelease
      <3>4. KeepsHolding
        BY <1>2, <1>4, <3>3 DEF KeepsHolding, HoldsOn, StoreTypeOK, WorkloadRow
      <3>5. QED BY <1>2, <3>2, <3>4, PhantomKept
    <2>6. CASE Reserve
      <3>1. curNode \in Node /\ curWorkload \in Workload
        BY <1>2, <2>6 DEF Reserve, CursorOK
      <3>2. workloads[curWorkload].desired = "PENDING"
        BY <1>2, <2>6 DEF Reserve, ReserveOK
      <3>3. workloads[curWorkload].node = Null /\ workloads[curWorkload].actual = "PENDING"
        BY <1>2, <3>1, <3>2 DEF RowsConsistent, RowConsistent
      <3>4. QED BY <1>2, <2>6, <3>1, <3>3, ReservedPhantom DEF Reserve
    <2>7. ASSUME NEW w \in Workload, Launch(w) PROVE NoPhantomReservation'
      <3>1. nodes' = nodes /\ \E n : workloads' = [workloads EXCEPT ![w].container = n,
                                                                   ![w].actual = "RUNNING"]
        BY <2>7 DEF Launch, MarkWorkloadRunning
      <3>2. KeepsHolding
        BY <1>2, <3>1 DEF KeepsHolding, HoldsOn, Unfinished, StoreTypeOK, WorkloadRow
      <3>3. QED BY <1>5, <3>1, <3>2
    <2>8. ASSUME NEW s \in Service, ReconcileDeletion(s) \/ ReconcileDeployment(s)
          PROVE  NoPhantomReservation'
      BY <1>2, <1>5, <2>8, ControllerPhantom DEF ReconcileDeletion, ReconcileDeployment
    <2>9. CASE ReconcileReplicas
      BY <1>2, <1>5, <2>9, ControllerPhantom DEF ReconcileReplicas
    <2>10. CASE ReplicasOutOfIds
      <3>1. nodes' = nodes /\ CreatePendingWorkloads(FreeWorkload, curService, snap[curService])
        BY <2>10 DEF ReplicasOutOfIds, CreatePendingWorkloads
      <3>2. KeepsHolding
        BY <3>1 DEF CreatePendingWorkloads, FreeWorkload, KeepsHolding, HoldsOn, Unfinished
      <3>3. QED BY <1>5, <3>1, <3>2
    <2>11. CASE ReconcileStatus
      BY <1>6, <2>11
      DEF ReconcileStatus, DeploymentStatusController, UpdateDeploymentStatus, tables
    <2>12. ASSUME NEW w \in Workload,
                  PickNode(w) \/ NoNode(w) \/ ExecuteOnly(w) \/ LaunchConflict(w)
           PROVE NoPhantomReservation'
      BY <1>6, <2>12 DEF PickNode, NoNode, ExecuteOnly, LaunchConflict, tables
    <2>13. ASSUME NEW s \in Service, SkipService(s) \/ DeploymentFails(s)
           PROVE NoPhantomReservation'
      BY <1>6, <2>13 DEF SkipService, DeploymentFails, tables
    <2>14. ASSUME NEW n \in Node, ReconcileNode(n) PROVE NoPhantomReservation'
      BY <1>6, <2>14 DEF ReconcileNode, tables
    <2>15. CASE ListServices \/ ListNodes \/ NodesDone \/ NodeDone \/ ServicesDone
                \/ ReserveFails \/ ExecuteDone
      BY <1>6, <2>15
      DEF ListServices, ListNodes, NodesDone, NodeDone, ServicesDone, ReserveFails,
          ExecuteDone, tables
    <2>16. QED
      BY <1>11, <2>1, <2>2, <2>3, <2>4, <2>5, <2>6, <2>7, <2>8, <2>9, <2>10, <2>11, <2>12,
         <2>13, <2>14, <2>15
      DEF CycleStep
  <1>12. CASE UNCHANGED vars
    BY <1>6, <1>12 DEF vars, tables
  <1>13. QED BY <1>9, <1>10, <1>11, <1>12 DEF Next

\* For any cluster, any number of faults and any interleaving with clients: a
\* node never has more allocated than the workloads placed on it asked for,
\* without those recorded as FAILED.  Whatever part of a launch, a stop or a
\* recovery fails, nothing is reserved twice and no reservation is left behind.
THEOREM ReservationsOwned == Spec => []NoPhantomReservation
  <1>1. Init => NoPhantomReservation
    <2> SUFFICES ASSUME Init PROVE NoPhantomReservation
      OBVIOUS
    <2>1. StoreTypeOK
      BY InitType DEF TypeOK
    <2>2. \A n \in Node : \A dim \in {"cpu", "mem"} : nodes[n].alloc[dim] = 0
      BY DEF Init, StoreInit, AbsentNode, NoResources
    <2>3. QED BY <2>1, <2>2, PhantomSum, HoldersFinite DEF Countable
  <1>2. Inv /\ NoPhantomReservation /\ [Next]_vars => NoPhantomReservation'
    BY StepPhantom
  <1>3. QED BY <1>1, <1>2, InvariantHolds, PTL DEF Spec

-----------------------------------------------------------------------------
(* The active workloads of a service.                                      *)

\* No stop is taken back.
StopsKept ==
    \A w \in Workload : workloads[w].desired = "STOPPED" => workloads'[w].desired = "STOPPED"

\* A step that scales no service down and takes back no stop.  SurgeBounded
\* does not hold through other steps: fewer replicas are reached only one
\* move at a time, and the recovery of a lost node makes workloads active
\* again that were being stopped.
Undisturbed ==
    /\ \A s \in Service : services'[s].replicas >= services[s].replicas
    /\ StopsKept

Active(s) == {w \in ListWorkloadsByService(s) : isActive(w)}

\* A row that is no service yet allows no surge.
AbsentSurge == \A s \in Service : services[s].status = "ABSENT" => services[s].surge = 0

\* What a cycle works from allows no more than the services themselves, and
\* is not behind the workloads.
SnapshotWithin ==
    \A s \in Service : snap[s].status = "ACTIVE" =>
        /\ snap[s].replicas <= services[s].replicas
        /\ snap[s].surge = services[s].surge
        /\ \A w \in Workload : workloads[w].service = s => workloads[w].version <= snap[s].version

\* The inductive invariant, beside Inv.
SurgeInv == AbsentSurge /\ SnapshotWithin /\ SurgeBounded

\* The strategy of a service is what its client asked for first, and nobody
\* brings a service back.
StrategyKept ==
    \A s \in Service :
        \/ /\ services'[s].surge = services[s].surge
           /\ services'[s].unavailable = services[s].unavailable
           /\ services'[s].status = "ABSENT" => services[s].status = "ABSENT"
           /\ services'[s].status = "ACTIVE" => services[s].status = "ACTIVE"
        \/ services[s].status = "ABSENT" /\ services'[s].status # "ABSENT"

\* Nobody changes the strategy of a service once it exists.
LEMMA StepStrategy == ASSUME Inv, [Next]_vars PROVE StrategyKept
  <1>0. StoreTypeOK /\ TypeOK
    BY DEF Inv, TypeOK
  <1>1. ASSUME services' = services PROVE StrategyKept
    BY <1>1 DEF StrategyKept
  <1>2. ASSUME NEW s \in Service, NEW status,
               services' = [services EXCEPT ![s].deployment = status]
        PROVE  StrategyKept
    BY <1>0, <1>2 DEF StrategyKept, StoreTypeOK, ServiceRow
  <1>3. ASSUME NEW s \in Service, services[s].status # "ABSENT",
               NEW status \in {"DELETING", "DELETED"},
               services' = [services EXCEPT ![s].status = status]
        PROVE  StrategyKept
    BY <1>0, <1>3 DEF StrategyKept, StoreTypeOK, ServiceRow
  <1>4. CASE ClientStep
    <2>1. ASSUME NEW n, NEW cap, registerNode(n, cap) PROVE StrategyKept
      BY <1>1, <2>1 DEF registerNode, RegisterNode
    <2>2. ASSUME NEW n, heartbeat(n) PROVE StrategyKept
      BY <1>1, <2>2 DEF heartbeat, UpdateHeartbeat
    <2>3. ASSUME NEW s \in Service, NEW replicas \in Replicas, NEW req, NEW strategy,
                 createService(s, replicas, req, strategy)
          PROVE  StrategyKept
      <3> DEFINE row == [status |-> "ACTIVE", version |-> 1,
                         deployment |-> "AVAILABLE", started |-> FALSE,
                         replicas |-> replicas, surge |-> strategy.surge,
                         unavailable |-> strategy.unavailable, req |-> req]
      <3>1. services[s].status = "ABSENT" /\ services' = [services EXCEPT ![s] = row]
        BY <2>3 DEF createService, CreateService
      <3>2. row.status # "ABSENT"
        OBVIOUS
      <3> HIDE DEF row
      <3>3. QED BY <1>0, <3>1, <3>2 DEF StrategyKept, StoreTypeOK
    <2>4. ASSUME NEW s \in Service, NEW replicas \in Replicas, NEW req, NEW newImage,
                 updateService(s, replicas, req, newImage)
          PROVE  StrategyKept
      <3>1. /\ \A t \in Service : t # s => services'[t] = services[t]
            /\ services'[s].surge = services[s].surge
            /\ services'[s].unavailable = services[s].unavailable
            /\ services'[s].status = services[s].status
        BY <1>0, <2>4 DEF updateService, UpdateService, StoreTypeOK, ServiceRow
      <3>2. QED BY <3>1 DEF StrategyKept
    <2>5. ASSUME NEW s \in Service, deleteService(s) PROVE StrategyKept
      BY <1>3, <2>5 DEF deleteService, MarkServiceDeleting
    <2>6. QED BY <1>4, <2>1, <2>2, <2>3, <2>4, <2>5 DEF ClientStep
  <1>5. CASE CycleStep
    <2>1. ASSUME NEW s \in Service, ReconcileDeletion(s) PROVE StrategyKept
      BY <1>1, <1>3, <2>1
      DEF ReconcileDeletion, DeletionController, DeletionControllerPart, MarkServiceDeleted,
          StopWorkloads
    <2>2. CASE ReconcileStatus
      <3>1. curService \in Service
        BY <2>2 DEF ReconcileStatus, Inv, CursorOK
      <3>2. QED
        BY <1>1, <1>2, <2>2, <3>1
        DEF ReconcileStatus, DeploymentStatusController, UpdateDeploymentStatus, tables
    <2>3. CASE ~ReconcileStatus /\ \A s \in Service : ~ReconcileDeletion(s)
      <3>1. ASSUME NEW s \in Service,
                   SkipService(s) \/ DeploymentFails(s) \/ ReconcileDeployment(s)
            PROVE  services' = services
        BY <3>1
        DEF SkipService, DeploymentFails, ReconcileDeployment, DeploymentController,
            CreatePendingWorkloads, StopWorkloads, tables
      <3>2. ASSUME NEW w \in Workload,
                   \/ StopTracked(w) \/ SyncTracked(w) \/ FailMissing(w)
                   \/ PickNode(w) \/ NoNode(w) \/ ExecuteOnly(w)
                   \/ Launch(w) \/ LaunchConflict(w) \/ Stop(w)
            PROVE  services' = services
        BY <3>2
        DEF StopTracked, SyncTracked, FailMissing, PickNode, NoNode, ExecuteOnly, Launch,
            LaunchConflict, Stop, UpdateWorkloadActualState, MarkWorkloadRunning,
            MarkWorkloadFailedAndReleaseResources, MarkWorkloadStoppedAndReleaseResources,
            FinishAndRelease, tables
      <3>3. ASSUME NEW n \in Node, RecoverNode(n) \/ ReconcileNode(n)
            PROVE  services' = services
        BY <3>3 DEF RecoverNode, ReconcileNode, RecoverWorkloadsFromNode, tables
      <3>4. CASE ReconcileReplicas \/ ReplicasOutOfIds \/ Reserve
        BY <1>1, <3>4
        DEF ReconcileReplicas, ReplicasOutOfIds, Reserve, ReplicaController,
            CreatePendingWorkloads, StopWorkloads, ReserveNodeForWorkload, tables
      <3>5. CASE \/ ListServices \/ ListNodes \/ NodesDone \/ NodeDone \/ ServicesDone
                 \/ ReserveFails \/ ExecuteDone
        BY <1>1, <3>5
        DEF ListServices, ListNodes, NodesDone, NodeDone, ServicesDone, ReserveFails,
            ExecuteDone, tables
      <3>6. QED BY <1>1, <1>5, <2>3, <3>1, <3>2, <3>3, <3>4, <3>5 DEF CycleStep
    <2>4. QED BY <2>1, <2>2, <2>3
  <1>6. CASE UNCHANGED vars
    BY <1>1, <1>6 DEF vars, tables
  <1>7. CASE FaultStep
    <2>1. ASSUME NEW w \in Workload, LaunchFails(w) PROVE services' = services
      BY <2>1 DEF LaunchFails, tables, MarkWorkloadFailedAndReleaseResources, FinishAndRelease
    <2>2. CASE ReplicasFail
      BY <1>1, <2>2 DEF ReplicasFail, ReplicaControllerPart, CreatePendingWorkloads, StopWorkloads
    <2>3. CASE ~ReplicasFail /\ \A w \in Workload : ~LaunchFails(w)
      BY <1>1, <1>7, <2>3
      DEF FaultStep, markUnhealthy, SetNodeStatus, NodeCallFails, ContainerExits,
          ContainerRemoved, StopTrackedFails, LookupFails, StopFails, NodeAborted, ServiceFails,
          ListingFails, Crash, tables
    <2>4. QED BY <1>1, <2>1, <2>2, <2>3
  <1>8. QED BY <1>4, <1>5, <1>6, <1>7 DEF Next

\* Sets of workloads are finite.
LEMMA WorkloadsFinite ==
  \A T \in SUBSET Workload : IsFiniteSet(T) /\ Cardinality(T) \in Nat
  BY WorkloadAssumption, FS_Subset, FS_CardinalityType

\* The active workloads are the old and the new ones the controllers count.
LEMMA ActiveParts ==
  ASSUME Inv, SnapshotWithin, NEW s \in Service, snap[s].status = "ACTIVE"
  PROVE  LET old == oldActiveWorkloads(s, snap[s].version)
             new == newActiveWorkloads(s, snap[s].version)
         IN  /\ Active(s) \in SUBSET Workload
             /\ Cardinality(Active(s)) <= Cardinality(old) + Cardinality(new)
             /\ old = {} => Cardinality(Active(s)) <= countActiveReplicas(s, snap[s].version)
             /\ Cardinality(old) \in Nat /\ Cardinality(new) \in Nat
             /\ countActiveReplicas(s, snap[s].version) \in Nat
  <1> DEFINE v == snap[s].version
             old == oldActiveWorkloads(s, v)
             new == newActiveWorkloads(s, v)
             counted == {w \in ListWorkloadsByService(s) :
                            workloads[w].version \in {0, v} /\ isActive(w)}
  <1>1. v \in Nat /\ \A w \in Workload : workloads[w].version \in Nat
    BY DEF Inv, TypeOK, StoreTypeOK, ServiceRow, WorkloadRow
  <1>2. \A w \in ListWorkloadsByService(s) : w \in Workload /\ workloads[w].version <= v
    BY DEF ListWorkloadsByService, SnapshotWithin
  <1>3. /\ old \in SUBSET Workload /\ new \in SUBSET Workload
        /\ counted \in SUBSET Workload /\ Active(s) \in SUBSET Workload
    BY <1>2 DEF oldActiveWorkloads, newActiveWorkloads, Active
  <1>4. Active(s) = old \cup new
    BY <1>1, <1>2 DEF oldActiveWorkloads, newActiveWorkloads, Active
  <1>5. new \subseteq counted
    BY DEF newActiveWorkloads
  <1>6. /\ IsFiniteSet(old) /\ IsFiniteSet(new) /\ IsFiniteSet(counted)
        /\ Cardinality(old) \in Nat /\ Cardinality(new) \in Nat /\ Cardinality(counted) \in Nat
        /\ Cardinality(old \cap new) \in Nat
    <2>1. old \cap new \in SUBSET Workload
      BY <1>3
    <2>2. QED BY <1>3, <2>1, WorkloadsFinite
  <1>7. countActiveReplicas(s, v) = Cardinality(counted)
    BY DEF countActiveReplicas
  <1> HIDE DEF old, new, counted, v
  <1>8. Cardinality(Active(s)) <= Cardinality(old) + Cardinality(new)
    <2>1. Cardinality(Active(s)) = Cardinality(old) + Cardinality(new) - Cardinality(old \cap new)
      BY <1>4, <1>6, FS_Union
    <2>2. QED BY <1>6, <2>1
  <1>9. old = {} => Cardinality(Active(s)) <= Cardinality(counted)
    <2>1. old = {} => Active(s) = new
      BY <1>4
    <2>2. Cardinality(new) <= Cardinality(counted)
      BY <1>5, <1>6, FS_Subset
    <2>3. QED BY <2>1, <2>2
  <1>10. QED BY <1>3, <1>6, <1>7, <1>8, <1>9 DEF old, new, v

\* A step that inserts no rows makes no workload active, and none of another
\* service.
NoRevival ==
    \A w \in Workload :
        workloads'[w].actual \in Unfinished /\ workloads'[w].desired # "STOPPED" =>
            /\ workloads[w].actual \in Unfinished /\ workloads[w].desired # "STOPPED"
            /\ workloads'[w].service = workloads[w].service

\* In a step that takes back no stop, rows that only age are not revived.
LEMMA AgesRevivesNone ==
  ASSUME StoreTypeOK, StoreTypeOK', Ages, StopsKept PROVE NoRevival
  BY DEF StoreTypeOK, WorkloadRow, Ages, RowAges, StopsKept, NoRevival, Unfinished, Finished

\* What the controllers insert keeps a service within its surge.
LEMMA InsertWithin ==
  ASSUME Inv, SnapshotWithin, NEW s \in Service, snap[s].status = "ACTIVE",
         NEW ids \in SUBSET FreeWorkload, InsertAllowed(s, snap[s], ids)
  PROVE  Cardinality(Active(s)) + Cardinality(ids)
            <= services[s].replicas + services[s].surge
  <1> DEFINE a == Cardinality(Active(s))
             o == Cardinality(oldActiveWorkloads(s, snap[s].version))
             k == Cardinality(newActiveWorkloads(s, snap[s].version))
             c == countActiveReplicas(s, snap[s].version)
             r == snap[s].replicas
             g == snap[s].surge
             i == Cardinality(ids)
             R == services[s].replicas
  <1>1. r \in Nat /\ g \in Nat /\ R \in Nat
    BY DEF Inv, TypeOK, StoreTypeOK, ServiceRow
  <1>2. i \in Nat /\ a \in Nat /\ o \in Nat /\ k \in Nat /\ c \in Nat
    BY ActiveParts, WorkloadsFinite DEF FreeWorkload
  <1>3. a <= o + k /\ (oldActiveWorkloads(s, snap[s].version) = {} => a <= c)
    BY ActiveParts
  <1>4. r <= R /\ g = services[s].surge
    BY DEF SnapshotWithin
  <1>5. ASSUME SurgeAllowed(s, snap[s]), NEW w, ids = {w} PROVE a + i <= R + g
    <2>1. i = 1
      BY <1>5, FS_Singleton
    <2>2. o + k < r + g
      BY <1>5 DEF SurgeAllowed
    <2> HIDE DEF a, o, k, r, g, i, R
    <2>3. QED BY <1>1, <1>2, <1>3, <1>4, <2>1, <2>2
  <1>6. ASSUME oldActiveWorkloads(s, snap[s].version) = {}, i = r - c \/ i < r - c
        PROVE  a + i <= R + g
    <2>1. a <= c
      BY <1>3, <1>6
    <2> HIDE DEF a, c, r, g, i, R
    <2>2. QED BY <1>1, <1>2, <1>4, <1>6, <2>1
  <1>7. QED BY <1>4, <1>5, <1>6 DEF InsertAllowed, MissingReplicas

\* A service of an undisturbed step allows at least what it allowed before.
LEMMA LimitGrows ==
  ASSUME Inv, AbsentSurge, [Next]_vars, Undisturbed, NEW s \in Service
  PROVE  /\ services[s].replicas + services[s].surge \in Nat
         /\ services'[s].replicas + services'[s].surge \in Nat
         /\ services[s].replicas + services[s].surge
               <= services'[s].replicas + services'[s].surge
  <1>1. services[s] \in ServiceRow /\ services'[s] \in ServiceRow
    BY StepKnown DEF StoreTypeOK
  <1>2. services[s].surge <= services'[s].surge
    BY <1>1, StepStrategy DEF StrategyKept, AbsentSurge, ServiceRow
  <1>3. services[s].replicas <= services'[s].replicas
    BY <1>1 DEF Undisturbed, ServiceRow
  <1>4. QED BY <1>1, <1>2, <1>3 DEF ServiceRow

\* An undisturbed step keeps every service within its surge.
LEMMA StepBounded ==
  ASSUME Inv, SurgeInv, [Next]_vars, Undisturbed PROVE SurgeBounded'
  <1> SUFFICES ASSUME NEW s \in Service
               PROVE  Cardinality(Active(s)') <= services'[s].replicas + services'[s].surge
    BY DEF SurgeBounded, Active, ListWorkloadsByService, isActive
  <1> DEFINE limit == services[s].replicas + services[s].surge
             limitNext == services'[s].replicas + services'[s].surge
  <1>1. /\ StoreTypeOK /\ StoreTypeOK'
        /\ Ages \/ Inserts
    BY StepKnown, MovesAge
  <1>2. limit \in Nat /\ limitNext \in Nat /\ limit <= limitNext
    BY LimitGrows DEF SurgeInv
  <1>3. Cardinality(Active(s)) <= limit
    BY DEF SurgeInv, SurgeBounded, Active
  <1>4. /\ Active(s) \in SUBSET Workload
        /\ Active(s)' \in SUBSET Workload
    BY DEF Active, ListWorkloadsByService
  <1>5. /\ IsFiniteSet(Active(s)) /\ Cardinality(Active(s)) \in Nat
        /\ IsFiniteSet(Active(s)') /\ Cardinality(Active(s)') \in Nat
    BY <1>4, WorkloadsFinite
  <1>6. CASE Active(s)' \subseteq Active(s)
    <2>1. Cardinality(Active(s)') <= Cardinality(Active(s))
      BY <1>5, <1>6, FS_Subset
    <2> HIDE DEF limit, limitNext
    <2>2. Cardinality(Active(s)') <= limitNext
      BY <1>2, <1>3, <1>5, <2>1
    <2>3. QED BY <2>2 DEF limitNext
  <1>7. CASE Ages
    <2>1. NoRevival
      BY <1>1, <1>7, AgesRevivesNone DEF Undisturbed
    <2>2. Active(s)' \subseteq Active(s)
      BY <2>1 DEF NoRevival, Active, ListWorkloadsByService, isActive, Unfinished
    <2>3. QED BY <1>6, <2>2
  <1>8. CASE Inserts
    <2>1. PICK t \in Service, ids \in SUBSET FreeWorkload :
             /\ snap[t].status = "ACTIVE"
             /\ InsertAllowed(t, snap[t], ids)
             /\ CreatePendingWorkloads(ids, t, snap[t])
      BY <1>8 DEF Inserts
    <2>2. \A w \in Workload :
             workloads'[w] = IF w \in ids THEN PendingRow(t, snap[t]) ELSE workloads[w]
      BY <2>1 DEF CreatePendingWorkloads
    <2>3. PendingRow(t, snap[t]).service = t
      BY DEF PendingRow
    <2>4. CASE t # s
      <3>1. Active(s)' \subseteq Active(s)
        BY <2>2, <2>3, <2>4 DEF Active, ListWorkloadsByService, isActive
      <3>2. QED BY <1>6, <3>1
    <2>5. CASE t = s
      <3>1. Active(s)' \subseteq Active(s) \cup ids
        BY <2>2 DEF Active, ListWorkloadsByService, isActive
      <3>2. Cardinality(Active(s)) + Cardinality(ids) <= limit
        BY <2>1, <2>5, InsertWithin DEF SurgeInv
      <3>3. /\ ids \in SUBSET Workload /\ Active(s) \cup ids \in SUBSET Workload
            /\ Active(s) \cap ids \in SUBSET Workload
        BY <1>4 DEF FreeWorkload
      <3>4. /\ IsFiniteSet(ids) /\ Cardinality(ids) \in Nat
            /\ IsFiniteSet(Active(s) \cup ids) /\ Cardinality(Active(s) \cup ids) \in Nat
            /\ Cardinality(Active(s) \cap ids) \in Nat
        BY <3>3, WorkloadsFinite
      <3>5. Cardinality(Active(s) \cup ids)
              = Cardinality(Active(s)) + Cardinality(ids) - Cardinality(Active(s) \cap ids)
        BY <1>5, <3>4, FS_Union
      <3>6. Cardinality(Active(s)') <= Cardinality(Active(s) \cup ids)
        BY <1>5, <3>1, <3>4, FS_Subset
      <3> HIDE DEF limit, limitNext
      <3>7. Cardinality(Active(s)') <= limitNext
        BY <1>2, <1>5, <3>2, <3>4, <3>5, <3>6
      <3>8. QED BY <3>7 DEF limitNext
    <2>6. QED BY <2>4, <2>5
  <1>9. QED BY <1>1, <1>7, <1>8

\* An undisturbed step keeps the snapshot within what the services allow.
LEMMA StepWithin ==
  ASSUME Inv, SurgeInv, [Next]_vars, Undisturbed PROVE AbsentSurge' /\ SnapshotWithin'
  <1>1. /\ StoreTypeOK /\ StoreTypeOK'
        /\ Ages \/ Inserts
        /\ StrategyKept /\ AbsentSurge
    BY StepKnown, MovesAge, StepStrategy DEF SurgeInv
  <1>2. AbsentSurge'
    BY <1>1 DEF AbsentSurge, StrategyKept
  <1>3. SnapshotAges
    BY InvParts, StepSnapshot DEF Known
  <1> SUFFICES ASSUME NEW s \in Service, snap'[s].status = "ACTIVE"
               PROVE  /\ snap'[s].replicas <= services'[s].replicas
                      /\ snap'[s].surge = services'[s].surge
                      /\ \A w \in Workload : workloads'[w].service = s
                            => workloads'[w].version <= snap'[s].version
    BY <1>2 DEF SnapshotWithin
  <1>4. /\ services[s] \in ServiceRow /\ services'[s] \in ServiceRow
        /\ snap[s] \in ServiceRow
        /\ \A w \in Workload : workloads[w].version \in Nat
    BY <1>1 DEF Inv, TypeOK, StoreTypeOK, WorkloadRow
  <1>5. CASE snap' = services /\ services' = services
    <2>1. Inv'
      BY InvStep
    <2>2. \A w \in Workload : workloads'[w].service = s
             => workloads'[w].version <= services'[s].version
      BY <2>1 DEF Inv, VersionsBounded
    <2>3. QED BY <1>4, <1>5, <2>2 DEF ServiceRow
  <1>6. CASE snap'[s] \in {snap[s], AbsentService}
    <2>1. snap'[s] = snap[s] /\ snap[s].status = "ACTIVE"
      BY <1>6 DEF AbsentService
    <2>2. services[s].status # "ABSENT"
      BY <2>1 DEF Inv, SnapshotOK
    <2>3. snap[s].surge = services'[s].surge
      BY <1>1, <2>1, <2>2 DEF SurgeInv, SnapshotWithin, StrategyKept
    <2>4. snap[s].replicas <= services'[s].replicas
      BY <1>4, <2>1 DEF SurgeInv, SnapshotWithin, Undisturbed, ServiceRow
    <2>5. \A w \in Workload : workloads[w].service = s => workloads[w].version <= snap[s].version
      BY <2>1 DEF SurgeInv, SnapshotWithin
    <2>6. CASE Ages
      BY <2>1, <2>3, <2>4, <2>5, <2>6 DEF Ages, RowAges
    <2>7. CASE Inserts
      <3>1. \A w \in Workload :
               \/ workloads'[w] = workloads[w]
               \/ \E t \in Service : /\ workloads'[w].service = t
                                     /\ workloads'[w].version = snap[t].version
        BY <2>7 DEF Inserts, CreatePendingWorkloads, PendingRow
      <3>2. snap[s].version <= snap[s].version
        BY <1>4 DEF ServiceRow
      <3>3. QED BY <2>1, <2>3, <2>4, <2>5, <3>1, <3>2
    <2>8. QED BY <1>1, <2>6, <2>7
  <1>7. QED BY <1>3, <1>5, <1>6 DEF SnapshotAges

\* Whatever fails, crashes or is read too late, and however many new versions
\* clients bring, the controllers together never have more workloads of a
\* service active than its replicas plus its surge, as long as nobody scales
\* it down and no stop is taken back.
THEOREM SurgeRespected == Spec /\ [][Undisturbed]_vars => []SurgeBounded
  <1>1. Init => SurgeInv
    <2> SUFFICES ASSUME Init PROVE SurgeInv
      OBVIOUS
    <2>1. \A s \in Service : services[s] = AbsentService /\ snap[s] = AbsentService
      BY DEF Init, StoreInit, LocalInit
    <2>2. AbsentSurge /\ SnapshotWithin
      BY <2>1 DEF AbsentSurge, SnapshotWithin, AbsentService
    <2>3. \A s \in Service : {w \in ListWorkloadsByService(s) : isActive(w)} = {}
      BY DEF Init, StoreInit, AbsentWorkload, ListWorkloadsByService
    <2>4. SurgeBounded
      BY <2>1, <2>3, FS_EmptySet DEF SurgeBounded, AbsentService
    <2>5. QED BY <2>2, <2>4 DEF SurgeInv
  <1>2. Inv /\ SurgeInv /\ [Next]_vars /\ [Undisturbed]_vars => SurgeInv'
    <2> SUFFICES ASSUME Inv, SurgeInv, [Next]_vars, [Undisturbed]_vars PROVE SurgeInv'
      OBVIOUS
    <2>1. Undisturbed
      <3>1. CASE UNCHANGED vars
        <4>1. services' = services /\ workloads' = workloads
          BY <3>1 DEF vars, tables
        <4>2. \A s \in Service : services[s].replicas \in Nat
          BY DEF Inv, TypeOK, StoreTypeOK, ServiceRow
        <4>3. QED BY <4>1, <4>2 DEF Undisturbed, StopsKept
      <3>2. QED BY <3>1
    <2>2. QED BY <2>1, StepBounded, StepWithin DEF SurgeInv
  <1>3. SurgeInv => SurgeBounded
    BY DEF SurgeInv
  <1>4. QED BY <1>1, <1>2, <1>3, InvariantHolds, PTL DEF Spec

-----------------------------------------------------------------------------
(* The workloads of a service that serve.                                  *)

\* A step in which no container ends by itself, no lost node is recovered and
\* nobody resizes a service, and a surge of at most one.  AvailabilityKept
\* does not hold through other steps: a scale-down is guarded by less than
\* max_unavailable, and with more surge the end of a rollout is one.
Calm ==
    /\ \A n \in Node : ~RecoverNode(n)
    /\ \A n \in Node, w \in Workload : ~ContainerExits(n, w) /\ ~ContainerRemoved(n, w)
    /\ \A s \in Service : /\ services[s].surge <= 1
                          /\ services[s].status # "ABSENT" =>
                                services'[s].replicas = services[s].replicas

ServesOn(w, n) == workloads[w].container = n /\ containers[n][w] = "running"

\* The serving workloads that are not to stop, and the active ones of a
\* version.
Staying(s) == {w \in Serving(s) : workloads[w].desired # "STOPPED"}
OfVersion(s, v) == {w \in Active(s) : workloads[w].version = v}

\* When one of those that serve is to stop, enough of the others stay.
EnoughStay ==
    \A s \in Service :
        services[s].status = "ACTIVE" /\ Staying(s) # Serving(s) =>
            Cardinality(Staying(s)) >= services[s].replicas - services[s].unavailable

\* What is recorded as running, and is not to stop, does run.
RunningServes ==
    \A w \in Workload :
        workloads[w].actual = "RUNNING" /\ workloads[w].desired # "STOPPED" =>
            \E n \in Node : ServesOn(w, n)

\* No version has more active workloads than there are replicas, so the
\* replica controller never scales down.
NoExcess ==
    \A s \in Service : \A v \in Nat : Cardinality(OfVersion(s, v)) <= services[s].replicas

\* A cycle knows the terms of a service, and deletes only what is to be
\* deleted; only a service has workloads.
SnapshotTerms ==
    \A s \in Service :
        /\ snap[s].status = "ACTIVE" =>
              /\ snap[s].replicas = services[s].replicas
              /\ snap[s].surge = services[s].surge
              /\ snap[s].unavailable = services[s].unavailable
        /\ snap[s].status = "DELETING" => services[s].status \in {"DELETING", "DELETED"}
        /\ services[s].status = "ABSENT" => \A w \in Workload : workloads[w].service # s

\* The inductive invariant, beside Inv.
AvailInv == EnoughStay /\ RunningServes /\ NoExcess /\ SnapshotTerms

\* What most steps do to the rows and to the containers: no row is given a
\* container, or recorded as running, and only a container that is not
\* recorded, or is to stop, changes.
MildRows ==
    /\ StopsKept
    /\ \A w \in Workload :
          /\ workloads'[w].container = workloads[w].container
          /\ workloads'[w].actual = "RUNNING" => workloads[w].actual = "RUNNING"
MildContainers ==
    \A w \in Workload, n \in Node :
        \/ containers'[n][w] = containers[n][w]
        \/ workloads[w].desired = "STOPPED" /\ containers'[n][w] # "running"
        \/ workloads[w].container # n

\* The other step is a launch.
Launches ==
    /\ StopsKept
    /\ \E l \in Workload : \E m \in Node :
          /\ workloads[l].container = Null /\ workloads'[l].container = m
          /\ workloads'[l].desired = workloads[l].desired /\ workloads[l].desired # "STOPPED"
          /\ containers'[m][l] = "running"
          /\ \A w \in Workload \ {l} : /\ workloads'[w] = workloads[w]
                                       /\ \A n \in Node : containers'[n][w] = containers[n][w]

\* No workload is newly to stop; or those of one controller's decision are.
NoMarks ==
    \A w \in Workload : workloads'[w].desired = "STOPPED" => workloads[w].desired = "STOPPED"
Marks ==
    \E s \in Service : \E ids \in SUBSET ListWorkloadsByService(s) :
        /\ StopWorkloads(ids) /\ containers' = containers
        /\ \/ snap[s].status = "DELETING"
           \/ /\ snap[s].status = "ACTIVE"
              /\ \E w \in Workload : ids = {w} /\ isActive(w) /\ StopAllowed(w, s, snap[s])

\* A step that does not write the workloads table.
LEMMA MildKept == workloads' = workloads => MildRows /\ NoMarks
  BY DEF MildRows, NoMarks, StopsKept

\* Finished: a row takes a state other than RUNNING, or has it already.
LEMMA MildFinished ==
  ASSUME StoreTypeOK, NEW w \in Workload, NEW state,
         state # "RUNNING" \/ workloads[w].actual = "RUNNING",
         workloads' = [workloads EXCEPT ![w].actual = state]
  PROVE  MildRows /\ NoMarks
  BY DEF StoreTypeOK, WorkloadRow, MildRows, NoMarks, StopsKept

\* The desired state of rows becomes STOPPED.
LEMMA MildStopped ==
  ASSUME StoreTypeOK, NEW ids, StopWorkloads(ids) PROVE MildRows
  BY DEF StoreTypeOK, WorkloadRow, StopWorkloads, MildRows, StopsKept

\* Nothing is stopped.
LEMMA MildStoppedNone ==
  ASSUME StoreTypeOK, StopWorkloads({}) PROVE MildRows /\ NoMarks
  BY DEF StoreTypeOK, WorkloadRow, StopWorkloads, MildRows, NoMarks, StopsKept

\* Rows are inserted.
LEMMA MildCreated ==
  ASSUME StoreTypeOK, RowsConsistent, NEW ids \in SUBSET FreeWorkload, NEW s, NEW svc,
         CreatePendingWorkloads(ids, s, svc)
  PROVE  MildRows /\ NoMarks
  <1>1. \A w \in ids : workloads[w].container = Null /\ workloads[w].desired = "ABSENT"
    BY DEF FreeWorkload, RowsConsistent, RowConsistent
  <1>2. /\ PendingRow(s, svc).container = Null /\ PendingRow(s, svc).desired = "PENDING"
        /\ PendingRow(s, svc).actual = "PENDING"
    BY DEF PendingRow
  <1>3. \A w \in Workload :
           workloads'[w] = IF w \in ids THEN PendingRow(s, svc) ELSE workloads[w]
    BY DEF CreatePendingWorkloads
  <1>4. QED BY <1>1, <1>2, <1>3 DEF MildRows, NoMarks, StopsKept

\* A node is reserved.
LEMMA MildReserved ==
  ASSUME StoreTypeOK, NEW w \in Workload, NEW n \in Node, workloads[w].desired = "PENDING",
         ReserveNodeForWorkload(w, n)
  PROVE  MildRows /\ NoMarks
  BY DEF StoreTypeOK, WorkloadRow, ReserveNodeForWorkload, MildRows, NoMarks, StopsKept

\* The container of w on n changes.
LEMMA MildContainer ==
  ASSUME TypeOK, NEW w \in Workload, NEW n \in Node, NEW status, SetContainer(n, w, status),
         \/ status = containers[n][w]
         \/ workloads[w].desired = "STOPPED" /\ status # "running"
         \/ workloads[w].container # n
  PROVE  MildContainers
  <1>1. \A v \in Workload, m \in Node :
           containers'[m][v] = IF m = n /\ v = w THEN status ELSE containers[m][v]
    BY DEF TypeOK, SetContainer
  <1>2. QED BY <1>1 DEF MildContainers

\* No active workload is counted twice: without old ones, none are in excess.
LEMMA NothingInExcess ==
  ASSUME Inv, NoExcess, SnapshotTerms, NEW s \in Service, snap[s].status = "ACTIVE",
         oldActiveWorkloads(s, snap[s].version) = {}
  PROVE  ~(MissingReplicas(s, snap[s]) < 0)
  <1> DEFINE v == snap[s].version
             counted == {w \in ListWorkloadsByService(s) :
                            workloads[w].version \in {0, v} /\ isActive(w)}
  <1>1. v \in Nat /\ \A w \in Workload : workloads[w].version \in Nat
    BY DEF Inv, TypeOK, StoreTypeOK, ServiceRow, WorkloadRow
  <1>2. \A w \in ListWorkloadsByService(s) : isActive(w) /\ w \in Workload => ~(workloads[w].version < v)
    BY DEF oldActiveWorkloads
  <1>3. \A w \in ListWorkloadsByService(s) : w \in Workload
    BY DEF ListWorkloadsByService
  <1>4. counted = OfVersion(s, v)
    BY <1>1, <1>2, <1>3 DEF OfVersion, Active
  <1>5. counted \in SUBSET Workload
    BY <1>3
  <1>6. Cardinality(counted) \in Nat /\ Cardinality(counted) <= services[s].replicas
    BY <1>1, <1>4, <1>5, WorkloadsFinite DEF NoExcess
  <1>7. MissingReplicas(s, snap[s]) = snap[s].replicas - Cardinality(counted)
    BY DEF MissingReplicas, countActiveReplicas
  <1>8. snap[s].replicas = services[s].replicas /\ services[s].replicas \in Nat
    BY DEF SnapshotTerms, Inv, TypeOK, StoreTypeOK, ServiceRow
  <1> HIDE DEF counted
  <1>9. QED BY <1>6, <1>7, <1>8

\* What a step does to rows and containers, in the sense above.
Orderly ==
    /\ \/ MildRows /\ MildContainers
       \/ Launches
    /\ NoMarks \/ Marks

\* The controllers stop workloads of one service only, and only when enough
\* of them stay.
LEMMA ControllersOrderly ==
  ASSUME Inv, AvailInv, NEW s \in Service, containers' = containers,
         \/ /\ snap[s].status = "ACTIVE"
            /\ \/ DeploymentController(s, snap[s])
               \/ ReplicaController(s, snap[s])
               \/ ReplicaControllerPart(s, snap[s])
         \/ /\ snap[s].status = "DELETING"
            /\ DeletionController(s) \/ DeletionControllerPart(s)
  PROVE  Orderly
  <1>1. StoreTypeOK /\ RowsConsistent
    BY DEF Inv, TypeOK
  <1>2. MildContainers
    BY DEF MildContainers
  <1>3. ASSUME MildRows /\ NoMarks PROVE Orderly
    BY <1>2, <1>3 DEF Orderly
  <1>4. ASSUME workloads' = workloads PROVE Orderly
    BY <1>3, <1>4, MildKept
  <1>5. ASSUME NEW ids \in SUBSET FreeWorkload, CreatePendingWorkloads(ids, s, snap[s])
        PROVE  Orderly
    BY <1>1, <1>3, <1>5, MildCreated
  <1>6. CASE /\ snap[s].status = "DELETING"
             /\ DeletionController(s) \/ DeletionControllerPart(s)
    <2>1. ASSUME NEW ids \in SUBSET UnfinishedWorkloads(s), StopWorkloads(ids) PROVE Orderly
      <3>1. ids \in SUBSET ListWorkloadsByService(s)
        BY DEF UnfinishedWorkloads
      <3>2. Marks
        BY <1>6, <2>1, <3>1 DEF Marks
      <3>3. QED BY <1>1, <1>2, <2>1, <3>2, MildStopped DEF Orderly
    <2>2. QED
      BY <1>4, <1>6, <2>1 DEF DeletionController, DeletionControllerPart, MarkServiceDeleted
  <1>7. CASE snap[s].status = "ACTIVE" /\ DeploymentController(s, snap[s])
    <2>1. {w \in FreeWorkload : FALSE} \in SUBSET FreeWorkload
          /\ \A w \in FreeWorkload : {w} \in SUBSET FreeWorkload
      OBVIOUS
    <2>2. ASSUME NEW w \in oldActiveWorkloads(s, snap[s].version),
                 StopWorkloads(IF StopAllowed(w, s, snap[s]) THEN {w} ELSE {})
          PROVE  Orderly
      <3>1. CASE ~StopAllowed(w, s, snap[s])
        <4>1. StopWorkloads({})
          BY <2>2, <3>1
        <4>2. QED BY <1>1, <1>3, <4>1, MildStoppedNone
      <3>2. CASE StopAllowed(w, s, snap[s])
        <4>1. StopWorkloads({w})
          BY <2>2, <3>2
        <4>2. w \in Workload /\ isActive(w) /\ {w} \in SUBSET ListWorkloadsByService(s)
          BY DEF oldActiveWorkloads, ListWorkloadsByService
        <4>3. Marks
          BY <1>7, <3>2, <4>1, <4>2 DEF Marks
        <4>4. QED BY <1>1, <1>2, <4>1, <4>3, MildStopped DEF Orderly
      <3>3. QED BY <3>1, <3>2
    <2>3. QED BY <1>4, <1>5, <1>7, <2>1, <2>2 DEF DeploymentController, tables
  <1>8. CASE /\ snap[s].status = "ACTIVE"
             /\ ReplicaController(s, snap[s]) \/ ReplicaControllerPart(s, snap[s])
    <2>1. ~ReplicasIdle(s, snap[s]) => ~(MissingReplicas(s, snap[s]) < 0)
      BY <1>8, NothingInExcess DEF ReplicasIdle, AvailInv
    <2>2. QED
      BY <1>4, <1>5, <1>8, <2>1 DEF ReplicaController, ReplicaControllerPart, tables
  <1>9. QED BY <1>6, <1>7, <1>8

\* Clients write neither workloads nor containers.
LEMMA ClientOrderly == ASSUME ClientStep PROVE workloads' = workloads /\ containers' = containers
  <1> DEFINE Kept == workloads' = workloads /\ containers' = containers
  <1>1. ASSUME NEW n, NEW cap, registerNode(n, cap) PROVE Kept
    BY <1>1 DEF registerNode, RegisterNode
  <1>2. ASSUME NEW n, heartbeat(n) PROVE Kept
    BY <1>2 DEF heartbeat, UpdateHeartbeat
  <1>3. ASSUME NEW s, NEW replicas, NEW req, NEW strategy,
               createService(s, replicas, req, strategy)
        PROVE Kept
    BY <1>3 DEF createService, CreateService
  <1>4. ASSUME NEW s, NEW replicas, NEW req, NEW newImage,
               updateService(s, replicas, req, newImage)
        PROVE Kept
    BY <1>4 DEF updateService, UpdateService
  <1>5. ASSUME NEW s, deleteService(s) PROVE Kept
    BY <1>5 DEF deleteService, MarkServiceDeleting
  <1>6. QED BY <1>1, <1>2, <1>3, <1>4, <1>5 DEF ClientStep

\* The steps of a calm behaviour are orderly.
LEMMA StepOrderly == ASSUME Inv, AvailInv, Calm, [Next]_vars PROVE Orderly
  <1>0. /\ TypeOK /\ StoreTypeOK /\ CursorOK /\ RowsConsistent /\ VisitOK
        /\ ListingOK /\ PendOK /\ TodoOK /\ ReserveOK
    BY DEF Inv, TypeOK
  <1>1. ASSUME MildRows, NoMarks, MildContainers PROVE Orderly
    BY <1>1 DEF Orderly
  <1>2. ASSUME containers' = containers PROVE MildContainers
    BY <1>2 DEF MildContainers
  <1>3. ASSUME workloads' = workloads, MildContainers PROVE Orderly
    BY <1>1, <1>3, MildKept
  <1>4. CASE ClientStep
    BY <1>2, <1>3, <1>4, ClientOrderly
  <1>5. \A w \in Workload : workloads[w].desired = "SCHEDULED" /\ NeedsExecution(workloads[w])
           => workloads[w].actual = "PENDING" /\ workloads[w].node \in Node
                /\ workloads[w].container = Null
    BY <1>0
    DEF NeedsExecution, RowsConsistent, RowConsistent, StoreTypeOK, WorkloadRow
  <1>6. \A status : StoppedContainer(status) # "running"
    BY DEF StoppedContainer
  <1>7. ASSUME NEW w \in Workload, LaunchFails(w) PROVE Orderly
    <2>1. workloads[w].desired = "SCHEDULED" /\ NeedsExecution(workloads[w])
      BY <1>0, <1>7 DEF LaunchFails, ToLaunch, TodoOK
    <2>2. workloads[w].node \in Node /\ workloads[w].container # workloads[w].node
      BY <1>5, <2>1, NullAssumption
    <2>3. \E status : SetContainer(workloads[w].node, w, status)
      BY <1>7 DEF LaunchFails
    <2>4. MildContainers
      BY <1>0, <2>2, <2>3, MildContainer
    <2>5. \/ workloads' = workloads
          \/ workloads' = [workloads EXCEPT ![w].actual = "FAILED"]
      BY <1>7 DEF LaunchFails, tables, MarkWorkloadFailedAndReleaseResources, FinishAndRelease
    <2>6. QED BY <1>0, <1>1, <1>3, <2>4, <2>5, MildFinished
  <1>8. ASSUME NEW w \in Workload, NEW n \in Node, workloads[w].desired = "STOPPED",
               \E status : /\ SetContainer(n, w, status)
                           /\ status = containers[n][w] \/ status # "running"
        PROVE  MildContainers
    BY <1>0, <1>8, MildContainer
  <1>9. CASE FaultStep
    <2>1. CASE ReplicasFail
      <3>1. /\ curService \in Service /\ snap[curService].status = "ACTIVE"
            /\ ReplicaControllerPart(curService, snap[curService])
            /\ containers' = containers
        BY <1>0, <2>1 DEF ReplicasFail, CursorOK, VisitOK
      <3>2. QED BY <3>1, ControllersOrderly
    <2>2. ASSUME NEW w \in Workload, StopTrackedFails(w) PROVE Orderly
      <3>1. /\ curNode \in Node /\ workloads[w].desired = "STOPPED" /\ workloads' = workloads
            /\ \E status \in {containers[curNode][w], StoppedContainer(containers[curNode][w])} :
                  SetContainer(curNode, w, status)
        BY <1>0, <2>2 DEF StopTrackedFails, StopRequested, CursorOK, tables
      <3>2. QED BY <1>3, <1>6, <1>8, <3>1
    <2>3. ASSUME NEW w \in Workload, StopFails(w) PROVE Orderly
      <3>1. workloads[w].desired = "STOPPED" /\ workloads' = workloads
        BY <2>3 DEF StopFails, ToStop, tables
      <3>2. CASE workloads[w].container = Null
        BY <1>2, <1>3, <2>3, <3>1, <3>2 DEF StopFails
      <3>3. CASE workloads[w].container # Null
        <4>1. workloads[w].container \in Node
          BY <1>0, <3>3 DEF StoreTypeOK, WorkloadRow
        <4>2. LET n == workloads[w].container
              IN  \E status \in {containers[n][w], StoppedContainer(containers[n][w]), "none"} :
                     SetContainer(n, w, status)
          BY <2>3, <3>3 DEF StopFails
        <4>3. QED BY <1>3, <1>6, <1>8, <3>1, <4>1, <4>2
      <3>4. QED BY <3>2, <3>3
    <2>4. CASE NodeAborted
      <3>1. workloads' = workloads /\ curNode \in Node
        BY <1>0, <2>4 DEF NodeAborted, CursorOK, tables
      <3>2. ASSUME NEW w \in pend, StopRequested(w),
                   SetContainer(curNode, w, StoppedContainer(containers[curNode][w]))
            PROVE  MildContainers
        <4>1. w \in Workload /\ workloads[w].desired = "STOPPED"
          BY <1>0, <3>2 DEF StopRequested, TypeOK
        <4>2. QED BY <1>6, <1>8, <3>1, <3>2, <4>1
      <3>3. QED BY <1>2, <1>3, <2>4, <3>1, <3>2 DEF NodeAborted
    <2>5. CASE \/ \E n \in Node : markUnhealthy(n) \/ NodeCallFails(n)
               \/ \E w \in Workload : LookupFails(w)
               \/ ServiceFails \/ ListingFails \/ Crash
      <3>1. workloads' = workloads /\ containers' = containers
        BY <2>5
        DEF markUnhealthy, SetNodeStatus, NodeCallFails, LookupFails, ServiceFails, ListingFails, Crash, tables
      <3>2. QED BY <1>2, <1>3, <3>1
    <2>6. QED BY <1>7, <1>9, <2>1, <2>2, <2>3, <2>4, <2>5 DEF FaultStep, Calm
  <1>10. CASE CycleStep
    <2>1. ASSUME NEW w \in Workload, StopTracked(w) PROVE Orderly
      <3>1. /\ curNode \in Node /\ workloads[w].desired = "STOPPED"
            /\ workloads' = [workloads EXCEPT ![w].actual = "STOPPED"]
            /\ SetContainer(curNode, w, StoppedContainer(containers[curNode][w]))
        BY <1>0, <2>1 DEF StopTracked, StopRequested, CursorOK, UpdateWorkloadActualState
      <3>2. MildContainers
        BY <1>6, <1>8, <3>1
      <3>3. QED BY <1>0, <1>1, <3>1, <3>2, MildFinished
    <2>2. ASSUME NEW w \in Workload, SyncTracked(w) PROVE Orderly
      <3>1. pc = "containers" /\ w \in pend /\ curNode \in Node /\ containers' = containers
        BY <1>0, <2>2 DEF SyncTracked, CursorOK
      <3>2. /\ workloads[w].container = curNode /\ listed[w] # "created"
            /\ workloads[w].actual \in Finished => listed[w] # "running"
        BY <1>0, <3>1 DEF PendOK, ListingOK
      <3>3. listed[w] = "running" => workloads[w].actual = "RUNNING"
        BY <1>0, <3>1, <3>2, NullAssumption
        DEF RowsConsistent, RowConsistent, StoreTypeOK, WorkloadRow, Unfinished, Finished
      <3>4. \/ workloads' = workloads
            \/ workloads' = [workloads EXCEPT ![w].actual = "FAILED"]
            \/ listed[w] = "running" /\ workloads' = [workloads EXCEPT ![w].actual = "RUNNING"]
        BY <2>2, <3>2
        DEF SyncTracked, containerState, MarkWorkloadFailedAndReleaseResources,
            FinishAndRelease, UpdateWorkloadActualState
      <3>5. QED BY <1>0, <1>1, <1>2, <1>3, <3>1, <3>3, <3>4, MildFinished
    <2>3. ASSUME NEW w \in Workload, FailMissing(w) PROVE Orderly
      <3>1. \/ workloads' = workloads
            \/ workloads' = [workloads EXCEPT ![w].actual = "FAILED"]
        BY <2>3 DEF FailMissing, MarkWorkloadFailedAndReleaseResources, FinishAndRelease
      <3>2. containers' = containers
        BY <2>3 DEF FailMissing
      <3>3. QED BY <1>0, <1>1, <1>2, <1>3, <3>1, <3>2, MildFinished
    <2>4. ASSUME NEW s \in Service, ReconcileDeletion(s) \/ ReconcileDeployment(s) PROVE Orderly
      BY <2>4, ControllersOrderly DEF ReconcileDeletion, ReconcileDeployment
    <2>5. CASE ReconcileReplicas
      BY <1>0, <2>5, ControllersOrderly DEF ReconcileReplicas, CursorOK, VisitOK
    <2>6. CASE ReplicasOutOfIds
      <3>1. containers' = containers
            /\ CreatePendingWorkloads(FreeWorkload, curService, snap[curService])
        BY <2>6 DEF ReplicasOutOfIds
      <3>2. QED BY <1>0, <1>1, <1>2, <3>1, MildCreated
    <2>7. CASE Reserve
      <3>1. /\ curWorkload \in Workload /\ curNode \in Node /\ containers' = containers
            /\ workloads[curWorkload].desired = "PENDING"
            /\ ReserveNodeForWorkload(curWorkload, curNode)
        BY <1>0, <2>7 DEF Reserve, CursorOK, ReserveOK
      <3>2. QED BY <1>0, <1>1, <1>2, <3>1, MildReserved
    <2>8. ASSUME NEW w \in Workload, Launch(w) PROVE Orderly
      <3> DEFINE m == workloads[w].node
      <3>1. workloads[w].desired = "SCHEDULED" /\ NeedsExecution(workloads[w])
        BY <1>0, <2>8 DEF Launch, ToLaunch, TodoOK
      <3>2. m \in Node /\ workloads[w].container = Null
        BY <1>5, <3>1
      <3>3. /\ workloads' = [workloads EXCEPT ![w].container = m, ![w].actual = "RUNNING"]
            /\ containers' = [containers EXCEPT ![m][w] = "running"]
        BY <2>8 DEF Launch, MarkWorkloadRunning, SetContainer
      <3> HIDE DEF m
      <3>4. /\ workloads'[w].container = m /\ workloads'[w].desired = "SCHEDULED"
            /\ \A v \in Workload \ {w} : workloads'[v] = workloads[v]
        BY <1>0, <3>1, <3>3 DEF StoreTypeOK, WorkloadRow
      <3>5. /\ containers'[m][w] = "running"
            /\ \A v \in Workload \ {w} : \A n \in Node : containers'[n][v] = containers[n][v]
        BY <1>0, <3>2, <3>3 DEF TypeOK
      <3>6. StopsKept /\ NoMarks
        BY <3>1, <3>4 DEF StopsKept, NoMarks
      <3>7. Launches
        BY <3>1, <3>2, <3>4, <3>5, <3>6 DEF Launches
      <3>8. QED BY <3>6, <3>7 DEF Orderly
    <2>9. ASSUME NEW w \in Workload, Stop(w) PROVE Orderly
      <3>1. /\ workloads[w].desired = "STOPPED"
            /\ \/ workloads' = workloads
               \/ workloads' = [workloads EXCEPT ![w].actual = "STOPPED"]
        BY <2>9 DEF Stop, ToStop, MarkWorkloadStoppedAndReleaseResources, FinishAndRelease
      <3>2. MildContainers
        <4>1. CASE workloads[w].container = Null
          BY <1>2, <2>9, <4>1 DEF Stop
        <4>2. CASE workloads[w].container # Null
          <5>1. workloads[w].container \in Node /\ SetContainer(workloads[w].container, w, "none")
            BY <1>0, <2>9, <4>2 DEF Stop, StoreTypeOK, WorkloadRow
          <5>2. QED BY <1>8, <3>1, <5>1
        <4>3. QED BY <4>1, <4>2
      <3>3. QED BY <1>0, <1>1, <1>3, <3>1, <3>2, MildFinished
    <2>10. CASE ReconcileStatus
      <3>1. workloads' = workloads /\ containers' = containers
        BY <2>10
        DEF ReconcileStatus, DeploymentStatusController, UpdateDeploymentStatus, tables
      <3>2. QED BY <1>2, <1>3, <3>1
    <2>11. CASE \/ \E w \in Workload : PickNode(w) \/ NoNode(w) \/ ExecuteOnly(w) \/ LaunchConflict(w)
                \/ \E s \in Service : SkipService(s) \/ DeploymentFails(s)
                \/ \E n \in Node : ReconcileNode(n)
      <3>1. workloads' = workloads /\ containers' = containers
        BY <2>11
        DEF PickNode, NoNode, ExecuteOnly, LaunchConflict, SkipService, DeploymentFails,
            ReconcileNode, tables
      <3>2. QED BY <1>2, <1>3, <3>1
    <2>12. CASE \/ ListServices \/ ListNodes \/ NodesDone \/ NodeDone \/ ServicesDone
                \/ ReserveFails \/ ExecuteDone
      <3>1. workloads' = workloads /\ containers' = containers
        BY <2>12
        DEF ListServices, ListNodes, NodesDone, NodeDone, ServicesDone, ReserveFails,
            ExecuteDone, tables
      <3>2. QED BY <1>2, <1>3, <3>1
    <2>13. QED
      BY <1>10, <2>1, <2>2, <2>3, <2>4, <2>5, <2>6, <2>7, <2>8, <2>9, <2>10, <2>11, <2>12
      DEF CycleStep, Calm
  <1>11. CASE UNCHANGED vars
    BY <1>2, <1>3, <1>11 DEF vars, tables
  <1>12. QED BY <1>4, <1>9, <1>10, <1>11 DEF Next

\* A row that exists stays with its service.
LEMMA OwnerKept ==
  ASSUME Inv, [Next]_vars
  PROVE  /\ (Ages \/ Inserts)
         /\ \A w \in Workload :
               /\ workloads[w].actual # "ABSENT" => workloads'[w].service = workloads[w].service
               /\ workloads[w].actual = "ABSENT" => workloads'[w].container = Null
  <1>1. /\ StoreTypeOK /\ StoreTypeOK' /\ (Ages \/ Inserts)
        /\ RowsConsistent /\ RowsConsistent'
    BY StepKnown, MovesAge, InvStep DEF Inv
  <1>2. CASE Ages
    BY <1>1, <1>2 DEF Ages, RowAges, RowsConsistent, RowConsistent
  <1>3. CASE Inserts
    <2>1. PICK s \in Service, ids \in SUBSET FreeWorkload :
             CreatePendingWorkloads(ids, s, snap[s])
      BY <1>3 DEF Inserts
    <2>2. \A w \in Workload :
             workloads'[w] = IF w \in ids THEN PendingRow(s, snap[s]) ELSE workloads[w]
      BY <2>1 DEF CreatePendingWorkloads
    <2>3. PendingRow(s, snap[s]).container = Null
      BY DEF PendingRow
    <2>4. QED BY <1>1, <2>1, <2>2, <2>3 DEF FreeWorkload, RowsConsistent, RowConsistent
  <1>4. QED BY <1>1, <1>2, <1>3

\* What an orderly step does to the containers that serve.
LEMMA ServesKept ==
  ASSUME Inv, RunningServes, Orderly
  PROVE  /\ StopsKept /\ RunningServes'
         /\ \A w \in Workload, n \in Node :
               /\ ServesOn(w, n) /\ workloads[w].desired # "STOPPED" => ServesOn(w, n)'
               /\ ServesOn(w, n)' => ServesOn(w, n) \/ workloads'[w].desired # "STOPPED"
  <1>1. StopsKept
    BY DEF Orderly, MildRows, Launches
  <1>2. CASE MildRows /\ MildContainers
    <2>1. \A w \in Workload, n \in Node :
             /\ ServesOn(w, n) /\ workloads[w].desired # "STOPPED" => ServesOn(w, n)'
             /\ ServesOn(w, n)' => ServesOn(w, n) \/ workloads'[w].desired # "STOPPED"
      BY <1>2 DEF MildRows, MildContainers, ServesOn
    <2>2. RunningServes'
      BY <1>1, <1>2, <2>1 DEF MildRows, RunningServes, StopsKept
    <2>3. QED BY <1>1, <2>1, <2>2
  <1>3. CASE Launches
    <2>1. PICK l \in Workload, m \in Node :
             /\ workloads[l].container = Null /\ workloads'[l].container = m
             /\ workloads'[l].desired = workloads[l].desired /\ workloads[l].desired # "STOPPED"
             /\ containers'[m][l] = "running"
             /\ \A w \in Workload \ {l} : /\ workloads'[w] = workloads[w]
                                          /\ \A n \in Node : containers'[n][w] = containers[n][w]
      BY <1>3 DEF Launches
    <2>2. \A w \in Workload, n \in Node :
             /\ ServesOn(w, n) /\ workloads[w].desired # "STOPPED" => ServesOn(w, n)'
             /\ ServesOn(w, n)' => ServesOn(w, n) \/ workloads'[w].desired # "STOPPED"
      BY <2>1, NullAssumption DEF ServesOn
    <2>3. ServesOn(l, m)'
      BY <2>1 DEF ServesOn
    <2>4. RunningServes'
      BY <2>1, <2>2, <2>3 DEF RunningServes
    <2>5. QED BY <1>1, <2>2, <2>4
  <1>4. QED BY <1>2, <1>3 DEF Orderly

\* Those that serve and are not to stop go on serving, and what begins to
\* serve is not to stop.
LEMMA ServingKept ==
  ASSUME Inv, AvailInv, Calm, [Next]_vars, NEW s \in Service
  PROVE  /\ Staying(s) \subseteq Serving(s)'
         /\ \A w \in Serving(s)' : w \in Serving(s) \/ workloads'[w].desired # "STOPPED"
  <1>1. /\ \A w \in Workload, n \in Node :
              /\ ServesOn(w, n) /\ workloads[w].desired # "STOPPED" => ServesOn(w, n)'
              /\ ServesOn(w, n)' => ServesOn(w, n) \/ workloads'[w].desired # "STOPPED"
    BY StepOrderly, ServesKept DEF AvailInv
  <1>2. \A w \in Workload :
           /\ workloads[w].actual # "ABSENT" => workloads'[w].service = workloads[w].service
           /\ workloads[w].actual = "ABSENT" => workloads'[w].container = Null
    BY OwnerKept
  <1>3. \A w \in Workload : workloads'[w].service = s => workloads'[w].actual # "ABSENT"
    BY InvStep, NullAssumption DEF Inv, RowsConsistent, RowConsistent
  <1>4. /\ \A w : w \in Serving(s) <=> /\ w \in Workload /\ workloads[w].actual # "ABSENT"
                                       /\ workloads[w].service = s
                                       /\ \E n \in Node : ServesOn(w, n)
        /\ \A w : w \in Serving(s)' <=> /\ w \in Workload /\ workloads'[w].actual # "ABSENT"
                                        /\ workloads'[w].service = s
                                        /\ \E n \in Node : ServesOn(w, n)'
    BY DEF Serving, ListWorkloadsByService, ServesOn
  <1>5. Staying(s) \subseteq Serving(s)'
    BY <1>1, <1>2, <1>3, <1>4 DEF Staying
  <1>6. ASSUME NEW w \in Serving(s)', workloads'[w].desired = "STOPPED" PROVE w \in Serving(s)
    <2>1. w \in Workload /\ workloads'[w].service = s
      BY <1>4, <1>6
    <2>2. PICK n \in Node : ServesOn(w, n)' /\ ServesOn(w, n)
      BY <1>1, <1>4, <1>6, <2>1
    <2>3. workloads[w].actual # "ABSENT"
      BY <1>2, <2>1, <2>2, NullAssumption DEF ServesOn
    <2>4. QED BY <1>2, <1>4, <2>1, <2>2, <2>3
  <1>7. QED BY <1>5, <1>6

\* Those that stay are the ones the deployment controller counts.
LEMMA StayingCounted ==
  ASSUME Inv, RunningServes, NEW s \in Service
  PROVE  Staying(s) = runningActiveWorkloads(s)
  <1>1. ASSUME NEW w \in Staying(s) PROVE w \in runningActiveWorkloads(s)
    <2>1. PICK n \in Node : workloads[w].container = n /\ containers[n][w] = "running"
      BY <1>1 DEF Staying, Serving
    <2>2. w \in Workload /\ w \in ListWorkloadsByService(s) /\ workloads[w].desired # "STOPPED"
      BY <1>1 DEF Staying, Serving, ListWorkloadsByService
    <2>3. workloads[w].actual \notin Finished
      BY <2>1, <2>2 DEF Inv, FinishedNotRunning
    <2>4. workloads[w].actual = "RUNNING"
      BY <2>1, <2>2, <2>3, NullAssumption
      DEF Inv, RowsConsistent, RowConsistent, TypeOK, StoreTypeOK, WorkloadRow, Unfinished
    <2>5. QED BY <2>2, <2>4 DEF runningActiveWorkloads
  <1>2. ASSUME NEW w \in runningActiveWorkloads(s) PROVE w \in Staying(s)
    BY <1>2 DEF runningActiveWorkloads, RunningServes, ServesOn, Staying, Serving,
                ListWorkloadsByService
  <1>3. QED BY <1>1, <1>2

\* Sets of workloads of a service are finite.
LEMMA ServingFinite ==
  \A s \in Service : /\ Serving(s) \in SUBSET Workload /\ Staying(s) \in SUBSET Workload
                     /\ Serving(s)' \in SUBSET Workload /\ Staying(s)' \in SUBSET Workload
  BY DEF Serving, Staying, ListWorkloadsByService

\* A calm step keeps EnoughStay.
LEMMA StepEnough == ASSUME Inv, AvailInv, Calm, [Next]_vars PROVE EnoughStay'
  <1> SUFFICES ASSUME NEW s \in Service, services'[s].status = "ACTIVE",
                      Staying(s)' # Serving(s)'
               PROVE  Cardinality(Staying(s)')
                         >= services'[s].replicas - services'[s].unavailable
    BY DEF EnoughStay
  <1>1. /\ Staying(s) \subseteq Serving(s)'
        /\ \A w \in Serving(s)' : w \in Serving(s) \/ workloads'[w].desired # "STOPPED"
    BY ServingKept
  <1>2. PICK v \in Serving(s)' : workloads'[v].desired = "STOPPED" /\ v \in Serving(s)
    <2>1. Staying(s)' \subseteq Serving(s)'
      BY DEF Staying
    <2>2. PICK v \in Serving(s)' : v \notin Staying(s)'
      BY <2>1
    <2>3. QED BY <1>1, <2>2 DEF Staying
  <1>3. services[s].status = "ACTIVE"
    <2>1. services[s].status # "ABSENT"
      BY <1>2 DEF AvailInv, SnapshotTerms, Serving, ListWorkloadsByService
    <2>2. QED BY <2>1, StepStrategy DEF StrategyKept
  <1>4. /\ services'[s].replicas = services[s].replicas
        /\ services'[s].unavailable = services[s].unavailable
        /\ services[s].replicas - services[s].unavailable \in Int
    BY <1>3, StepStrategy DEF StrategyKept, Calm, Inv, TypeOK, StoreTypeOK, ServiceRow
  <1> DEFINE need == services[s].replicas - services[s].unavailable
  <1>5. /\ IsFiniteSet(Staying(s)) /\ Cardinality(Staying(s)) \in Nat
        /\ IsFiniteSet(Staying(s)') /\ Cardinality(Staying(s)') \in Nat
    BY ServingFinite, WorkloadsFinite
  <1>6. SUFFICES Cardinality(Staying(s)') >= need
    BY <1>4
  <1> HIDE DEF need
  <1>7. need \in Int
    BY <1>4 DEF need
  <1>8. ASSUME \A w \in Serving(s) : workloads'[w].desired = "STOPPED"
                                        => workloads[w].desired = "STOPPED"
        PROVE  Cardinality(Staying(s)') >= need
    <2>1. Staying(s) \subseteq Staying(s)'
      BY <1>1, <1>8 DEF Staying
    <2>2. Staying(s) # Serving(s)
      BY <1>2, <1>8 DEF Staying
    <2>3. Cardinality(Staying(s)) >= need
      BY <1>3, <2>2 DEF AvailInv, EnoughStay, need
    <2>4. Cardinality(Staying(s)) <= Cardinality(Staying(s)')
      BY <1>5, <2>1, FS_Subset
    <2>5. QED BY <1>5, <1>7, <2>3, <2>4
  <1>9. \A w \in Serving(s) : w \in Workload /\ workloads[w].service = s
    BY DEF Serving, ListWorkloadsByService
  <1>10. CASE NoMarks
    BY <1>8, <1>9, <1>10 DEF NoMarks
  <1>11. CASE Marks
    <2>1. PICK t \in Service, ids \in SUBSET Workload :
             /\ ids \subseteq ListWorkloadsByService(t)
             /\ StopWorkloads(ids)
             /\ \/ snap[t].status = "DELETING"
                \/ /\ snap[t].status = "ACTIVE"
                   /\ \E w \in Workload : ids = {w} /\ isActive(w) /\ StopAllowed(w, t, snap[t])
      BY <1>11 DEF Marks, ListWorkloadsByService
    <2>2. \A w \in Workload : w \notin ids => workloads'[w] = workloads[w]
      BY <2>1 DEF StopWorkloads
    <2>3. CASE ids \cap Serving(s) = {}
      BY <1>8, <1>9, <2>2, <2>3
    <2>4. CASE ids \cap Serving(s) # {}
      <3>1. t = s
        BY <1>9, <2>1, <2>4 DEF ListWorkloadsByService
      <3>2. snap[s].status # "DELETING"
        BY <1>3 DEF AvailInv, SnapshotTerms
      <3>3. PICK w \in Workload : ids = {w} /\ isActive(w) /\ StopAllowed(w, s, snap[s])
        BY <2>1, <3>1, <3>2
      <3>4. w \in Serving(s) /\ w \in Staying(s)
        BY <2>4, <3>3 DEF Staying, isActive
      <3>5. Staying(s) = runningActiveWorkloads(s)
        BY StayingCounted DEF AvailInv
      <3>6. workloads[w].actual = "RUNNING"
        BY <3>4, <3>5 DEF runningActiveWorkloads
      <3>7. snap[s].replicas - snap[s].unavailable = need
        BY <2>1, <3>1, <3>2 DEF AvailInv, SnapshotTerms, need
      <3>8. Cardinality(Staying(s)) - 1 >= need
        BY <3>3, <3>5, <3>6, <3>7 DEF StopAllowed
      <3>9. Staying(s) \ {w} \subseteq Staying(s)'
        BY <1>1, <1>9, <2>2, <3>3 DEF Staying
      <3>10. /\ IsFiniteSet(Staying(s) \ {w})
             /\ Cardinality(Staying(s) \ {w}) = Cardinality(Staying(s)) - 1
        BY <1>5, <3>4, FS_RemoveElement
      <3>11. Cardinality(Staying(s) \ {w}) <= Cardinality(Staying(s)')
        BY <1>5, <3>9, FS_Subset
      <3>12. QED BY <1>5, <1>7, <3>8, <3>10, <3>11
    <2>5. QED BY <2>3, <2>4
  <1>12. QED BY <1>10, <1>11, StepOrderly DEF Orderly

\* Nothing is inserted for a row that is no service yet.
LEMMA AbsentStaysEmpty ==
  ASSUME Inv, SnapshotTerms, [Next]_vars, NEW s \in Service, services[s].status = "ABSENT"
  PROVE  \A w \in Workload : workloads'[w].service # s
  <1> SUFFICES ASSUME NEW w \in Workload PROVE workloads'[w].service # s
    OBVIOUS
  <1>1. (Ages \/ Inserts) /\ workloads[w].service # s
    BY OwnerKept DEF SnapshotTerms
  <1>2. CASE Ages
    BY <1>1, <1>2 DEF Ages, RowAges
  <1>3. CASE Inserts
    <2>1. PICK t \in Service, ids \in SUBSET FreeWorkload :
             snap[t].status = "ACTIVE" /\ CreatePendingWorkloads(ids, t, snap[t])
      BY <1>3 DEF Inserts
    <2>2. t # s
      BY <2>1 DEF Inv, SnapshotOK
    <2>3. workloads'[w].service \in {workloads[w].service, t}
      BY <2>1 DEF CreatePendingWorkloads, PendingRow
    <2>4. QED BY <1>1, <2>2, <2>3
  <1>4. QED BY <1>1, <1>2, <1>3

\* A calm step keeps the terms of the snapshot.
LEMMA StepTerms == ASSUME Inv, AvailInv, Calm, [Next]_vars PROVE SnapshotTerms'
  <1>1. /\ SnapshotAges /\ StrategyKept /\ (Ages \/ Inserts)
        /\ SnapshotOK /\ SnapshotTerms /\ StoreTypeOK'
    BY InvParts, StepSnapshot, StepStrategy, OwnerKept, StepKnown DEF Known, Inv, AvailInv
  <1>2. \A s \in Service : services'[s].status \in {"ABSENT", "ACTIVE", "DELETING", "DELETED"}
    BY <1>1 DEF StoreTypeOK, ServiceRow
  <1>3. \A s \in Service : services'[s].status = "ABSENT" => services[s].status = "ABSENT"
    BY <1>1 DEF StrategyKept
  <1>4. ASSUME NEW s \in Service, services'[s].status = "ABSENT"
        PROVE  \A w \in Workload : workloads'[w].service # s
    BY <1>1, <1>3, <1>4, AbsentStaysEmpty
  <1>5. ASSUME NEW s \in Service, snap'[s].status = "ACTIVE"
        PROVE  /\ snap'[s].replicas = services'[s].replicas
               /\ snap'[s].surge = services'[s].surge
               /\ snap'[s].unavailable = services'[s].unavailable
    <2>1. CASE snap' = services /\ services' = services
      BY <2>1
    <2>2. CASE snap'[s] \in {snap[s], AbsentService}
      <3>1. snap'[s] = snap[s] /\ services[s].status # "ABSENT"
        BY <1>1, <1>5, <2>2 DEF AbsentService, SnapshotOK
      <3>2. QED BY <1>1, <1>5, <3>1 DEF SnapshotTerms, StrategyKept, Calm
    <2>3. QED BY <1>1, <2>1, <2>2 DEF SnapshotAges
  <1>6. ASSUME NEW s \in Service, snap'[s].status = "DELETING"
        PROVE  services'[s].status \in {"DELETING", "DELETED"}
    <2>1. CASE snap' = services /\ services' = services
      BY <1>6, <2>1
    <2>2. CASE snap'[s] \in {snap[s], AbsentService}
      <3>1. services[s].status \in {"DELETING", "DELETED"}
        BY <1>1, <1>6, <2>2 DEF AbsentService, SnapshotTerms
      <3>2. QED BY <1>1, <1>2, <3>1 DEF StrategyKept
    <2>3. QED BY <1>1, <2>1, <2>2 DEF SnapshotAges
  <1>7. QED BY <1>4, <1>5, <1>6 DEF SnapshotTerms

\* What the controllers insert is not in excess: a replacement is for an old
\* workload, which takes one of at most replicas + 1 places.
LEMMA InsertNoExcess ==
  ASSUME Inv, AvailInv, Calm, NEW s \in Service, snap[s].status = "ACTIVE",
         NEW ids \in SUBSET FreeWorkload, InsertAllowed(s, snap[s], ids)
  PROVE  Cardinality(OfVersion(s, snap[s].version)) + Cardinality(ids) <= services[s].replicas
  <1> DEFINE ver == snap[s].version
             old == oldActiveWorkloads(s, ver)
             new == newActiveWorkloads(s, ver)
             counted == {w \in ListWorkloadsByService(s) :
                            workloads[w].version \in {0, ver} /\ isActive(w)}
             o == Cardinality(old)
             k == Cardinality(new)
             c == Cardinality(counted)
             i == Cardinality(ids)
             r == snap[s].replicas
             g == snap[s].surge
  <1>1. OfVersion(s, ver) = new
    BY DEF OfVersion, Active, newActiveWorkloads
  <1>2. new \subseteq counted
    BY DEF newActiveWorkloads
  <1>3. /\ old \in SUBSET Workload /\ new \in SUBSET Workload /\ counted \in SUBSET Workload
        /\ ids \in SUBSET Workload
    BY DEF oldActiveWorkloads, newActiveWorkloads, ListWorkloadsByService, FreeWorkload
  <1>4. r \in Nat /\ g \in Nat /\ r = services[s].replicas /\ g <= 1
    BY DEF AvailInv, SnapshotTerms, Calm, Inv, TypeOK, StoreTypeOK, ServiceRow
  <1>5. countActiveReplicas(s, ver) = c
    BY DEF countActiveReplicas
  <1>6. InsertAllowed(s, snap[s], ids) =>
           \/ old # {} /\ o + k < r + g /\ \E w : ids = {w}
           \/ i = r - c \/ i < r - c
    BY <1>5 DEF InsertAllowed, SurgeAllowed, MissingReplicas
  <1> HIDE DEF old, new, counted, ver, r, g
  <1>7. /\ o \in Nat /\ k \in Nat /\ c \in Nat /\ i \in Nat
        /\ IsFiniteSet(old) /\ IsFiniteSet(counted)
    BY <1>3, WorkloadsFinite
  <1>8. k <= c
    BY <1>2, <1>7, FS_Subset
  <1>9. old # {} => o # 0
    BY <1>7, FS_EmptySet
  <1>10. (\E w : ids = {w}) => i = 1
    BY FS_Singleton
  <1> HIDE DEF o, k, c, i
  <1>11. k + i <= r
    <2>1. CASE i = r - c \/ i < r - c
      BY <1>4, <1>7, <1>8, <2>1
    <2>2. CASE old # {} /\ o + k < r + g /\ \E w : ids = {w}
      <3>1. o # 0 /\ i = 1 /\ o + k < r + g
        BY <1>9, <1>10, <2>2
      <3>2. QED BY <1>4, <1>7, <3>1
    <2>3. QED BY <1>6, <2>1, <2>2
  <1>12. QED BY <1>1, <1>4, <1>11 DEF k, i, ver

\* A calm step keeps NoExcess.
LEMMA StepNoExcess == ASSUME Inv, AvailInv, Calm, [Next]_vars PROVE NoExcess'
  <1> SUFFICES ASSUME NEW s \in Service, NEW v \in Nat
               PROVE  Cardinality(OfVersion(s, v)') <= services'[s].replicas
    BY DEF NoExcess
  <1>1. /\ StoreTypeOK /\ StoreTypeOK' /\ StopsKept /\ (Ages \/ Inserts)
        /\ SnapshotTerms /\ SnapshotTerms'
    BY StepKnown, OwnerKept, StepOrderly, ServesKept, StepTerms DEF AvailInv
  <1>2. OfVersion(s, v) \in SUBSET Workload /\ OfVersion(s, v)' \in SUBSET Workload
    BY DEF OfVersion, Active, ListWorkloadsByService
  <1>3. /\ IsFiniteSet(OfVersion(s, v)) /\ Cardinality(OfVersion(s, v)) \in Nat
        /\ IsFiniteSet(OfVersion(s, v)') /\ Cardinality(OfVersion(s, v)') \in Nat
    BY <1>2, WorkloadsFinite
  <1>4. services[s].replicas \in Nat /\ services'[s].replicas \in Nat
    BY <1>1 DEF StoreTypeOK, ServiceRow
  <1>5. CASE services[s].status = "ABSENT"
    <2>1. OfVersion(s, v)' = {}
      BY <1>1, <1>5, AbsentStaysEmpty DEF OfVersion, Active, ListWorkloadsByService
    <2>2. QED BY <1>4, <2>1, FS_EmptySet
  <1>6. CASE services[s].status # "ABSENT"
    <2>1. /\ services'[s].replicas = services[s].replicas
          /\ Cardinality(OfVersion(s, v)) <= services[s].replicas
      BY <1>6 DEF Calm, AvailInv, NoExcess
    <2>2. ASSUME OfVersion(s, v)' \subseteq OfVersion(s, v)
          PROVE  Cardinality(OfVersion(s, v)') <= services'[s].replicas
      <3>1. Cardinality(OfVersion(s, v)') <= Cardinality(OfVersion(s, v))
        BY <1>3, <2>2, FS_Subset
      <3>2. QED BY <1>3, <1>4, <2>1, <3>1
    <2>3. CASE Ages
      <3>1. NoRevival
        BY <1>1, <2>3, AgesRevivesNone
      <3>2. OfVersion(s, v)' \subseteq OfVersion(s, v)
        BY <2>3, <3>1
        DEF NoRevival, Ages, RowAges, OfVersion, Active, ListWorkloadsByService, isActive,
            Unfinished
      <3>3. QED BY <2>2, <3>2
    <2>4. CASE Inserts
      <3>1. PICK t \in Service, ids \in SUBSET FreeWorkload :
               /\ snap[t].status = "ACTIVE"
               /\ InsertAllowed(t, snap[t], ids)
               /\ CreatePendingWorkloads(ids, t, snap[t])
        BY <2>4 DEF Inserts
      <3>2. \A w \in Workload :
               workloads'[w] = IF w \in ids THEN PendingRow(t, snap[t]) ELSE workloads[w]
        BY <3>1 DEF CreatePendingWorkloads
      <3>3. /\ PendingRow(t, snap[t]).service = t
            /\ PendingRow(t, snap[t]).version = snap[t].version
        BY DEF PendingRow
      <3>4. CASE t # s \/ v # snap[t].version
        <4>1. OfVersion(s, v)' \subseteq OfVersion(s, v)
          BY <3>2, <3>3, <3>4 DEF OfVersion, Active, ListWorkloadsByService, isActive
        <4>2. QED BY <2>2, <4>1
      <3>5. CASE t = s /\ v = snap[t].version
        <4>1. OfVersion(s, v)' \subseteq OfVersion(s, v) \cup ids
          BY <3>2 DEF OfVersion, Active, ListWorkloadsByService, isActive
        <4>2. Cardinality(OfVersion(s, v)) + Cardinality(ids) <= services[s].replicas
          BY <3>1, <3>5, InsertNoExcess
        <4>3. /\ ids \in SUBSET Workload /\ OfVersion(s, v) \cup ids \in SUBSET Workload
              /\ OfVersion(s, v) \cap ids \in SUBSET Workload
          BY <1>2 DEF FreeWorkload
        <4>4. /\ IsFiniteSet(ids) /\ Cardinality(ids) \in Nat
              /\ IsFiniteSet(OfVersion(s, v) \cup ids)
              /\ Cardinality(OfVersion(s, v) \cup ids) \in Nat
              /\ Cardinality(OfVersion(s, v) \cap ids) \in Nat
          BY <4>3, WorkloadsFinite
        <4>5. Cardinality(OfVersion(s, v) \cup ids)
                = Cardinality(OfVersion(s, v)) + Cardinality(ids)
                    - Cardinality(OfVersion(s, v) \cap ids)
          BY <1>3, <4>4, FS_Union
        <4>6. Cardinality(OfVersion(s, v)') <= Cardinality(OfVersion(s, v) \cup ids)
          BY <1>3, <4>1, <4>4, FS_Subset
        <4>7. QED BY <1>3, <1>4, <2>1, <4>2, <4>4, <4>5, <4>6
      <3>6. QED BY <3>4, <3>5
    <2>5. QED BY <1>1, <2>3, <2>4
  <1>7. QED BY <1>5, <1>6

\* Whatever calls, transactions and processes fail, however late snapshots and
\* listings are, and however many new versions clients bring: as long as no
\* container ends by itself, no lost node is recovered, and nobody resizes a
\* service, a rolling update with a surge of at most one takes no container
\* out of service when that leaves fewer than replicas - max_unavailable.
THEOREM AvailabilityRespected == Spec /\ [][Calm]_vars => AvailabilityKept
  <1> DEFINE Enough == \A s \in Service :
                          /\ services[s].status = "ACTIVE"
                          /\ Cardinality(Serving(s)') < Cardinality(Serving(s))
                          => Cardinality(Serving(s)')
                                >= services[s].replicas - services[s].unavailable
  <1>1. Init => AvailInv
    <2> SUFFICES ASSUME Init PROVE AvailInv
      OBVIOUS
    <2>1. /\ \A s \in Service : services[s] = AbsentService /\ snap[s] = AbsentService
          /\ \A w \in Workload : workloads[w] = AbsentWorkload
      BY DEF Init, StoreInit, LocalInit
    <2>2. EnoughStay /\ RunningServes
      BY <2>1 DEF EnoughStay, RunningServes, AbsentService, AbsentWorkload
    <2>3. SnapshotTerms
      BY <2>1, NullAssumption DEF SnapshotTerms, AbsentService, AbsentWorkload
    <2>4. \A s \in Service : \A v \in Nat : OfVersion(s, v) = {}
      BY <2>1 DEF OfVersion, Active, ListWorkloadsByService, AbsentWorkload
    <2>5. NoExcess
      BY <2>1, <2>4, FS_EmptySet DEF NoExcess, AbsentService
    <2>6. QED BY <2>2, <2>3, <2>5 DEF AvailInv
  <1>2. Inv /\ AvailInv /\ [Next]_vars /\ [Calm]_vars => AvailInv'
    <2> SUFFICES ASSUME Inv, AvailInv, [Next]_vars, [Calm]_vars PROVE AvailInv'
      OBVIOUS
    <2>1. CASE UNCHANGED vars
      BY <2>1
      DEF AvailInv, EnoughStay, RunningServes, NoExcess, SnapshotTerms, Staying, Serving,
          ServesOn, OfVersion, Active, ListWorkloadsByService, isActive, vars, tables, local
    <2>2. CASE Calm
      <3>1. RunningServes'
        BY <2>2, StepOrderly, ServesKept DEF AvailInv
      <3>2. QED BY <2>2, <3>1, StepEnough, StepNoExcess, StepTerms DEF AvailInv
    <2>3. QED BY <2>1, <2>2
  <1>3. Inv /\ AvailInv /\ [Next]_vars /\ [Calm]_vars => Enough \/ UNCHANGED vars
    <2> SUFFICES ASSUME Inv, AvailInv, [Next]_vars, Calm,
                        NEW s \in Service, services[s].status = "ACTIVE",
                        Cardinality(Serving(s)') < Cardinality(Serving(s))
                 PROVE  Cardinality(Serving(s)')
                           >= services[s].replicas - services[s].unavailable
      OBVIOUS
    <2>1. Staying(s) \subseteq Serving(s)'
      BY ServingKept
    <2>2. /\ IsFiniteSet(Serving(s)') /\ Cardinality(Serving(s)') \in Nat
          /\ Cardinality(Serving(s)) \in Nat /\ Cardinality(Staying(s)) \in Nat
      BY ServingFinite, WorkloadsFinite
    <2>3. Cardinality(Staying(s)) <= Cardinality(Serving(s)')
      BY <2>1, <2>2, FS_Subset
    <2>4. Staying(s) # Serving(s)
      BY <2>2, <2>3
    <2>5. Cardinality(Staying(s)) >= services[s].replicas - services[s].unavailable
      BY <2>4 DEF AvailInv, EnoughStay
    <2>6. services[s].replicas - services[s].unavailable \in Int
      BY DEF Inv, TypeOK, StoreTypeOK, ServiceRow
    <2>7. QED BY <2>2, <2>3, <2>5, <2>6
  <1>4. QED
    BY <1>1, <1>2, <1>3, InvariantHolds, PTL DEF Spec, AvailabilityKept
=============================================================================
