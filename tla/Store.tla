------------------------------- MODULE Store -------------------------------
(***************************************************************************)
(* The three tables of the control plane's PostgreSQL database (nodes,     *)
(* services, workloads) and the transactions of internal/store that the    *)
(* API server, the health checker and the reconciler run on them.  Every   *)
(* transaction is one atomic action, as PostgreSQL makes it.               *)
(*                                                                         *)
(* What is abstracted:                                                     *)
(*  - a table is a function from ids to rows; a row that was never         *)
(*    inserted has the status (or state) "ABSENT";                         *)
(*  - names, addresses, images and timestamps are left out.  An image      *)
(*    matters only in "is the new image different", a parameter of         *)
(*    UpdateService; deployment_started_at only in being set or NULL;      *)
(*  - a container id names one container: the one created for workload w   *)
(*    on node n.  The column container_id of w therefore holds n, or Null. *)
(***************************************************************************)
EXTENDS Integers, FiniteSets

CONSTANTS
    Node,       \* node ids
    Service,    \* service ids
    Workload,   \* the pool newWorkloadID draws from; a bound of the model
    Null        \* SQL NULL

ASSUME NullAssumption == Null \notin Node \cup Service \cup Workload

\* A table has finitely many rows.
ASSUME WorkloadAssumption == IsFiniteSet(Workload)

VARIABLES nodes, services, workloads

tables == <<nodes, services, workloads>>

-----------------------------------------------------------------------------
(* Resources: CPU millis and memory MB, always requested as a pair.        *)

Resources == [cpu : Nat, mem : Nat]

NoResources == [cpu |-> 0, mem |-> 0]

\* Mutant of Plus: a reservation is subtracted.
PlusSwapped(a, b) == [cpu |-> a.cpu - b.cpu, mem |-> a.mem - b.mem]

Plus(a, b) == [cpu |-> a.cpu + b.cpu, mem |-> a.mem + b.mem]

\* Mutant of Minus: the UPDATE without its GREATEST.
MinusUnclamped(a, b) == [cpu |-> a.cpu - b.cpu, mem |-> a.mem - b.mem]

\* GREATEST(allocated - requested, 0), for each of the two columns.
Minus(a, b) == [cpu |-> IF a.cpu < b.cpu THEN 0 ELSE a.cpu - b.cpu,
                mem |-> IF a.mem < b.mem THEN 0 ELSE a.mem - b.mem]

\* Mutant of Fits: memory is not looked at.
FitsCpuOnly(req, node) == node.cap.cpu - node.alloc.cpu >= req.cpu

Fits(req, node) == /\ node.cap.cpu - node.alloc.cpu >= req.cpu
                   /\ node.cap.mem - node.alloc.mem >= req.mem

-----------------------------------------------------------------------------
(* Rows.                                                                   *)

Unfinished == {"PENDING", "SCHEDULED", "RUNNING"}
Finished == {"FAILED", "STOPPED"}

NodeRow == [status : {"ABSENT", "READY", "UNHEALTHY"},
            cap : Resources, alloc : Resources]

ServiceRow == [status : {"ABSENT", "ACTIVE", "DELETING", "DELETED"},
               version : Nat,
               deployment : {"AVAILABLE", "PROGRESSING", "FAILED"},
               started : BOOLEAN,
               replicas : Nat, surge : Nat, unavailable : Nat,
               req : Resources]

WorkloadRow == [service : Service \cup {Null}, version : Nat, req : Resources,
                node : Node \cup {Null}, container : Node \cup {Null},
                desired : {"ABSENT", "PENDING", "SCHEDULED", "STOPPED"},
                actual : {"ABSENT"} \cup Unfinished \cup Finished]

AbsentNode == [status |-> "ABSENT", cap |-> NoResources, alloc |-> NoResources]

AbsentService == [status |-> "ABSENT", version |-> 0,
                  deployment |-> "AVAILABLE", started |-> FALSE,
                  replicas |-> 0, surge |-> 0, unavailable |-> 0,
                  req |-> NoResources]

AbsentWorkload == [service |-> Null, version |-> 0, req |-> NoResources,
                   node |-> Null, container |-> Null,
                   desired |-> "ABSENT", actual |-> "ABSENT"]

StoreTypeOK == /\ nodes \in [Node -> NodeRow]
               /\ services \in [Service -> ServiceRow]
               /\ workloads \in [Workload -> WorkloadRow]

StoreInit == /\ nodes = [n \in Node |-> AbsentNode]
             /\ services = [s \in Service |-> AbsentService]
             /\ workloads = [w \in Workload |-> AbsentWorkload]

-----------------------------------------------------------------------------
(* Queries.                                                                *)

ListWorkloadsByService(s) ==
    {w \in Workload : workloads[w].actual # "ABSENT" /\ workloads[w].service = s}

ListWorkloadsByNode(n) ==
    {w \in Workload : workloads[w].actual # "ABSENT" /\ workloads[w].node = n}

\* GetWorkloadByContainerID finds w by the id of its container on n.
Tracked(w, n) == workloads[w].actual # "ABSENT" /\ workloads[w].container = n

\* The ids newWorkloadID can still return.
FreeWorkload == {w \in Workload : workloads[w].actual = "ABSENT"}

-----------------------------------------------------------------------------
(* Transactions on nodes.                                                  *)

\* An upsert: a node that registers again keeps its allocation.
RegisterNode(n, cap) ==
    /\ nodes' = [nodes EXCEPT ![n].status = "READY", ![n].cap = cap]
    /\ UNCHANGED <<services, workloads>>

UpdateHeartbeat(n) ==
    /\ nodes[n].status # "ABSENT"
    /\ nodes' = [nodes EXCEPT ![n].status = "READY"]
    /\ UNCHANGED <<services, workloads>>

SetNodeStatus(n, status) ==
    /\ nodes[n].status # "ABSENT"
    /\ nodes' = [nodes EXCEPT ![n].status = status]
    /\ UNCHANGED <<services, workloads>>

-----------------------------------------------------------------------------
(* Transactions on services.                                               *)

CreateService(s, row) ==
    /\ services[s].status = "ABSENT"
    /\ services' = [services EXCEPT ![s] = row]
    /\ UNCHANGED <<nodes, workloads>>

\* The surge and unavailability columns are not in the UPDATE's SET list,
\* and the WHERE clause does not look at the status of the service.
UpdateService(s, replicas, req, newImage) ==
    /\ services[s].status # "ABSENT"
    /\ services' = [services EXCEPT
           ![s].replicas = replicas,
           ![s].req = req,
           ![s].version = IF newImage THEN @ + 1 ELSE @,
           ![s].deployment = IF newImage THEN "PROGRESSING" ELSE @,
           ![s].started = @ \/ newImage]
    /\ UNCHANGED <<nodes, workloads>>

\* The WHERE clause names the service only, not the version the status is of.
UpdateDeploymentStatus(s, status) ==
    /\ services' = [services EXCEPT ![s].deployment = status]
    /\ UNCHANGED <<nodes, workloads>>

MarkServiceDeleting(s) ==
    /\ services[s].status = "ACTIVE"
    /\ services' = [services EXCEPT ![s].status = "DELETING"]
    /\ UNCHANGED <<nodes, workloads>>

MarkServiceDeleted(s) ==
    /\ services[s].status = "DELETING"
    /\ services' = [services EXCEPT ![s].status = "DELETED"]
    /\ UNCHANGED <<nodes, workloads>>

-----------------------------------------------------------------------------
(* Transactions on workloads.                                              *)

\* Mutant of PendingRow: the workload is made for the version to come.
PendingRowNextVersion(s, svc) ==
    [service |-> s, version |-> svc.version + 1, req |-> svc.req,
     node |-> Null, container |-> Null,
     desired |-> "PENDING", actual |-> "PENDING"]

PendingRow(s, svc) == [service |-> s, version |-> svc.version, req |-> svc.req,
                       node |-> Null, container |-> Null,
                       desired |-> "PENDING", actual |-> "PENDING"]

\* CreatePendingWorkload, once for each id of a set.
CreatePendingWorkloads(ids, s, svc) ==
    /\ workloads' = [w \in Workload |->
           IF w \in ids THEN PendingRow(s, svc) ELSE workloads[w]]
    /\ UNCHANGED <<nodes, services>>

\* UpdateWorkloadDesiredState(w, STOPPED), once for each id of a set; the
\* state is STOPPED in every call of the code.
StopWorkloads(ids) ==
    /\ workloads' = [w \in Workload |->
           IF w \in ids THEN [workloads[w] EXCEPT !.desired = "STOPPED"]
                        ELSE workloads[w]]
    /\ UNCHANGED <<nodes, services>>

\* Mutant of Reservable: the status is not read again under the lock.
ReservableAnyStatus(n, req) == Fits(req, nodes[n])

Reservable(n, req) == nodes[n].status = "READY" /\ Fits(req, nodes[n])

ReserveNodeForWorkload(w, n) ==
    /\ Reservable(n, workloads[w].req)
    /\ nodes' = [nodes EXCEPT ![n].alloc = Plus(@, workloads[w].req)]
    /\ workloads' = [workloads EXCEPT ![w].node = n, ![w].desired = "SCHEDULED"]
    /\ UNCHANGED services

MarkWorkloadRunning(w, n) ==
    /\ workloads[w].desired = "SCHEDULED"
    /\ workloads' = [workloads EXCEPT ![w].container = n, ![w].actual = "RUNNING"]
    /\ UNCHANGED <<nodes, services>>

UpdateWorkloadActualState(w, state) ==
    /\ workloads' = [workloads EXCEPT ![w].actual = state]
    /\ UNCHANGED <<nodes, services>>

\* The nodes table after the reservation of w is given back to its node.
Released(w) ==
    IF workloads[w].node = Null
    THEN nodes
    ELSE [nodes EXCEPT ![workloads[w].node].alloc = Minus(@, workloads[w].req)]

\* Mutant of FinishAndRelease: the release is forgotten.
FinishUnreleased(w, final) ==
    /\ workloads' = [workloads EXCEPT ![w].actual = final]
    /\ UNCHANGED <<nodes, services>>

\* Marks w with a final state and releases its reservation, unless the row
\* has that state already: the two transactions of the code differ in the
\* state only.
FinishAndRelease(w, final) ==
    /\ IF workloads[w].actual = final
       THEN UNCHANGED <<nodes, workloads>>
       ELSE /\ nodes' = Released(w)
            /\ workloads' = [workloads EXCEPT ![w].actual = final]
    /\ UNCHANGED services

MarkWorkloadFailedAndReleaseResources(w) == FinishAndRelease(w, "FAILED")

MarkWorkloadStoppedAndReleaseResources(w) == FinishAndRelease(w, "STOPPED")

\* Mutants of RecoverWorkloadsFromNode: the container id is not cleared; the
\* WHERE clause does not look at the state; RUNNING workloads stay.
RecoverKeepingContainers(n) ==
    /\ workloads' = [w \in Workload |->
           IF workloads[w].node = n /\ workloads[w].actual \in Unfinished
           THEN [workloads[w] EXCEPT !.node = Null,
                                     !.desired = "PENDING", !.actual = "PENDING"]
           ELSE workloads[w]]
    /\ nodes' = [nodes EXCEPT ![n].alloc = NoResources]
    /\ UNCHANGED services

RecoverAnyState(n) ==
    /\ workloads' = [w \in Workload |->
           IF workloads[w].node = n
           THEN [workloads[w] EXCEPT !.node = Null, !.container = Null,
                                     !.desired = "PENDING", !.actual = "PENDING"]
           ELSE workloads[w]]
    /\ nodes' = [nodes EXCEPT ![n].alloc = NoResources]
    /\ UNCHANGED services

RecoverNotRunning(n) ==
    /\ workloads' = [w \in Workload |->
           IF workloads[w].node = n /\ workloads[w].actual \in {"PENDING", "SCHEDULED"}
           THEN [workloads[w] EXCEPT !.node = Null, !.container = Null,
                                     !.desired = "PENDING", !.actual = "PENDING"]
           ELSE workloads[w]]
    /\ nodes' = [nodes EXCEPT ![n].alloc = NoResources]
    /\ UNCHANGED services

\* Every unfinished workload of the node goes back to PENDING, whatever its
\* desired state was, and the whole allocation of the node is cleared.
RecoverWorkloadsFromNode(n) ==
    /\ workloads' = [w \in Workload |->
           IF workloads[w].node = n /\ workloads[w].actual \in Unfinished
           THEN [workloads[w] EXCEPT !.node = Null, !.container = Null,
                                     !.desired = "PENDING", !.actual = "PENDING"]
           ELSE workloads[w]]
    /\ nodes' = [nodes EXCEPT ![n].alloc = NoResources]
    /\ UNCHANGED services
=============================================================================
