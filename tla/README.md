# A formal model of mini-orchestrator

TLA+ modules, TLC runs and TLAPS proofs about the control plane of
mini-orchestrator: the tables it keeps in PostgreSQL, the reconciliation loop
that brings containers in line with them, the health checker and the
autoscaler beside it, the agents it calls, and what happens to all of them when
clients, clocks, networks and crashes interfere.

Source paths below are relative to `src/`.

## 1. The system

### Parts, state, operations

| Part | State it keeps | Operations |
|---|---|---|
| Store (`internal/store`, `migrations`) | tables `nodes`, `services`, `workloads` | one transaction per method |
| API handlers (`internal/api`) | none | register node, heartbeat, create, update, delete service |
| Health checker (`internal/node/health.go`) | none (reads `last_heartbeat`) | mark late nodes UNHEALTHY, every 5 s |
| Reconciler (`internal/reconciler/reconciler.go`) | the snapshots of one cycle | a cycle every 5 s: nodes, then services |
| Runtime reconciler (`runtime_reconciler.go`) | the container listing of one node | stop, synchronise, fail missing |
| Executor (`executor.go`) | none | create + start + record; stop + delete + record |
| Controllers (`internal/controller`) | none | deployment, replica, deletion, status |
| Scheduler (`internal/scheduler`) | none | filter, score, choose, reserve |
| Agents (`internal/node/agent.go`, `cmd/node-agent`) | a ticker | register, heartbeat every 5 s |
| Container API and engines (`internal/node`, `internal/runtime`) | containers | create, start, stop, remove, list, stats |
| Autoscaler (`internal/autoscaler`, `internal/metrics`) | observations per service | change `desired_replicas`, every 30 s |
| TLS, HTTP configuration, observability, `cmd` | configuration, counters | - |

The parts share the tables and nothing else. Three goroutines of the control
plane (reconciler, health checker, autoscaler) and the goroutines of the HTTP
server write them concurrently, each write a transaction. Only the reconciler
writes `workloads`. Only the reconciler calls agents to change containers.

### What is hard here

- A cycle works from a snapshot of services and nodes taken at its start, and
  takes as long as its remote calls; clients go on meanwhile.
- Placing a workload is a read and a later transaction.
- Starting and stopping a container are two remote calls and a transaction.
  Each can fail, or succeed and have its answer lost; the process can stop in
  between. Only the tables survive.
- Rolling updates, scaling, deletion, recovery of lost nodes and runtime
  synchronisation all write the same two state columns of a workload.
- Reservations are kept in the row of the node, apart from the workloads that
  hold them, and are given back in four different places.
- A call that times out is given up by its caller, not by the agent: it may
  take effect afterwards, in the middle of something else.
- Two timeouts work against each other: a heartbeat may hang for 10 s, and a
  node without one for 15 s is lost, judged from a listing that is older still.
- The autoscaler decides from a row it read before, a reading, and a memory
  that it loses in a restart, while clients write the same column.

`PROJECT.json` lists each of these as a hazard at its line.

### What makes each part correct

- Store: the columns of a row agree; an allocation is what its workloads asked
  for; a reservation is checked when it is made.
- Controllers: a rollout keeps to `max_surge` and `max_unavailable` at every
  step and ends; a deleted service has no work and gets none.
- Runtime reconciler and executor: a row says FAILED or STOPPED only of a
  container that has ended; drift is noticed; nothing finished comes back.
- Scheduler: a node that none beats by more than rounding, the first among nodes
  that are the same, never overcommitted.
- Autoscaler: bounded range, no writes closer together than configured, and
  the count the load calls for in the end.
- Health checker: no verdict without a cause, none too late, and a node that
  lives is READY again; a lost one is drained.
- Calls: whatever is lost, late or repeated, an operation ends in one of the
  outcomes that the loop is prepared for.

## 2. The modules

| Module | Models | Uses |
|---|---|---|
| `Store` | rows, queries and transactions | - |
| `Scheduler` | filter, score, choice as operators; `BestNodes`, what they promise | `Store` |
| `SchedulerService` | `ScheduleWorkload` on its own | `Scheduler` |
| `Controllers` | the four controllers as actions over the tables | `Store` |
| `WorkloadLife` | abstract: the life of workloads, without tables, snapshots or engines | - |
| `Reconciler` | the cycle, the executor, the runtime reconciler, clients, health checker, engines, faults; properties; the inductive invariant | `Controllers`, `Scheduler`; `WorkloadLife` by a refinement mapping |
| `Claims` | what comments and tests say that does not hold | `Reconciler` |
| `Executor` | one workload on one node, call by call: client, handlers, engine, network | - |
| `NodeHealth` | agents, heartbeats and the health checker, with time | - |
| `Autoscaler` | the autoscaler and the metrics provider, with time | - |
| `MCReconciler`, `MCSchedulerService`, `MCAutoscaler` | small instances; `Executor` and `NodeHealth` need none | `Claims`, `SchedulerService`, `Autoscaler` |
| `ReconcilerProofs` | type correctness | `Reconciler` |
| `InvariantProofs` | the inductive invariant and what follows, the refinement of `WorkloadLife` included | `ReconcilerProofs` |
| `LimitProofs` | reservations as an action property and as sums; the surge and the availability of a rollout | `InvariantProofs`, `FoldProofs` |
| `FoldProofs` | folds over lists and sums over sets, by induction | - |
| `SchedulerProofs` | the scheduler's algorithm and what its placements add up to | `SchedulerService`, `FoldProofs` |
| `ExecutorProofs`, `NodeHealthProofs`, `AutoscalerProofs` | the safety properties of these modules | the module |

How the modules fit together. `Reconciler` composes store, controllers,
scheduler, executor, engines and clients. Three parts of it are coarse, and
each has a module that looks inside: a launch or a stop is one step, and
`Executor` shows that its calls end in no outcome that this step leaves out; a
node may be marked UNHEALTHY at any time, and `NodeHealth` shows when it is; a
client may update a service at any time, which includes what `Autoscaler`
writes (its `Scale` is `updateService` with the same request and no new image).
`Autoscaler` in turn has what the reconciler does to the workloads of a service
as an action that may happen and need not (`WorkloadsReady`, and never for a
FAILED deployment, which `replica_controller.go:31` leaves alone).

Definitions carry the names of the Go functions they model. The mutants that
stand before some definitions are deliberately wrong forms of them; nothing
refers to them but the `mutants` list of `PROJECT.json`, which shows for each
property a plausible mistake that breaks it.

### State and actions

`nodes`, `services` and `workloads` are the tables. `containers[n][w]` is the
status of the container of workload `w` on the engine of node `n`. All else is
the local state of the reconciler's goroutine: `pc` the point of the cycle,
`snap` and `nodeSnap` the part of the snapshots not handled yet, `listed` the
container listing of the node at hand, `pend` and `todo` what is left of the
inner loops. A crash resets exactly that local state.

`Executor` keeps one row, the container of the workload's name, who holds its
id (`refers`), the call under way and the requests given up (`late`). Ids are
never given twice, so a request with the id of a container that is gone can do
nothing; this is why the model may forget it. `before` and `course` are
history: the state in which the operation began, and whether something failed
in it or something else touched the container.

`NodeHealth` and `Autoscaler` keep ages instead of a clock and time stamps;
`Tick` is a unit of time. A ticker is the time to its next firing and a channel
that holds one. Goroutines are prompt: `Tick` waits for one that has something
to do which takes no time. `missed` and `excused` in the one, `quiet`,
`readings`, `disturbed` and `hull` in the other are history, read by no action.

One action is one transaction, or the remote calls for one workload with the
transaction that records them. This is sound for what is observed here: no
other actor changes a container in between other than by a fault, and each
partial outcome of such a group is an action of its own (`LaunchFails`,
`StopFails`, `StopTrackedFails`, `LookupFails`, `NodeAborted`); `OutcomesAreAtomic` of
`Executor` is the check of that. A request that takes effect after the step is
there a `ContainerExits` or `ContainerRemoved` for a container that is recorded
(a start cannot be late for one, see `FinishedStaysDown`), and for one that is
not recorded, which nothing looks at but the next create, the same as if it had
taken effect within the step. Loops over a listing keep only
the elements for which the body does something, in any order: the listings are
`ORDER BY created_at`, and controllers leave that column at its zero value, so
the order of workloads is the database's.

The writes of one call of a controller are one action, as nobody else writes
`workloads`; a call that fails half way is `ReplicaControllerPart` or
`DeletionControllerPart`, with every subset that may have been written.

### Abstractions to know about

- Workload ids come from a finite pool that is never refilled: when it is used
  up, creating a workload fails, as an INSERT may (`ReplicasOutOfIds`,
  `DeploymentFails`).
- `createService` takes the defaults for version, deployment status and status;
  a request may carry others.
- Scores are rounded as `float64` rounds them, which is a parameter
  (`FloatShares`): 0.1 + 0.7 and 0.4 + 0.4 are equal sums and different scores,
  and sums that differ by little may be equal scores. What is assumed of the
  rounding is in `RoundingAssumption`; TLC runs with one that is much coarser.
- Each node has an engine of its own. Two agents on one host share one, which
  the repository's README describes as a limitation.
- Nobody outside restarts a container.
- In `Reconciler` time is absent: a late heartbeat and an expired deployment
  timeout are faults that may occur at any point.
- `Executor`: listing the containers is one step and what follows from it
  another; the call that lists is not taken apart. A recovered workload that
  comes back to the same node does so in one step (`Recovered`).
- `NodeHealth`: an exchange that is not stuck takes at most `Latency`, a check
  at most `CheckLatency`; the slack of 5 s between the two timeouts of the code
  is assumed to cover both (`SlackAssumption`). Time stamps are of one clock:
  the columns are TIMESTAMP without a zone, written with NOW() and compared
  with UTC, so the model is of a database whose session is in UTC.
- `Autoscaler`: a cycle takes less than two intervals; one visit of a service
  is one step, with the row it works from read at the start of the cycle; the
  load is the sum of what the agents report; arithmetic is exact, where the
  code's `float64` may round a quotient up to the next integer.

## 3. The runs

Passing:

| Run | Bounds | Distinct states | Shows |
|---|---|---|---|
| `faults` | 2 nodes, 2 workloads, 2 faults, 1 update, symmetric | ~630 000 | row consistency, finality of deletion, of finished workloads and of failed deployments, versions, `Inv`, the invariant of the proofs, and the refinement of `WorkloadLife` |
| `resize` | 2 nodes of one or two slots, re-registration, 0 or 1 replicas, 1 fault | ~460 000 | no phantom reservation; reservations checked when made |
| `rollout` | 2 nodes, 2 replicas, 4 workloads, 1 update, no fault, fair | ~370 000 | `max_surge` and `max_unavailable` at every step, for both kinds of strategy; a rollout ends AVAILABLE |
| `progress` | 2 nodes, 2 workloads, 1 fault, fair | ~13 000 | deletion ends, drift is detected, a lost node is drained |
| `scheduler` | 3 nodes of 3 sizes, 4 workloads of 3 requests | ~110 000 | the one-pass choice under rounding; no overcommitment; even spread |
| `calls` | 5 faults, fair | ~15 000 | a finished workload stays down; operations end as `Reconciler` has it; stops complete; launches settle |
| `health` | 1 node, the code's times in proportion, faults and failed checks, fair | ~200 000 | no false verdict; detection in time; a live node is READY in the end |
| `autoscaler` | 1 service, 2 configurations, 1 update, 1 fault, fair | ~480 000 | the count between bounds and what was asked; steady; settles at the target if the workloads follow |

Why these bounds are enough for the cases they are for: two nodes let a
workload move; two workloads are a replica and its replacement (four for two
replicas); one update starts a rollout, also one that comes while the first
replicas are still being made; one fault is anything going wrong once at any step, two let a failure meet the
repair of another (a lost answer and then a crash, a lost node and then a lost
stop); five in `calls` let a launch fail, its leftover be removed, a second
launch and its stop fail as well. Nodes do not interact in `NodeHealth` other
than by the length of a check, nor services in `Autoscaler`: one of each is
enough there, and the proofs are for any number. The bounds are `MaxFaults`,
`MaxUpdates`, `MaxFailures`, and `Horizon`, `MaxCooldown` and the cap of
`readings`, beyond which numbers are not told apart. The run `rollout` has no
faults because what it checks is false with faults: recovery breaks the surge
bound (below, and section 4), and a failed workload makes a deployment FAILED by design.

The `scheduler` run switches deadlock checking off: once all workloads are
placed and the scheduler has nothing left to place, it stops.

Runs that exhibit a disagreement between a statement of the repository and
what the code does (`Claims`):

| Run | Statement | Counterexample |
|---|---|---|
| `claim_active_reserved` | `multinode_integration_test.go:994`, allocations match active workloads | a stopped workload alternates STOPPED and FAILED and is released in each round, with no fault at all |
| `claim_nothing_running` | `executor.go:104` "Pending workloads don't have a container." | an answer is lost; the container runs on after the workload is STOPPED |
| `claim_failure_version` | `deployment_status.go:95` a current-version workload failing means ... | the failure of the old version is written over a newer one |
| `claim_metrics_address` | `README.md:20` "Autoscaling consumes CPU usage obtained from the node-agent metrics endpoint." | the id of a node is used as its address (`node_provider.go:57`): where the two differ no reading is ever had |

The same property, `UsageConsumed`, holds where the id is the address.

Three more disagreements were found with TLC and can be had again by changing
a configuration. With fault-free scaling (`Replicas = {0, 1, 2}`, two updates)
a deployment becomes FAILED although nothing failed: the workload that a
scale-down has stopped is of the current version, its exited container makes
the row FAILED, and the next cycle in which the counts do not match fails the
deployment (`deployment_status.go:97`, against its comment at 95). With the same
bounds `AvailabilityKept` fails: the guard commented "Enforce maxUnavailable =
0" (`replica_controller.go:95`) asks for one running workload, and the one that
is stopped may be that one. With `MaxFaults = 1` and an update, `SurgeBounded`
fails: recovery of a node revives workloads that were being stopped
(`store/workload.go:577`, against `deployment_autoscaling_acceptance_test.go:116`);
`SurgeRespected` (section 4) shows that among faults this is the only way.

Two more disagreements are plain from the text and have no run. The runtime
reconciler writes STOPPED without a release (`runtime_reconciler.go:79`), while
`store/workload.go:684` says "Already stopped, so resources should already be
released."; `NoPhantomReservation` therefore counts STOPPED workloads as
holding their reservation. And a service created with no replicas may have
`max_surge` and `max_unavailable` both zero; `updateService` can then give it
replicas that no later rollout can replace (`validation.go:51`,
`handlers.go:415`).

### Fairness

`FairSpec` asks for weak fairness of `CycleStep`, the steps of the cycle in
which nothing goes wrong: `Run` calls `reconcile` on a ticker and returns only
at shutdown, and each remote call has a client timeout, so the goroutine never
stays at a point where it can go on. There is no fairness on clients, on the
health checker, or on faults. That faults are finite in number is an
assumption of the liveness properties: an agent that never answers keeps a
service DELETING for ever.

`RolloutConverges` asks in addition that all nodes are READY from some point
on: without nodes there is nothing to converge to.

In `Executor` the loop is fair as a whole, for the same reason, and so are the
agents (an exchange that is not served is a fault, `Lost`) and the end of a stop
that the engine has begun (it kills the container when the grace period is
over). `Outlasts`, a stop that takes the whole grace period, is no fault and may
happen as often as it likes. In `NodeHealth` time, the agents that run and the
checker are fair; that a dead agent is started again is not assumed. In
`Autoscaler` time, its loop and the reconciler's writing of the deployment status
are fair. That workloads become what the row asks for is not: placing or
starting them may fail for good, and those of a FAILED deployment are left as
they are. `ReachesTarget` has it as a premise instead, `[]<>(s \in ready)`.
Clients, load and faults are not, anywhere.

## 4. The proofs

Proved for any sets of nodes, services and workloads, any times, configurations
and bounds, from the named assumptions of the modules (`NullAssumption`, the
types of the parameters, in `NodeHealth` the slack between the timeouts, in
`Store` that a table has finitely many rows (`WorkloadAssumption`), and in
`SchedulerService` that what nodes register with and services ask for is
positive, as `registerNode` (`handlers.go:252`) and `validateServiceRequest`
(`validation.go:29`) require, and that scores are rounded with a certain
precision (`RoundingAssumption`)):

| Theorem | States |
|---|---|
| `TypeCorrect` | `Spec => []TypeOK` |
| `InvariantHolds` | `Spec => []Inv` |
| `RowsStayConsistent`, `DeletedStaysEmpty`, `VersionsStayBounded`, `FinishedNeverRuns` | the safety invariants of the `faults` run |
| `FinishedStaysFinished` | `Spec => FinishedIsFinal` |
| `ReservationsChecked` | `Spec => ReservationChecked` |
| `ReservationsOwned` | `Spec => []NoPhantomReservation` |
| `SurgeRespected` | `Spec /\ [][Undisturbed]_vars => []SurgeBounded` |
| `AvailabilityRespected` | `Spec /\ [][Calm]_vars => AvailabilityKept` |
| `LifeImplemented` | `Spec => ImplementsLife`, the refinement of `WorkloadLife` |
| `FailureIsFrozen` | `Spec => FailedUntilNewVersion` |
| `SchedulerProofs`: `SchedulerTypes`, `PlacementsNearBest`, `RefusalsJustified` | types, `ChoosesNearBest`, `RefusedFitsNowhere` |
| `SchedulerProofs`: `PlacementsWithinCapacity`, `LoadSpreads` | `NeverOvercommitted`, `SpreadsEvenly` |
| `ExecutorProofs`: `TypeCorrect`, `FinishedStays`, `Atomicity` | types, `FinishedStaysDown`, `OutcomesAreAtomic` |
| `NodeHealthProofs`: `TypeCorrect`, `VerdictsAreTrue`, `Detection` | types, `NoFalseVerdict`, `DetectedInTime` |
| `AutoscalerProofs`: `TypeCorrect`, `StaysBetween`, `ScalesSteadily` | types, `BetweenAskedAndBounds`, `SteadyScaling` |

Types are not inductive alone: the goroutine dereferences the node, service or
workload at hand, so `CursorOK` (each phase has what it works on) goes with
them; the two are `Shape` in the proofs.

`FinishedNotRunning` is not inductive either. The runtime reconciler records
the end of a container from a listing that may be old, so the invariant says in
what way it may be old (`ListingOK`: a container listed as not running does not
run now, for nothing restarts it), that the loop still stands where the listing
was made (`PendOK`), that a recorded container was started (`RecordedWasStarted`),
and that the executor still has a reason for each workload it is about to start
or stop (`TodoOK`, `ReserveOK`). These, with `RowsConsistent`, are proved
together (`Rows` and `Loop`): first a lemma per transaction about rows, then
one per kind of change of the goroutine's state, then one step per action.

`DeletedHasNoWork` and `VersionsBounded` relate the tables to the snapshot. The
argument has three parts: workload rows only age (`Ages`: a finished row stays
so, service and version of a row never change) or are inserted for the service
at hand with the version of its snapshot (`Inserts`); service rows only age
(`ServicesAge`); the snapshot of a service only falls behind it
(`SnapshotAges`). `VisitOK` and `SnapshotOK` connect them: work is created only
for a service that was ACTIVE in the snapshot, hence is not DELETED, as only
the goroutine itself completes a deletion, and of another snapshot.

`ReservationChecked` needs only types: one step per action, each of which
leaves allocations alone, releases, clears, or reserves under the check.

`NoPhantomReservation` is inductive beside `Inv`. What is proved of a step is
how the sum over the workloads of a node changes against its allocation: a
reservation adds the same to both, because a workload that is reserved was on
no node (`ReserveOK`, `RowsConsistent`); a release takes the request off the
allocation, down to zero at the least, and the workload out of the sum if it
becomes FAILED; a recovery leaves nothing in either. STOPPED workloads stay in
the sum, which is why the release that is done twice (`claim_active_reserved`)
does no harm to this bound.

`SurgeBounded` is not true of every behaviour, so the theorem says of which
ones it is: `Undisturbed` steps scale no service down and take back no stop. A
client may still bring new versions and more replicas, services may be deleted,
and anything may fail, crash or be read too late; the recovery of a lost node
is included as long as none of its workloads was being stopped. A controller
decides by the snapshot, so the bound needs `SnapshotWithin`: the snapshot
allows no more replicas than the row, the same surge, and no workload is newer
than it. Then every active workload is counted by the controller, as an old or
a new one (`ActiveParts`), and what it inserts (`InsertAllowed`) fits. All other
steps make no workload active (`AgesRevivesNone`), which follows from `Ages`.

`AvailabilityKept` has a theorem of the same kind. `Calm` steps are those in
which no container ends by itself, no lost node is recovered and nobody resizes
a service, for services with a surge of at most one. Calls, transactions and the
control plane may fail at any point, images may be updated at any time. The
argument: a stop is decided in one step and carried out in a later one, so the
invariant `EnoughStay` speaks of the time in between: while a workload that
serves is to stop, those that serve and are not to stop are enough. The
deployment controller counts what is recorded as RUNNING, and `RunningServes`
says that this is what runs (with `FinishedNotRunning`, the two sets are equal:
`StayingCounted`). The scale-down of the replica controller has a weaker guard;
`NoExcess` shows that with a surge of at most one it never comes to it, because
each replacement takes the place of an old workload. Every step is shown to be
`Orderly`: it stops only containers that are to stop, and marks workloads only
in a deletion or under the controller's guard. The restriction to a surge of at
most one is real: with two or more, a rollout can end with more new workloads
than replicas, and the scale-down that follows may stop the only one that runs.

The scheduler. `FilterNodes` and `SelectBestNode` are folds over the list of
nodes. The proofs describe a fold by the sequence of its intermediate results
(`FoldProofs`: there is exactly one such sequence), and prove by induction over
the position that `FilterNodes` has kept the nodes with room in their order, and
that `SelectBestNode` holds the first one whose score no earlier one beats. From
there to `ChoosesNearBest` it takes `RoundingAssumption`: sums of shares that
are more than 1 / `Precision` apart are told apart, and so are two amounts left
free on nodes of one size when one is no less in either resource. Both hold of
`float64`: sizes and requests are INTEGER columns (`001_initial.sql:5`), so a
score is off by at most 2^-52, and the shares of a node change in steps of at
least 2^-31. The invariant `SInv` then has `NeverOvercommitted`, the allocation as
a sum, as the link between the rows of workloads and those of nodes; with
requests all equal the allocation of a node is the request times the number of
its workloads, hence of two nodes of the same size the one with fewer workloads
scores higher, and `SpreadsEvenly` is kept. Positive sizes and requests are needed
here: a fraction of nothing is no score, and a request of nothing no load.

Induction over data is not available as a rule with a formula as its parameter.
`FoldProofs` states it over sets instead: a set of numbers that contains zero
and with each number the next one contains them all, from the least element of
its complement; and likewise for finite sets.

The refinement of `WorkloadLife` rests on `Inv`: that a workload is started
only where it is placed, and placed only while it waits, is what the row
consistency and `TodoOK`, `ReserveOK` say. Each action of `Reconciler` is shown
to change the rows in one of a few ways, and each of these to be a step of
`WorkloadLife` or none. `FailureIsFrozen` needs `FailureSeen`: what is left of
the snapshot knows of every failed deployment, for only the end of the visit of
a service makes its deployment FAILED.

`Executor`: no start is late for a container that the row or the executor
refers to, since a container of the same name is created only when the one the
start was for is gone (`RefersOK`); a listing is out of date in one direction
only (`ListedOK`). For `OutcomesAreAtomic`, `CourseOK` says for each phase and
call how far an operation that nobody interfered with has come from `before`.

`NodeHealth`: the two bounds are budgets. `HeardOK` says that the age of the
last heartbeat, plus the time until the next one at the latest, stays within
the timeout as long as none got stuck; it has a case for each place where the
heartbeat loop can be. `ListedOK` carries it over to the listing, whose age is
not that of the rows. `DetectOK` does the same for the checker: the age of a
READY row, plus the time until the checker has written, stays within the bound
of `DetectedInTime`, each failed check paying for itself.

`Autoscaler`: the hull of the bounds and of what was asked for also contains
the row in the snapshot, which may be older than the row that is written.
`SteadyScaling` compares the memory with the history: unless a client has
updated the service since, an observation counts no more readings than there
were since the last write, and the time since that write in the row and in the
snapshot is no longer than it really is.

Only model-checked: liveness, which the prover does not handle. `SurgeBounded`
and `AvailabilityKept` were checked with TLC also in the form of their theorems,
with faults and resizing, by restricting the next-state relation to
`Undisturbed` and to `Calm` steps. All invariants and action properties of the
passing runs are stated by a theorem.

What the runs show of the autoscaler's weaker side is worth knowing: the entry
of a service is not cleared when it is scaled, so after a client has put the
count back, one reading is enough to overwrite it; `SteadyScaling` is therefore
about writes with no client's update in between.

## 5. Not modelled, and the plan

Not modelled because there is no state of the orchestrator in it: TLS and HTTP
configuration, authentication, routing, JSON, metrics counters, probes, the
configuration of the processes, the development compose file. `StartDeployment`,
`MarkWorkloadFailed` and the inspection of a container are called by nothing.

Not modelled although it matters: floating point in the autoscaler; the
CPU arithmetic of `DockerRuntime.Stats`, whose unsigned differences assume
counters that never go back; two agents on one engine; time zones of the
database session; a service created with a version and a status of the client's
choice; the age of a rollout, so that its timeout is a fault that may come at
any time.

What is left to do:

1. A run with two services in `Reconciler`.
2. The deployment timeout on a clock, next to a scale-down of a rollout that
   was completed long ago.
