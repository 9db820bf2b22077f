----------------------------- MODULE Autoscaler ----------------------------
(***************************************************************************)
(* The autoscaler (internal/autoscaler) and where it gets its readings     *)
(* from (internal/metrics).  A goroutine of its own lists the services at  *)
(* every firing of its ticker and goes through the listing; clients, the   *)
(* reconciler and the load go on meanwhile.                                *)
(*                                                                         *)
(* What is abstracted:                                                     *)
(*  - the unit of time is the interval of the loop, and times are kept as  *)
(*    ages.  A cycle takes less than two units;                            *)
(*  - one step is the visit of one service, from the listing of its        *)
(*    workloads to the write: all it works from but the readings is older; *)
(*  - the workloads of a service are its load, the sum of what the agents  *)
(*    report, and ready: whether they are known to be what the row asks    *)
(*    for.  Where they are not, a visit may find some of them RUNNING or   *)
(*    none.  The reconciler, modelled in module Reconciler, makes them     *)
(*    ready, which nothing here says it must, and keeps the deployment     *)
(*    status;                                                              *)
(*  - the CPU arithmetic is exact, not in floating point.                  *)
(***************************************************************************)
EXTENDS Integers

CONSTANTS
    Service,
    Configs,        \* the autoscaling configurations clients ask for
    Replicas,       \* the replica counts clients ask for
    Requests,       \* the CPU requests clients ask for
    Loads,          \* CPU usage of a service, summed up
    ObservationTTL, \* 10 minutes, in units of the loop's interval
    NodeID,         \* the id of a node
    NodeAddress,    \* and the address its agent answers at
    MaxCooldown,    \* bound: longer times since a scaling are not told apart
    MaxUpdates,     \* bound: how many times clients update a service
    MaxFaults       \* bound: how many things go wrong

Config == [enabled : BOOLEAN, min : Nat, max : Nat, targetCPU : 0..100,
           up : Nat, down : Nat, required : Nat, step : Nat]

ASSUME ConfigsAssumption ==
    /\ Configs \subseteq Config
    /\ \A c \in Configs : c.up <= MaxCooldown /\ c.down <= MaxCooldown
ASSUME NumbersAssumption ==
    /\ Replicas \subseteq Nat /\ Loads \subseteq Nat /\ Requests \subseteq Nat \ {0}
    /\ ObservationTTL \in Nat /\ MaxCooldown \in Nat
    /\ MaxUpdates \in Nat /\ MaxFaults \in Nat

\* autoscaling_last_scaled_at is NULL.
Never == -1

VARIABLES
    services,     \* the rows
    ready,        \* the services whose workloads are as the row asks
    load,
    observations, \* the autoscaler's memory
    pc,           \* waiting for the ticker, or in the loop over the listing
    fired,        \* the ticker's channel holds a firing
    snap,         \* what is left of the listing
    quiet,        \* history: time since the autoscaler last wrote the row
    readings,     \* history: complete readings since then
    disturbed,    \* history: services a client has updated since then
    hull,         \* history: the bounds, and every count a client asked for
    updates, faults

memory == <<observations, pc, fired, snap>>

history == <<quiet, readings, disturbed, hull>>

vars == <<services, ready, load, memory, history, updates, faults>>

Since == {Never} \cup 0..MaxCooldown

NoConfig == [enabled |-> FALSE, min |-> 0, max |-> 0, targetCPU |-> 0,
             up |-> 0, down |-> 0, required |-> 0, step |-> 0]

Row == [status : {"ABSENT", "ACTIVE", "DELETING", "DELETED"},
        deployment : {"AVAILABLE", "PROGRESSING", "FAILED"},
        replicas : Nat, req : Nat, since : Since, config : Config]

AbsentRow == [status |-> "ABSENT", deployment |-> "AVAILABLE", replicas |-> 0,
              req |-> 0, since |-> Never, config |-> NoConfig]

Observation == [desired : Nat, count : Nat, age : 0..ObservationTTL + 1]

\* count = 0: the map has no entry.
NoObservation == [desired |-> 0, count |-> 0, age |-> 0]

TypeOK ==
    /\ services \in [Service -> Row]
    /\ ready \in SUBSET Service
    /\ load \in [Service -> Loads]
    /\ observations \in [Service -> Observation]
    /\ pc \in {"waiting", "services"}
    /\ fired \in BOOLEAN
    /\ snap \in [Service -> Row]
    /\ quiet \in [Service -> 0..MaxCooldown]
    /\ readings \in [Service -> Nat]
    /\ disturbed \in SUBSET Service
    /\ hull \in [Service -> [lo : Nat, hi : Nat]]
    /\ updates \in 0..MaxUpdates
    /\ faults \in 0..MaxFaults

Init ==
    /\ services = [s \in Service |-> AbsentRow]
    /\ ready = {}
    /\ load \in [Service -> Loads]
    /\ observations = [s \in Service |-> NoObservation]
    /\ pc = "waiting" /\ fired = FALSE
    /\ snap = [s \in Service |-> AbsentRow]
    /\ quiet = [s \in Service |-> MaxCooldown]
    /\ readings = [s \in Service |-> 0]
    /\ disturbed = {}
    /\ hull = [s \in Service |-> [lo |-> 0, hi |-> 0]]
    /\ updates = 0 /\ faults = 0

Fault == faults < MaxFaults /\ faults' = faults + 1

Smaller(a, b) == IF a < b THEN a ELSE b

Larger(a, b) == IF a < b THEN b ELSE a

-----------------------------------------------------------------------------
(* Clients.                                                                *)

validateAutoscaling(c) ==
    c.enabled => /\ c.min >= 1 /\ c.max >= c.min
                 /\ c.targetCPU > 0
                 /\ c.required >= 1 /\ c.step >= 1

createService(s, replicas, req, c) ==
    /\ services[s].status = "ABSENT"
    /\ validateAutoscaling(c)
    /\ services' = [services EXCEPT ![s] =
           [status |-> "ACTIVE", deployment |-> "AVAILABLE", replicas |-> replicas,
            req |-> req, since |-> Never, config |-> c]]
    /\ hull' = [hull EXCEPT ![s] = [lo |-> Smaller(c.min, replicas),
                                    hi |-> Larger(c.max, replicas)]]
    /\ UNCHANGED <<ready, load, memory, quiet, readings, disturbed, updates, faults>>

\* The autoscaling columns are not in the SET list, and nothing compares the
\* count with their bounds.
updateService(s, replicas, req, newImage) ==
    /\ services[s].status # "ABSENT"
    /\ updates < MaxUpdates
    /\ updates' = updates + 1
    /\ services' = [services EXCEPT
           ![s].replicas = replicas,
           ![s].req = req,
           ![s].deployment = IF newImage THEN "PROGRESSING" ELSE @]
    /\ ready' = ready \ {s}
    /\ disturbed' = disturbed \cup {s}
    /\ hull' = [hull EXCEPT ![s] = [lo |-> Smaller(@.lo, replicas),
                                    hi |-> Larger(@.hi, replicas)]]
    /\ UNCHANGED <<load, memory, quiet, readings, faults>>

deleteService(s) ==
    /\ services[s].status = "ACTIVE"
    /\ services' = [services EXCEPT ![s].status = "DELETING"]
    /\ UNCHANGED <<ready, load, memory, history, updates, faults>>

-----------------------------------------------------------------------------
(* The reconciler, and the load.                                           *)

\* The replica controller leaves a FAILED deployment as it is.
WorkloadsReady(s) ==
    /\ services[s].status = "ACTIVE" /\ services[s].deployment # "FAILED"
    /\ s \notin ready
    /\ ready' = ready \cup {s}
    /\ UNCHANGED <<services, load, memory, history, updates, faults>>

WorkloadLost(s) ==
    /\ s \in ready
    /\ ready' = ready \ {s}
    /\ Fault
    /\ UNCHANGED <<services, load, memory, history, updates>>

StatusWritten(s, status) ==
    /\ services[s].status = "ACTIVE"
    /\ services[s].deployment \notin {"FAILED", status}
    /\ services' = [services EXCEPT ![s].deployment = status]
    /\ UNCHANGED <<ready, load, memory, history, updates>>

DeploymentStatus(s) ==
    /\ StatusWritten(s, IF s \in ready THEN "AVAILABLE" ELSE "PROGRESSING")
    /\ UNCHANGED faults

DeploymentFails(s) == s \notin ready /\ StatusWritten(s, "FAILED") /\ Fault

DeletionDone(s) ==
    /\ services[s].status = "DELETING"
    /\ services' = [services EXCEPT ![s].status = "DELETED"]
    /\ UNCHANGED <<ready, load, memory, history, updates, faults>>

LoadChanges(s, l) ==
    /\ load[s] # l
    /\ load' = [load EXCEPT ![s] = l]
    /\ UNCHANGED <<services, ready, memory, history, updates, faults>>

-----------------------------------------------------------------------------
(* The decision, as the code computes it from a row it has read.           *)

Ceil(a, b) == (a + b - 1) \div b

\* Mutant of Recommended: the upper bound is forgotten.
RecommendedUnbounded(svc, usage) ==
    Larger(svc.config.min, Ceil(100 * usage, svc.req * svc.config.targetCPU))

\* The replicas that bring the usage of each one to its target, between the
\* bounds of the configuration.
Recommended(svc, usage) ==
    Smaller(svc.config.max,
        Larger(svc.config.min, Ceil(100 * usage, svc.req * svc.config.targetCPU)))

limitScaleStep(current, desired, maxStep) ==
    IF maxStep <= 0 THEN current
    ELSE IF desired > current + maxStep THEN current + maxStep
    ELSE IF desired < current - maxStep THEN current - maxStep
    ELSE desired

cooldownActive(svc, desired) ==
    /\ svc.since # Never
    /\ \/ desired > svc.replicas /\ svc.since < svc.config.up
       \/ desired < svc.replicas /\ svc.since < svc.config.down

\* Mutant of cleanupObservations: all of them go.
cleanupAll == [s \in Service |-> NoObservation]

cleanupObservations ==
    [s \in Service |-> IF observations[s].age > ObservationTTL
                       THEN NoObservation ELSE observations[s]]

\* Mutant of Observed: the count goes on whatever was observed before.
ObservedAnyTarget(seen, desired, required) ==
    [desired |-> desired, age |-> 0,
     count |-> IF seen.count >= required THEN seen.count ELSE seen.count + 1]

\* The entry stableObservation leaves.  Counts beyond what is required are not
\* told apart.
Observed(seen, desired, required) ==
    [desired |-> desired, age |-> 0,
     count |-> IF seen.count = 0 \/ seen.desired # desired THEN 1
               ELSE IF seen.count >= required THEN seen.count ELSE seen.count + 1]

stableObservation(seen, desired, required) ==
    required <= 1 \/ Observed(seen, desired, required).count >= required

\* Mutant of UpdateDesiredReplicas: the difference is written.
UpdateDesiredReplicasBy(s, replicas) ==
    services' = [services EXCEPT ![s].replicas = replicas - @, ![s].since = 0]

\* UpdateDesiredReplicas: the WHERE clause names the service only.
UpdateDesiredReplicas(s, replicas) ==
    services' = [services EXCEPT ![s].replicas = replicas, ![s].since = 0]

-----------------------------------------------------------------------------
(* The loop.                                                               *)

ListServices ==
    /\ pc = "waiting" /\ fired
    /\ pc' = "services" /\ fired' = FALSE
    /\ snap' = services
    /\ UNCHANGED <<services, ready, load, observations, history, updates, faults>>

ListFails ==
    /\ pc = "waiting" /\ fired
    /\ fired' = FALSE
    /\ Fault
    /\ UNCHANGED <<services, ready, load, observations, pc, snap, history, updates>>

\* ReconcileService returns: on to the next service of the listing.
Visited(s) ==
    /\ pc = "services" /\ snap[s].status # "ABSENT"
    /\ snap' = [snap EXCEPT ![s] = AbsentRow]
    /\ UNCHANGED <<load, pc, fired, updates>>

NothingScaled == UNCHANGED <<services, ready, history>>

NotActive(s) ==
    /\ Visited(s)
    /\ snap[s].status # "ACTIVE"
    /\ NothingScaled /\ UNCHANGED <<observations, faults>>

Scalable(svc) ==
    /\ svc.status = "ACTIVE"
    /\ svc.deployment # "PROGRESSING"
    /\ svc.config.enabled /\ svc.config.targetCPU > 0

NotScalable(s) ==
    /\ Visited(s)
    /\ snap[s].status = "ACTIVE" /\ ~Scalable(snap[s])
    /\ observations' = cleanupObservations
    /\ NothingScaled /\ UNCHANGED faults

\* Listing the workloads fails: the observation stays.
WorkloadsUnlisted(s) ==
    /\ Visited(s)
    /\ Scalable(snap[s])
    /\ Fault
    /\ observations' = cleanupObservations
    /\ NothingScaled

\* No workload of the listed version is RUNNING.
NoneRunning(s) ==
    /\ Visited(s)
    /\ Scalable(snap[s])
    /\ s \in ready => services[s].replicas = 0
    /\ observations' = cleanupObservations
    /\ NothingScaled /\ UNCHANGED faults

SomeRunning(s) == s \in ready => services[s].replicas > 0

\* NodeProvider hands the id of the workload's node to GetContainerStats,
\* which takes an address.
MetricsReachable == NodeID = NodeAddress

\* A reading fails: the observation is forgotten.
MetricsFail(s) ==
    /\ Visited(s)
    /\ Scalable(snap[s]) /\ SomeRunning(s)
    /\ IF MetricsReachable THEN Fault ELSE UNCHANGED faults
    /\ observations' = [cleanupObservations EXCEPT ![s] = NoObservation]
    /\ NothingScaled

\* What the readings of a visit come to.
Wanted(s) ==
    limitScaleStep(snap[s].replicas, Recommended(snap[s], load[s]), snap[s].config.step)

Reading(s) ==
    /\ Visited(s)
    /\ Scalable(snap[s]) /\ SomeRunning(s)
    /\ MetricsReachable

\* Readings beyond what is required are not told apart.
Counted(s) ==
    readings' = [readings EXCEPT ![s] = Smaller(@ + 1, snap[s].config.required)]

\* Nothing to do, or not now: no observation is made.
Hold(s) ==
    /\ Reading(s)
    /\ Wanted(s) = snap[s].replicas \/ cooldownActive(snap[s], Wanted(s))
    /\ observations' = cleanupObservations
    /\ Counted(s)
    /\ UNCHANGED <<services, ready, quiet, disturbed, hull, faults>>

Decides(s) ==
    /\ Reading(s)
    /\ Wanted(s) # snap[s].replicas
    /\ ~cooldownActive(snap[s], Wanted(s))
    /\ observations' = IF snap[s].config.required <= 1
                       THEN cleanupObservations
                       ELSE [cleanupObservations EXCEPT
                               ![s] = Observed(@, Wanted(s), snap[s].config.required)]

Stable(s) ==
    stableObservation(cleanupObservations[s], Wanted(s), snap[s].config.required)

Observe(s) ==
    /\ Decides(s)
    /\ ~Stable(s)
    /\ Counted(s)
    /\ UNCHANGED <<services, ready, quiet, disturbed, hull, faults>>

Scale(s) ==
    /\ Decides(s)
    /\ Stable(s)
    /\ UpdateDesiredReplicas(s, Wanted(s))
    /\ ready' = IF services[s].replicas = Wanted(s) THEN ready ELSE ready \ {s}
    /\ quiet' = [quiet EXCEPT ![s] = 0]
    /\ readings' = [readings EXCEPT ![s] = 0]
    /\ disturbed' = disturbed \ {s}
    /\ UNCHANGED <<hull, faults>>

ScaleFails(s) ==
    /\ Decides(s)
    /\ Stable(s)
    /\ Counted(s)
    /\ Fault
    /\ UNCHANGED <<services, ready, quiet, disturbed, hull>>

CycleDone ==
    /\ pc = "services"
    /\ \A s \in Service : snap[s].status = "ABSENT"
    /\ pc' = "waiting"
    /\ UNCHANGED <<services, ready, load, observations, fired, snap, history,
                   updates, faults>>

\* The control plane restarts: the observations are lost.  Run waits for the
\* first firing of its ticker.
Restart ==
    /\ pc' = "waiting" /\ fired' = FALSE
    /\ snap' = [s \in Service |-> AbsentRow]
    /\ observations' = [s \in Service |-> NoObservation]
    /\ Fault
    /\ UNCHANGED <<services, ready, load, history, updates>>

-----------------------------------------------------------------------------
(* Time.                                                                   *)

Longer(since) == IF since = Never THEN Never ELSE Smaller(since + 1, MaxCooldown)

LastScaledAged(rows) == [s \in Service |-> [rows[s] EXCEPT !.since = Longer(@)]]

\* The loop goes round before its ticker fires twice.
Tick ==
    /\ ~fired
    /\ fired' = TRUE
    /\ services' = LastScaledAged(services)
    /\ snap' = LastScaledAged(snap)
    /\ quiet' = [s \in Service |-> Smaller(quiet[s] + 1, MaxCooldown)]
    /\ observations' = [s \in Service |-> [observations[s] EXCEPT
           !.age = IF observations[s].count = 0 THEN 0
                   ELSE Smaller(@ + 1, ObservationTTL + 1)]]
    /\ UNCHANGED <<ready, load, pc, readings, disturbed, hull, updates, faults>>

Client(s) ==
    \/ \E replicas \in Replicas, req \in Requests :
          \/ \E c \in Configs : createService(s, replicas, req, c)
          \/ \E newImage \in BOOLEAN : updateService(s, replicas, req, newImage)
    \/ deleteService(s)

Environment(s) ==
    \/ WorkloadLost(s) \/ DeploymentFails(s) \/ DeletionDone(s)
    \/ \E l \in Loads : LoadChanges(s, l)

Visit(s) ==
    \/ NotActive(s) \/ NotScalable(s) \/ NoneRunning(s)
    \/ Hold(s) \/ Observe(s) \/ Scale(s)
    \/ WorkloadsUnlisted(s) \/ MetricsFail(s) \/ ScaleFails(s)

Loop == ListServices \/ CycleDone \/ \E s \in Service : Visit(s)

Next ==
    \/ Tick \/ Loop \/ ListFails \/ Restart
    \/ \E s \in Service : \/ Client(s) \/ Environment(s)
                          \/ WorkloadsReady(s) \/ DeploymentStatus(s)

Spec == Init /\ [][Next]_vars

\* Time passes, the autoscaler's goroutine goes on and the reconciler's writes
\* the deployment status in each of its cycles.  That workloads become ready is
\* not assumed: placing or starting them may fail for good.
Fairness ==
    /\ WF_vars(Tick)
    /\ WF_vars(Loop)
    /\ \A s \in Service : WF_vars(DeploymentStatus(s))

FairSpec == Spec /\ Fairness

-----------------------------------------------------------------------------
(* Properties.                                                             *)

\* The autoscaler never takes a service beyond its bounds and the counts its
\* clients have asked for, also where it works from a row that a client has
\* updated since: every count is one between these.
BetweenAskedAndBounds ==
    \A s \in Service : services[s].config.enabled =>
        services[s].replicas \in hull[s].lo..hull[s].hi

\* Two writes of the autoscaler with no client's update in between lie apart
\* by the required number of readings and by the cooldown of the direction,
\* through restarts, failed writes and rows read before the last change.
SteadyScaling ==
    [][\A s \in Service :
          Scale(s) /\ services[s].since # Never /\ s \notin disturbed =>
              /\ readings[s] + 1 >= services[s].config.required
              /\ quiet[s] >= IF services'[s].replicas > services[s].replicas
                             THEN services[s].config.up
                             ELSE services[s].config.down]_vars

\* Under a load that stays, an ACTIVE service whose workloads become what the
\* row asks for again and again settles at the recommended count, whatever went
\* on before: a client's update that was overwritten or overwrote, lost
\* observations, failed listings and writes.  The premise leaves out a FAILED
\* deployment, whose workloads stay as they are: with none of them RUNNING
\* there is nothing to read, and the count stays too.
ReachesTarget ==
    \A s \in Service : \A l \in Loads :
        /\ <>[](/\ services[s].status = "ACTIVE" /\ services[s].config.enabled
                /\ services[s].replicas > 0 /\ load[s] = l)
        /\ []<>(s \in ready)
        => <>[](/\ services[s].config.enabled
                /\ services[s].replicas = Recommended(services[s], l))

\* "Autoscaling consumes CPU usage obtained from the node-agent metrics
\* endpoint." (README): a service that stays enabled, ACTIVE and AVAILABLE with
\* a replica to read from is read from.  It holds where the id of a node is
\* also its address; the run that checks it has them differ.
UsageConsumed ==
    \A s \in Service :
        <>[](/\ services[s].status = "ACTIVE" /\ services[s].config.enabled
             /\ services[s].deployment = "AVAILABLE"
             /\ s \in ready /\ services[s].replicas > 0)
        => <>(readings[s] > 0 \/ services[s].since # Never)
=============================================================================
