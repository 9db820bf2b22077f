---------------------------- MODULE Controllers ----------------------------
(***************************************************************************)
(* internal/controller: the four controllers the reconciler runs for one   *)
(* service.  Each takes s, a service id, and svc, the row of s as the      *)
(* cycle's ListServices returned it: the row in the table may be newer.    *)
(* Each reads the workloads of s once and then decides; nobody but the     *)
(* reconciler writes workloads, so what it read stays current.             *)
(*                                                                         *)
(* Workloads are listed ORDER BY created_at, a column the controllers      *)
(* never set: every workload has the zero time and the order is            *)
(* PostgreSQL's choice.  "The first old workload" and "the last ones of    *)
(* the list" are therefore any workloads.                                  *)
(***************************************************************************)
EXTENDS Store

isActive(w) == /\ workloads[w].actual \in Unfinished
               /\ workloads[w].desired # "STOPPED"

oldActiveWorkloads(s, version) ==
    {w \in ListWorkloadsByService(s) : workloads[w].version < version /\ isActive(w)}

newActiveWorkloads(s, version) ==
    {w \in ListWorkloadsByService(s) : workloads[w].version = version /\ isActive(w)}

runningActiveWorkloads(s) ==
    {w \in ListWorkloadsByService(s) :
        workloads[w].actual = "RUNNING" /\ workloads[w].desired # "STOPPED"}

OfVersionInState(s, version, state) ==
    {w \in ListWorkloadsByService(s) :
        workloads[w].version = version /\ workloads[w].actual = state}

-----------------------------------------------------------------------------
(* DeploymentController: one move of a rolling update per cycle.           *)

RolloutIdle(s, svc) ==
    \/ svc.deployment = "FAILED"
    \/ oldActiveWorkloads(s, svc.version) = {}
    \/ OfVersionInState(s, svc.version, "FAILED") # {}

\* Mutants of SurgeAllowed: one workload too many; no surge at all.
SurgeAllowedOneMore(s, svc) ==
    Cardinality(oldActiveWorkloads(s, svc.version))
        + Cardinality(newActiveWorkloads(s, svc.version))
    <= svc.replicas + svc.surge

SurgeIgnored(s, svc) ==
    Cardinality(oldActiveWorkloads(s, svc.version))
        + Cardinality(newActiveWorkloads(s, svc.version))
    < svc.replicas

SurgeAllowed(s, svc) ==
    Cardinality(oldActiveWorkloads(s, svc.version))
        + Cardinality(newActiveWorkloads(s, svc.version))
    < svc.replicas + svc.surge

\* Mutant of StopAllowed: w itself is counted as staying.
StopAllowedCountingItself(w, s, svc) ==
    \/ workloads[w].actual # "RUNNING"
    \/ Cardinality(runningActiveWorkloads(s)) >= svc.replicas - svc.unavailable

\* Stopping the old workload w keeps enough replicas running.
StopAllowed(w, s, svc) ==
    \/ workloads[w].actual # "RUNNING"
    \/ Cardinality(runningActiveWorkloads(s)) - 1 >= svc.replicas - svc.unavailable

\* A replacement while there is surge capacity, else one old workload less.
DeploymentController(s, svc) ==
    \/ /\ RolloutIdle(s, svc)
       /\ UNCHANGED tables
    \/ /\ ~RolloutIdle(s, svc)
       /\ SurgeAllowed(s, svc)
       /\ \E w \in FreeWorkload : CreatePendingWorkloads({w}, s, svc)
    \/ /\ ~RolloutIdle(s, svc)
       /\ ~SurgeAllowed(s, svc)
       /\ \E w \in oldActiveWorkloads(s, svc.version) :
             StopWorkloads(IF StopAllowed(w, s, svc) THEN {w} ELSE {})

-----------------------------------------------------------------------------
(* ReplicaController: as many workloads of the current version as desired. *)

countActiveReplicas(s, version) ==
    Cardinality({w \in ListWorkloadsByService(s) :
                    workloads[w].version \in {0, version} /\ isActive(w)})

ReplicasIdle(s, svc) ==
    \/ svc.deployment = "FAILED"
    \/ oldActiveWorkloads(s, svc.version) # {}
    \/ countActiveReplicas(s, svc.version) = svc.replicas

MissingReplicas(s, svc) == svc.replicas - countActiveReplicas(s, svc.version)

\* "Enforce maxUnavailable = 0": the code's guard of a scale-down.
ScaleDownAllowed(s, svc) ==
    \/ OfVersionInState(s, svc.version, "RUNNING") # {}
    \/ svc.replicas = 0

\* selectScaleDownCandidates: so many active workloads of any version.
ScaleDownCandidates(s, excess) ==
    LET active == {w \in ListWorkloadsByService(s) : isActive(w)}
    IN  {c \in SUBSET active :
            Cardinality(c) = IF Cardinality(active) < excess
                             THEN Cardinality(active) ELSE excess}

\* All the writes of a call that returns no error.
ReplicaController(s, svc) ==
    LET missing == MissingReplicas(s, svc)
    IN  \/ /\ ReplicasIdle(s, svc)
           /\ UNCHANGED tables
        \/ /\ ~ReplicasIdle(s, svc)
           /\ missing > 0
           /\ \E ids \in SUBSET FreeWorkload :
                 /\ Cardinality(ids) = missing
                 /\ CreatePendingWorkloads(ids, s, svc)
        \/ /\ ~ReplicasIdle(s, svc)
           /\ missing < 0
           /\ \E ids \in ScaleDownCandidates(s, -missing) :
                 StopWorkloads(IF ScaleDownAllowed(s, svc) THEN ids ELSE {})

\* The writes of a call that returns an error: a part of the above.
ReplicaControllerPart(s, svc) ==
    LET missing == MissingReplicas(s, svc)
    IN  /\ ~ReplicasIdle(s, svc)
        /\ \/ /\ missing > 0
              /\ \E ids \in SUBSET FreeWorkload :
                    /\ Cardinality(ids) < missing
                    /\ CreatePendingWorkloads(ids, s, svc)
           \/ /\ missing < 0
              /\ ScaleDownAllowed(s, svc)
              /\ \E all \in ScaleDownCandidates(s, -missing) :
                    \E ids \in SUBSET all :
                        ids # all /\ StopWorkloads(ids)

-----------------------------------------------------------------------------
(* DeletionController: stop what is unfinished; when nothing is, done.     *)

UnfinishedWorkloads(s) ==
    {w \in ListWorkloadsByService(s) : workloads[w].actual \in Unfinished}

\* Mutant of DeletionController: only RUNNING workloads are waited for.
DeletionControllerEager(s) ==
    LET running == {w \in UnfinishedWorkloads(s) : workloads[w].actual = "RUNNING"}
    IN  \/ running # {} /\ StopWorkloads(running)
        \/ running = {} /\ MarkServiceDeleted(s)

DeletionController(s) ==
    \/ /\ UnfinishedWorkloads(s) # {}
       /\ StopWorkloads(UnfinishedWorkloads(s))
    \/ /\ UnfinishedWorkloads(s) = {}
       /\ MarkServiceDeleted(s)

\* A write of the call fails: some of the workloads are marked, or the
\* service is not.
DeletionControllerPart(s) ==
    \E ids \in SUBSET UnfinishedWorkloads(s) :
        /\ ids = {} \/ ids # UnfinishedWorkloads(s)
        /\ StopWorkloads(ids)

-----------------------------------------------------------------------------
(* DeploymentStatusController: the status of the rollout, as svc has it.   *)

\* The status to write; timedOut tells whether more than the deployment
\* timeout has passed since deployment_started_at.
RolloutStatus(s, svc, timedOut) ==
    IF /\ Cardinality(OfVersionInState(s, svc.version, "RUNNING")) = svc.replicas
       /\ oldActiveWorkloads(s, svc.version) = {}
    THEN "AVAILABLE"
    ELSE IF \/ OfVersionInState(s, svc.version, "FAILED") # {}
            \/ svc.started /\ timedOut
         THEN "FAILED"
         ELSE "PROGRESSING"

\* Mutant of DeploymentStatusController: a FAILED deployment is looked at again.
StatusOfFailedToo(s, svc, timedOut) ==
    UpdateDeploymentStatus(s, RolloutStatus(s, svc, timedOut))

DeploymentStatusController(s, svc, timedOut) ==
    \/ /\ svc.deployment = "FAILED"
       /\ UNCHANGED tables
    \/ /\ svc.deployment # "FAILED"
       /\ UpdateDeploymentStatus(s, RolloutStatus(s, svc, timedOut))
=============================================================================
