------------------------------- MODULE Claims ------------------------------
(***************************************************************************)
(* What comments and tests of the repository say of the control plane, as  *)
(* properties of Reconciler that its behaviours do not all have.  Each one *)
(* is the subject of a run that exhibits a counterexample.                 *)
(***************************************************************************)
EXTENDS Reconciler

\* assertAllocationsMatchActiveWorkloads, the half that keeps a node from
\* being overcommitted: every active workload placed on a node is counted in
\* the allocation of the node.
ActiveIsReserved ==
    \A n \in Node : \A dim \in {"cpu", "mem"} :
        nodes[n].alloc[dim] >=
            MapThenSumSet(LAMBDA w : workloads[w].req[dim],
                          {w \in ListWorkloadsByNode(n) : isActive(w)})

\* "Pending workloads don't have a container." (WorkloadExecutor.Stop): a
\* workload without a container id leaves nothing running when it is stopped.
StoppedLeavesNothingRunning ==
    \A w \in Workload : workloads[w].actual = "STOPPED" =>
        \A n \in Node : containers[n][w] # "running"

\* "A current-version workload failing means the rollout cannot currently
\* reach the desired state." (DeploymentStatusController): a deployment does
\* not become FAILED, other than by its timeout, which is a fault of the step,
\* unless a workload of the service's version has failed.
FailureIsOfCurrentVersion ==
    [][\A s \in Service :
          /\ services[s].deployment # "FAILED"
          /\ services'[s].deployment = "FAILED"
          /\ faults' = faults
          => OfVersionInState(s, services[s].version, "FAILED") # {}]_vars
=============================================================================
