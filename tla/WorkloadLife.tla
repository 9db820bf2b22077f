---------------------------- MODULE WorkloadLife ---------------------------
(***************************************************************************)
(* What the control plane promises about the life of its workloads, apart  *)
(* from how rows, snapshots, engines and retries bring it about:           *)
(*   none -> waiting -> placed -> running -> finished                      *)
(* where a workload may finish from any stage, and the loss of a node      *)
(* sends everything unfinished that was placed there back to waiting.      *)
(* What a workload is for is settled when it is created.                   *)
(*                                                                         *)
(* Reconciler implements this specification (its property ImplementsLife). *)
(***************************************************************************)
CONSTANTS Workload, Node, Null

VARIABLES
    life,     \* the stage of each workload
    place,    \* the node of each placed or running workload
    job       \* the service, version and resources it was created for

vars == <<life, place, job>>

Init ==
    /\ life = [w \in Workload |-> "none"]
    /\ place = [w \in Workload |-> Null]

\* Workloads are created together for the same job.
Create(ids) ==
    /\ \A w \in ids : life[w] = "none"
    /\ life' = [w \in Workload |-> IF w \in ids THEN "waiting" ELSE life[w]]
    /\ \A w \in Workload \ ids : job'[w] = job[w]
    /\ \A v, w \in ids : job'[v] = job'[w]
    /\ UNCHANGED place

Place(w, n) ==
    /\ life[w] = "waiting"
    /\ life' = [life EXCEPT ![w] = "placed"]
    /\ place' = [place EXCEPT ![w] = n]
    /\ UNCHANGED job

Start(w) ==
    /\ life[w] = "placed"
    /\ life' = [life EXCEPT ![w] = "running"]
    /\ UNCHANGED <<place, job>>

Finish(w) ==
    /\ life[w] \in {"waiting", "placed", "running"}
    /\ life' = [life EXCEPT ![w] = "finished"]
    /\ place' = [place EXCEPT ![w] = Null]
    /\ UNCHANGED job

\* Node n is lost: all that was placed there, and nothing else, waits again.
Evict(n) ==
    /\ life' = [w \in Workload |-> IF place[w] = n THEN "waiting" ELSE life[w]]
    /\ place' = [w \in Workload |-> IF place[w] = n THEN Null ELSE place[w]]
    /\ UNCHANGED job

Next ==
    \/ \E ids \in SUBSET Workload : Create(ids)
    \/ \E w \in Workload : Start(w) \/ Finish(w) \/ \E n \in Node : Place(w, n)
    \/ \E n \in Node : Evict(n)

Spec == Init /\ [][Next]_vars
=============================================================================
