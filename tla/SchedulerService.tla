-------------------------- MODULE SchedulerService -------------------------
(***************************************************************************)
(* internal/scheduler/service.go on its own: pending workloads are placed  *)
(* one after the other, in any order, on nodes that stay ready.  It checks *)
(* the algorithm of Scheduler against what the composed model takes from   *)
(* it, BestNodes, and what a sequence of its choices adds up to.           *)
(***************************************************************************)
EXTENDS Scheduler

CONSTANTS
    Ids,          \* the node ids in the order ListNodes returns them
    Capacities,   \* what a node may have
    Requests,     \* what a workload may ask for
    Precision     \* sums of shares further apart than 1 / Precision are told apart

ASSUME IdsAssumption == Ids \in Seq(Node) /\ IsInjective(Ids) /\ Range(Ids) = Node

\* registerNode and validateServiceRequest refuse what is not positive.
ASSUME CapacitiesAssumption == Capacities \subseteq [cpu : Nat \ {0}, mem : Nat \ {0}]
ASSUME RequestsAssumption == Requests \subseteq [cpu : Nat \ {0}, mem : Nat \ {0}]

\* What a node of this size may have left.
Within(cap) == [cpu : 0..cap.cpu, mem : 0..cap.mem]

\* No less of either resource, and more of one.
Roomier(a, b) == a.cpu >= b.cpu /\ a.mem >= b.mem /\ a # b

\* a's exact sum of shares is greater than b's by more than 1 / Precision.
FarBetter(a, capA, b, capB) ==
    LET sum(free, cap) == free.cpu * cap.mem + free.mem * cap.cpu
        size(cap) == cap.cpu * cap.mem
    IN  Precision * (sum(a, capA) * size(capB) - sum(b, capB) * size(capA))
            > size(capA) * size(capB)

\* float64 division and addition of INTEGER columns: a score is off by at most
\* 2^-52, so they compare right when they are more than 2^-51 apart, which is
\* Precision = 2^51; and a step of a share is at least 2^-31, which is not lost.
ASSUME RoundingAssumption ==
    /\ Precision \in Nat
    /\ \A capA, capB \in Capacities : \A a \in Within(capA), b \in Within(capB) :
          /\ FloatShares(a, capA) \in Int
          /\ FarBetter(a, capA, b, capB) => FloatShares(a, capA) > FloatShares(b, capB)
          /\ capA = capB /\ Roomier(a, b) => FloatShares(a, capA) > FloatShares(b, capB)

\* The workloads belong to a service.
ASSUME ServiceAssumption == Service # {}

VARIABLE refused  \* the workloads the scheduler found no node for

vars == <<tables, refused>>

TypeOK == StoreTypeOK /\ refused \subseteq Workload

Init ==
    /\ \E cap \in [Node -> Capacities] :
          nodes = [n \in Node |-> [AbsentNode EXCEPT !.status = "READY", !.cap = cap[n]]]
    /\ services = [s \in Service |-> AbsentService]
    /\ \E req \in [Workload -> Requests] :
          workloads = [w \in Workload |->
              [AbsentWorkload EXCEPT !.service = CHOOSE s \in Service : TRUE,
                                     !.version = 1, !.req = req[w],
                                     !.desired = "PENDING", !.actual = "PENDING"]]
    /\ refused = {}

ScheduleWorkload(w) ==
    /\ workloads[w].desired = "PENDING"
    /\ LET n == Schedule(workloads[w].req, Ids)
       IN  \/ /\ n # Null
              /\ ReserveNodeForWorkload(w, n)
              /\ UNCHANGED refused
           \/ /\ n = Null
              /\ refused' = refused \cup {w}
              /\ UNCHANGED tables

Next == \E w \in Workload : ScheduleWorkload(w)

Spec == Init /\ [][Next]_vars

-----------------------------------------------------------------------------

PlacedOn(n) == {w \in Workload : workloads[w].node = n}

\* SelectBestNode walks the list once and compares rounded scores.  The node
\* it returns is one the composed model may pick; none with room is better by
\* more than the rounding; none of its size leaves more free; and of nodes that
\* are the same in size and allocation it is the first in the list.
ChoosesNearBest ==
    [][\A w \in Workload : workloads[w].node = Null /\ workloads'[w].node # Null =>
          LET req == workloads[w].req
              chosen == workloads'[w].node
              left(n) == FreeAfter(req, nodes[n])
          IN  /\ chosen \in BestNodes(req)
              /\ \A n \in Node : Schedulable(req, nodes[n]) =>
                    /\ ~FarBetter(left(n), nodes[n].cap, left(chosen), nodes[chosen].cap)
                    /\ nodes[n].cap = nodes[chosen].cap => ~Roomier(left(n), left(chosen))
                    /\ nodes[n] = nodes[chosen] =>
                          \E i, j \in DOMAIN Ids : Ids[i] = chosen /\ Ids[j] = n /\ i <= j]_vars

\* A workload the scheduler refuses fits on no node, then and (allocations
\* only grow here) later.
RefusedFitsNowhere ==
    \A w \in refused : \A n \in Node : ~Fits(workloads[w].req, nodes[n])

\* The reservations on a node add up to its allocation and stay within its
\* capacity, in both dimensions.
NeverOvercommitted ==
    \A n \in Node : \A dim \in {"cpu", "mem"} :
        /\ nodes[n].alloc[dim] =
              SumFunctionOnSet([w \in Workload |-> workloads[w].req[dim]], PlacedOn(n))
        /\ nodes[n].alloc[dim] <= nodes[n].cap[dim]

\* The score spreads: of two nodes of the same size, given workloads that all
\* ask for the same, none gets ahead of the other by more than one workload.
SpreadsEvenly ==
    (\A v, w \in Workload : workloads[v].req = workloads[w].req) =>
        \A m, n \in Node : nodes[m].cap = nodes[n].cap =>
            Cardinality(PlacedOn(m)) <= Cardinality(PlacedOn(n)) + 1
=============================================================================
