------------------------------ MODULE Executor -----------------------------
(***************************************************************************)
(* One workload and the node it is placed on, call by call: what           *)
(* Reconciler takes as one step (the remote calls for a workload with the  *)
(* transaction that records their outcome) is here the exchanges of        *)
(* WorkloadExecutor and RuntimeReconciler (internal/reconciler) with the   *)
(* agent's container API through node.Client (internal/node), and the      *)
(* engine behind it (internal/runtime).                                    *)
(*                                                                         *)
(* A cycle of the loop: idle -> listed -> execute -> idle, where the       *)
(* runtime reconciler may stop the container on the way                    *)
(*     listed -> runtimeStopping -> recordActual -> execute                *)
(* and the executor launches or stops the workload                         *)
(*     execute -> creating -> starting -> recordRunning | recordFailed     *)
(*     execute -> [stopping -> deleting ->] recordStopped                  *)
(*                                                                         *)
(* A call that times out is given up by the client, not by the agent: the  *)
(* request may take effect at any later time, more than once, or never.    *)
(* Requests name a container by its id, and an engine gives no id twice:   *)
(* the model keeps who holds the id of the container that is there         *)
(* (refers) and forgets the requests for one that is not there any more.   *)
(* Only a late request to create, which carries the name, survives it.     *)
(***************************************************************************)
EXTENDS Naturals

CONSTANT MaxFaults      \* bound: how many things go wrong

ASSUME MaxFaultsAssumption == MaxFaults \in Nat

VARIABLES
    row,        \* the workload: desired, actual, and whether it has a container id
    container,  \* the container of the workload's name
    refers,     \* who has its id: the row, the executor
    pc,
    call,       \* the call under way: none, sent, answered ok or error, lost
    late,       \* requests that were given up and may still take effect
    listed,     \* the row's container in ListContainers
    before,     \* history: row, container and refers when the operation began
    course,     \* history: how the operation went
    faults

vars == <<row, container, refers, pc, call, late, listed, before, course, faults>>

ContainerStatus == {"none", "created", "running", "exited"}

Request == {"create", "start", "stop", "delete"}

Calling == {"creating", "starting", "stopping", "deleting", "runtimeStopping"}

Recording == {"recordRunning", "recordFailed", "recordStopped", "recordActual"}

Row == [desired : {"SCHEDULED", "STOPPED"},
        actual : {"PENDING", "SCHEDULED", "RUNNING", "FAILED", "STOPPED"},
        id : BOOLEAN]

TypeOK ==
    /\ row \in Row
    /\ container \in ContainerStatus
    /\ refers \in SUBSET {"row", "executor"}
    /\ pc \in {"idle", "listed", "execute"} \cup Calling \cup Recording
    /\ call \in {"none", "sent", "ok", "error", "lost"}
    /\ late \in SUBSET Request
    /\ listed \in ContainerStatus
    /\ before \in [row : Row, container : ContainerStatus, refers : SUBSET {"row", "executor"}]
    /\ course \in {"smooth", "failed", "touched"}
    /\ faults \in 0..MaxFaults
    /\ call # "none" <=> pc \in Calling

Unfinished == {"PENDING", "SCHEDULED", "RUNNING"}
Finished == {"FAILED", "STOPPED"}

\* A workload as ReserveNodeForWorkload leaves it.
PlacedRow == [desired |-> "SCHEDULED", actual |-> "PENDING", id |-> FALSE]

Init ==
    /\ row = PlacedRow
    /\ container = "none" /\ refers = {}
    /\ pc = "idle" /\ call = "none" /\ late = {} /\ listed = "none"
    /\ before = [row |-> PlacedRow, container |-> "none", refers |-> {}]
    /\ course = "smooth"
    /\ faults = 0

Fault == faults < MaxFaults /\ faults' = faults + 1

\* Something in the course of the operation fails.
GoesWrong == course' = IF course = "smooth" THEN "failed" ELSE course

\* The container changes by something else than the call under way.
Touched == course' = "touched"

-----------------------------------------------------------------------------
(* The engine.                                                             *)

StoppedContainer(status) == IF status = "running" THEN "exited" ELSE status

\* The container goes, and its id with it.
Removed ==
    /\ container' = "none"
    /\ refers' = {}
    /\ late' = late \cap {"create"}

ContainerExits ==
    /\ container = "running"
    /\ container' = "exited"
    /\ Fault /\ Touched
    /\ UNCHANGED <<row, refers, pc, call, late, listed, before>>

ContainerRemoved ==
    /\ container # "none"
    /\ Removed
    /\ Fault /\ Touched
    /\ UNCHANGED <<row, pc, call, listed, before>>

\* What a request that was given up does when it takes effect after all.
LateCreate ==
    /\ "create" \in late /\ container = "none"
    /\ container' = "created"
    /\ late' \in {late, late \ {"create"}}
    /\ Touched
    /\ UNCHANGED <<row, refers, pc, call, listed, before, faults>>

LateStart ==
    /\ "start" \in late /\ container # "running"
    /\ container' = "running"
    /\ late' \in {late, late \ {"start"}}
    /\ Touched
    /\ UNCHANGED <<row, refers, pc, call, listed, before, faults>>

LateStop ==
    /\ "stop" \in late /\ container = "running"
    /\ container' = "exited"
    /\ late' \in {late, late \ {"stop"}}
    /\ Touched
    /\ UNCHANGED <<row, refers, pc, call, listed, before, faults>>

LateDelete ==
    /\ "delete" \in late
    /\ Removed
    /\ Touched
    /\ UNCHANGED <<row, pc, call, listed, before, faults>>

-----------------------------------------------------------------------------
(* The agent's handlers: the engine's operation, then the answer.          *)

Handling(p) == pc = p /\ call = "sent"

Answers(answer) ==
    /\ call' = answer
    /\ UNCHANGED <<row, pc, listed, before, course, faults>>

\* A name in use is a conflict.
CreateContainer ==
    /\ Handling("creating")
    /\ IF container = "none"
       THEN container' = "created" /\ refers' = {"executor"} /\ Answers("ok")
       ELSE UNCHANGED <<container, refers>> /\ Answers("error")
    /\ UNCHANGED late

\* A container that runs already is started.
StartContainer ==
    /\ Handling("starting")
    /\ IF "executor" \in refers
       THEN container' = "running" /\ Answers("ok")
       ELSE UNCHANGED container /\ Answers("error")
    /\ UNCHANGED <<refers, late>>

\* ErrContainerNotFound is no error to a stop or a removal.
StopContainer ==
    /\ Handling("stopping") \/ Handling("runtimeStopping")
    /\ container' = IF "row" \in refers THEN StoppedContainer(container) ELSE container
    /\ Answers("ok")
    /\ UNCHANGED <<refers, late>>

RemoveContainer ==
    /\ Handling("deleting")
    /\ IF "row" \in refers THEN Removed ELSE UNCHANGED <<container, refers, late>>
    /\ Answers("ok")

\* The image cannot be pulled, or the engine refuses.
RuntimeFails ==
    /\ call = "sent"
    /\ call' = "error"
    /\ Fault /\ GoesWrong
    /\ UNCHANGED <<row, container, refers, pc, late, listed, before>>

-----------------------------------------------------------------------------
(* The network, and the client's timeout.                                  *)

request ==
    CASE pc = "creating" -> "create"
      [] pc = "starting" -> "start"
      [] pc = "deleting" -> "delete"
      [] OTHER -> "stop"

\* Whether the request under way can still have an effect.
Reaches ==
    /\ call = "sent"
    /\ \/ pc = "creating"
       \/ pc = "starting" /\ "executor" \in refers
       \/ pc \notin {"creating", "starting"} /\ "row" \in refers

GivenUp == IF Reaches THEN late \cup {request} ELSE late

\* A request, or its answer, does not arrive: the client has no id from it.
Lost ==
    /\ call \in {"sent", "ok", "error"}
    /\ call' = "lost"
    /\ late' = GivenUp
    /\ refers' = refers \ {"executor"}
    /\ Fault /\ GoesWrong
    /\ UNCHANGED <<row, container, pc, listed, before>>

\* A container that uses up the engine's grace period, 10 s, outlasts the
\* client's timeout, 10 s; the engine kills it in the end.
Outlasts ==
    /\ request = "stop" /\ call = "sent" /\ "row" \in refers /\ container = "running"
    /\ call' = "lost"
    /\ late' = late \cup {"stop"}
    /\ GoesWrong
    /\ UNCHANGED <<row, container, refers, pc, listed, before, faults>>

-----------------------------------------------------------------------------
(* The cycle: the runtime reconciler's part.                               *)

\* Mutant of containerState: a container that has exited has no state.
containerStateOrNone(status) ==
    CASE status = "running" -> "RUNNING"
      [] status = "created" -> "SCHEDULED"
      [] OTHER -> "UNKNOWN"

containerState(status) ==
    CASE status = "running" -> "RUNNING"
      [] status = "created" -> "SCHEDULED"
      [] OTHER -> "FAILED"

\* RuntimeReconciler.ReconcileNode: ListContainers, and which of them is the
\* row's.  Without a listing the cycle goes on with the services.
ListContainers ==
    /\ pc = "idle"
    /\ \/ /\ pc' = "listed"
          /\ listed' = IF "row" \in refers THEN container ELSE "none"
          /\ UNCHANGED faults
       \/ /\ pc' = "execute"
          /\ Fault
          /\ UNCHANGED listed
    /\ UNCHANGED <<row, container, refers, call, late, before, course>>

StopRequested == row.desired = "STOPPED" /\ row.actual # "STOPPED"

Begin(p) ==
    /\ pc' = p
    /\ call' = IF p \in Calling THEN "sent" ELSE "none"
    /\ before' = [row |-> row, container |-> container, refers |-> refers]
    /\ course' = "smooth"
    /\ UNCHANGED <<row, container, refers, late, faults>>

StopListed ==
    /\ pc = "listed" /\ listed # "none" /\ StopRequested
    /\ Begin("runtimeStopping")
    /\ listed' = "none"

\* Mutant of SyncedState: a container that is listed counts as missing too.
SyncedUnlisted ==
    IF row.id /\ row.actual \in {"RUNNING", "SCHEDULED"} THEN "FAILED" ELSE row.actual

\* The state of the row after the listing, for a container that is there and
\* for one that is missing.
SyncedState ==
    IF listed # "none"
    THEN containerState(listed)
    ELSE IF row.id /\ row.actual \in {"RUNNING", "SCHEDULED"} THEN "FAILED" ELSE row.actual

Sync ==
    /\ pc = "listed" /\ ~(listed # "none" /\ StopRequested)
    /\ \/ row' = [row EXCEPT !.actual = SyncedState] /\ UNCHANGED faults
       \/ SyncedState # row.actual /\ Fault /\ UNCHANGED row
    /\ pc' = "execute"
    /\ listed' = "none"
    /\ UNCHANGED <<container, refers, call, late, before, course>>

\* The node was lost and RecoverWorkloadsFromNode took the workload away; it
\* is placed here once more.
Recovered ==
    /\ pc = "idle" /\ row.actual \in Unfinished
    /\ row' = PlacedRow
    /\ refers' = refers \ {"row"}
    /\ Fault
    /\ UNCHANGED <<container, pc, call, late, listed, before, course>>

-----------------------------------------------------------------------------
(* The cycle: the executor's part.                                         *)

\* A controller asks for the workload to stop.
UpdateWorkloadDesiredState ==
    /\ pc = "execute" /\ row.actual \in Unfinished
    /\ row' = [row EXCEPT !.desired = "STOPPED"]
    /\ UNCHANGED <<container, refers, pc, call, late, listed, before, course, faults>>

\* Mutant of NeedsExecution: stops are left to the runtime reconciler.
NeedsLaunchOnly == row.desired = "SCHEDULED" /\ row.actual \in {"PENDING", "SCHEDULED"}

NeedsExecution ==
    \/ StopRequested
    \/ row.desired = "SCHEDULED" /\ row.actual \in {"PENDING", "SCHEDULED"}

Execute ==
    /\ pc = "execute" /\ NeedsExecution /\ row.desired = "SCHEDULED"
    /\ Begin("creating")
    /\ UNCHANGED listed

\* "Pending workloads don't have a container."
Stop ==
    /\ pc = "execute" /\ NeedsExecution /\ row.desired = "STOPPED"
    /\ Begin(IF row.id THEN "stopping" ELSE "recordStopped")
    /\ UNCHANGED listed

\* Nothing to do; or executeScheduledWorkloads is not called, which happens
\* only where no workload of the service is pending, or fails to list.
NotExecuted ==
    /\ pc = "execute"
    /\ \/ (~NeedsExecution \/ row.actual # "PENDING") /\ UNCHANGED faults
       \/ Fault
    /\ pc' = "idle"
    /\ UNCHANGED <<row, container, refers, call, late, listed, before, course>>

\* What follows a call that was answered as it should.
NextPhase ==
    CASE pc = "creating" -> "starting"
      [] pc = "starting" -> "recordRunning"
      [] pc = "stopping" -> "deleting"
      [] pc = "deleting" -> "recordStopped"
      [] OTHER -> "recordActual"

Answered ==
    /\ call = "ok"
    /\ pc' = NextPhase
    /\ call' = IF NextPhase \in Calling THEN "sent" ELSE "none"
    /\ UNCHANGED <<row, container, refers, late, listed, before, course, faults>>

\* Where the goroutine is after an operation.
AfterOperation == IF pc \in {"runtimeStopping", "recordActual"} THEN "execute" ELSE "idle"

\* Only a start that fails is recorded; any other failure ends the operation.
Failed ==
    /\ pc' = IF pc = "starting" THEN "recordFailed" ELSE AfterOperation
    /\ call' = "none"
    /\ refers' = refers \ {"executor"}
    /\ UNCHANGED <<row, container, late, listed, before, course, faults>>

Refused == call = "error" /\ Failed

\* Mutant of TimesOut: the client has no timeout.
NeverTimesOut == call = "lost" /\ UNCHANGED vars

TimesOut == call = "lost" /\ Failed

\* The transaction that records the outcome.
Records(p, new) ==
    /\ pc = p
    /\ row' = new
    /\ pc' = AfterOperation
    /\ UNCHANGED <<container, call, late, listed, before, course, faults>>

\* Mutant of MarkWorkloadRunning: the state only.
MarkRunningOnly ==
    /\ Records("recordRunning", [row EXCEPT !.actual = "RUNNING"])
    /\ refers' = {}

MarkWorkloadRunning ==
    /\ Records("recordRunning", [row EXCEPT !.actual = "RUNNING", !.id = TRUE])
    /\ refers' = IF "executor" \in refers THEN {"row"} ELSE {}

MarkWorkloadFailed ==
    /\ Records("recordFailed", [row EXCEPT !.actual = "FAILED"])
    /\ UNCHANGED refers

MarkWorkloadStopped ==
    /\ Records("recordStopped", [row EXCEPT !.actual = "STOPPED"])
    /\ UNCHANGED refers

UpdateWorkloadActualState ==
    /\ Records("recordActual", [row EXCEPT !.actual = "STOPPED"])
    /\ UNCHANGED refers

RecordFails ==
    /\ pc \in Recording
    /\ pc' = AfterOperation
    /\ refers' = refers \ {"executor"}
    /\ Fault /\ GoesWrong
    /\ UNCHANGED <<row, container, call, late, listed, before>>

\* The control plane crashes and restarts; what it asked for is under way.
Crash ==
    /\ pc # "idle"
    /\ pc' = "idle" /\ call' = "none" /\ listed' = "none"
    /\ late' = GivenUp
    /\ refers' = refers \ {"executor"}
    /\ Fault /\ GoesWrong
    /\ UNCHANGED <<row, container, before>>

-----------------------------------------------------------------------------

Agent == CreateContainer \/ StartContainer \/ StopContainer \/ RemoveContainer

Loop ==
    \/ ListContainers \/ StopListed \/ Sync
    \/ Execute \/ Stop \/ NotExecuted
    \/ Answered \/ Refused \/ TimesOut
    \/ MarkWorkloadRunning \/ MarkWorkloadFailed \/ MarkWorkloadStopped
    \/ UpdateWorkloadActualState

Environment ==
    \/ UpdateWorkloadDesiredState \/ Recovered
    \/ ContainerExits \/ ContainerRemoved
    \/ LateCreate \/ LateStart \/ LateStop \/ LateDelete
    \/ RuntimeFails \/ Lost \/ Outlasts
    \/ RecordFails \/ Crash

Next == Agent \/ Loop \/ Environment

Spec == Init /\ [][Next]_vars

\* The loop runs on a ticker, the agents serve, the client has a timeout, and
\* an engine that is stopping a container kills it in the end.
FairSpec == Spec /\ WF_vars(Loop) /\ WF_vars(Agent) /\ WF_vars(LateStop)

-----------------------------------------------------------------------------
(* Properties.                                                             *)

\* A workload recorded as FAILED or STOPPED has no running container under
\* its id, and none will run: no start that the client gave up, in this launch
\* or in an earlier one, can still reach the container of a recorded id.
FinishedStaysDown ==
    row.actual \in Finished /\ "row" \in refers
        => container # "running" /\ "start" \notin late

\* The outcomes that Reconciler allows a launch, a stop by the executor and a
\* stop by the runtime reconciler, between before and the next state: when
\* nothing fails, and when something does.
Launched ==
    IF before.container = "none"
    THEN /\ row' = [before.row EXCEPT !.actual = "RUNNING", !.id = TRUE]
         /\ container' = "running" /\ "row" \in refers'
    ELSE row' = before.row /\ container' = before.container

LaunchFailed ==
    \/ row' = before.row /\ before.container # "none" /\ container' = before.container
    \/ row' = before.row /\ before.container = "none" /\ container' # "exited"
    \/ /\ row' = [before.row EXCEPT !.actual = "FAILED"]
       /\ before.container = "none" /\ container' \in {"created", "running"}

StopSucceeded ==
    /\ row' = [before.row EXCEPT !.actual = "STOPPED"]
    /\ container' = IF "row" \in before.refers THEN "none" ELSE before.container

StopFailed ==
    /\ row' = before.row
    /\ container' \in IF "row" \in before.refers
                      THEN {before.container, StoppedContainer(before.container), "none"}
                      ELSE {before.container}

RuntimeStopSucceeded ==
    /\ row' = [before.row EXCEPT !.actual = "STOPPED"]
    /\ container' = IF "row" \in before.refers THEN StoppedContainer(before.container)
                                               ELSE before.container

RuntimeStopFailed ==
    /\ row' = before.row
    /\ container' \in IF "row" \in before.refers
                      THEN {before.container, StoppedContainer(before.container)}
                      ELSE {before.container}

Launching == pc \in {"creating", "starting", "recordRunning", "recordFailed"}
Stopping == pc \in {"stopping", "deleting", "recordStopped"}
RuntimeStopping == pc \in {"runtimeStopping", "recordActual"}

\* An operation of several calls, whichever of them fails, times out or is cut
\* short by a crash, ends as one of the steps of Reconciler does, unless the
\* container was changed by something else meanwhile: the steps of Reconciler
\* are coarse, but they leave no outcome out.
OutcomesAreAtomic ==
    [][/\ pc \in Calling \cup Recording
       /\ pc' \notin Calling \cup Recording
       => \/ /\ course' = "smooth"
             /\ \/ Launching /\ Launched
                \/ Stopping /\ StopSucceeded
                \/ RuntimeStopping /\ RuntimeStopSucceeded
          \/ /\ course' = "failed"
             /\ \/ Launching /\ LaunchFailed
                \/ Stopping /\ StopFailed
                \/ RuntimeStopping /\ RuntimeStopFailed
          \/ course' = "touched"]_vars

\* A workload that is to stop is finished in the end, though calls fail, time
\* out and are repeated, unless its node is lost and it is taken from there.
StopCompletes ==
    row.desired = "STOPPED" ~> row.actual \in Finished \/ row.desired # "STOPPED"

\* A placed workload does not stay pending, unless a container that nobody
\* refers to has its name: what an earlier attempt left behind.
LaunchSettles ==
    <>[](row.actual # "PENDING" \/ (container # "none" /\ refers = {}))
=============================================================================
