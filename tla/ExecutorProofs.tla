--------------------------- MODULE ExecutorProofs --------------------------
(***************************************************************************)
(* The safety properties of Executor, for any number of faults.            *)
(*                                                                         *)
(* Why a finished workload stays down: the start that was given up names   *)
(* a container whose id nobody but the engine has any more; a container    *)
(* of the same workload can be created again only when that one is gone,   *)
(* and the late start with it.  So no start is late for a container that   *)
(* the row or the executor refers to (RefersOK).                           *)
(***************************************************************************)
EXTENDS Executor, TLAPS

InOperation == pc \in Calling \cup Recording

\* Who may refer to the container, and what is known of it then.
RefersOK ==
    /\ container = "none" => refers = {} /\ late \subseteq {"create"}
    /\ "row" \in refers => row.id /\ container # "created"
    /\ refers # {} => "start" \notin late
    /\ "executor" \in refers =>
          /\ pc \in {"creating", "starting", "recordRunning"}
          /\ "row" \notin refers
    /\ pc = "starting" /\ call = "ok" /\ "executor" \in refers => container # "created"
    /\ pc = "recordRunning" /\ "executor" \in refers => container # "created"

\* A row is pending until a launch is recorded.
RowOK ==
    /\ row.actual # "SCHEDULED"
    /\ row.actual = "PENDING" => ~row.id
    /\ Launching => row.actual = "PENDING"

\* A listing is out of date in one direction only.
ListedOK ==
    /\ listed # "created"
    /\ pc = "listed" /\ listed # "running" /\ "row" \in refers => container # "running"

\* What has been done before a stop is recorded.
StopOK ==
    /\ pc = "deleting" /\ call = "ok" => "row" \notin refers
    /\ pc = "recordStopped" => "row" \notin refers
    /\ \/ pc = "recordActual"
       \/ pc \in {"stopping", "runtimeStopping"} /\ call = "ok"
       => ("row" \in refers => container # "running")

SafetyInv == TypeOK /\ RefersOK /\ RowOK /\ ListedOK /\ StopOK /\ FinishedStaysDown

\* The container after the stop that an operation began with.
StoppedBefore ==
    IF "row" \in before.refers THEN StoppedContainer(before.container) ELSE before.container

DeletedBefore == IF "row" \in before.refers THEN "none" ELSE before.container

\* How far an operation has come, by the phase and the call it is in.
LaunchCourse ==
    /\ pc = "creating" =>
          \/ call # "ok" /\ container = before.container
          \/ /\ before.container = "none" /\ container = "created"
             /\ call \in {"ok", "lost"}
             /\ call = "ok" => "executor" \in refers
    /\ pc \in {"starting", "recordRunning", "recordFailed"} =>
          before.container = "none" /\ container \in {"created", "running"}
    /\ pc = "starting" /\ call = "sent" => "executor" \in refers
    /\ pc = "starting" /\ call = "ok" => "executor" \in refers /\ container = "running"
    /\ pc = "recordRunning" => "executor" \in refers /\ container = "running"

StopCourse ==
    /\ pc = "stopping" \/ pc = "runtimeStopping" =>
          /\ "row" \in refers <=> "row" \in before.refers
          /\ call = "sent" => container = before.container
          /\ call = "ok" => container = StoppedBefore
          /\ container \in {before.container, StoppedBefore}
    /\ pc = "deleting" =>
          /\ call = "sent" => ("row" \in refers <=> "row" \in before.refers)
          /\ call = "ok" => container = DeletedBefore
          /\ container \in {StoppedBefore, DeletedBefore}
    /\ pc = "recordStopped" => container = DeletedBefore
    /\ pc = "recordActual" => container = StoppedBefore

\* An operation that nothing has interfered with.
CourseOK ==
    InOperation /\ course # "touched" =>
        /\ row = before.row
        /\ course = "smooth" =>
              /\ call # "lost" /\ pc # "recordFailed"
              /\ call = "error" => pc = "creating" /\ before.container # "none"
        /\ course = "failed" => call \in {"error", "lost"} \/ pc = "recordFailed"
        /\ LaunchCourse
        /\ StopCourse

-----------------------------------------------------------------------------
(* Safety.                                                                 *)

LEMMA SafetyInit == Init => SafetyInv
BY MaxFaultsAssumption
DEF Init, SafetyInv, TypeOK, RefersOK, RowOK, ListedOK, StopOK, FinishedStaysDown,
    PlacedRow, Row, ContainerStatus, Request, Calling, Recording, Launching, Finished

LEMMA SafetyStep == SafetyInv /\ [Next]_vars => SafetyInv'
<1> SUFFICES ASSUME SafetyInv, [Next]_vars PROVE SafetyInv'
    OBVIOUS
<1> USE MaxFaultsAssumption
    DEF SafetyInv, TypeOK, RefersOK, RowOK, ListedOK, StopOK, FinishedStaysDown,
        Row, ContainerStatus, Request, Calling, Recording, Launching, Finished
<1>1. CASE CreateContainer
    BY <1>1 DEF CreateContainer, Handling, Answers
<1>2. CASE StartContainer
    BY <1>2 DEF StartContainer, Handling, Answers
<1>3. CASE StopContainer
    BY <1>3 DEF StopContainer, Handling, Answers, StoppedContainer
<1>4. CASE RemoveContainer
  <2>1. CASE "row" \in refers
    <3>1. container' = "none" /\ refers' = {} /\ late' = late \cap {"create"}
        BY <1>4, <2>1 DEF RemoveContainer, Removed
    <3>2. late' \in SUBSET Request /\ late' \subseteq {"create"}
        BY <3>1
    <3> QED
        BY <1>4, <3>1, <3>2 DEF RemoveContainer, Handling, Answers
  <2>2. CASE "row" \notin refers
    <3>1. /\ pc = "deleting" /\ call' = "ok"
          /\ UNCHANGED <<row, container, refers, pc, late, listed, before, course, faults>>
        BY <1>4, <2>2 DEF RemoveContainer, Handling, Answers
    <3> QED
        BY <2>2, <3>1
  <2> QED
      BY <2>1, <2>2
<1>5. CASE ListContainers
    BY <1>5 DEF ListContainers, Fault
<1>6. CASE StopListed
    BY <1>6 DEF StopListed, Begin, StopRequested
<1>7. CASE Sync
    BY <1>7 DEF Sync, SyncedState, containerState, StopRequested, Fault
<1>8. CASE Execute
    BY <1>8 DEF Execute, Begin, NeedsExecution, StopRequested
<1>9. CASE Stop
    BY <1>9 DEF Stop, Begin, NeedsExecution, StopRequested
<1>10. CASE NotExecuted
    BY <1>10 DEF NotExecuted, Fault
<1>11. CASE Answered
    BY <1>11 DEF Answered, NextPhase
<1>12. CASE Refused
    BY <1>12 DEF Refused, Failed, AfterOperation
<1>13. CASE TimesOut
    BY <1>13 DEF TimesOut, Failed, AfterOperation
<1>14. CASE MarkWorkloadRunning
  <2>1. /\ row' \in Row
        /\ row'.actual = "RUNNING" /\ row'.id = TRUE
      BY <1>14 DEF MarkWorkloadRunning, Records
  <2>2. /\ pc = "recordRunning" /\ pc' = "idle"
        /\ UNCHANGED <<container, call, late, listed, before, course, faults>>
      BY <1>14 DEF MarkWorkloadRunning, Records, AfterOperation
  <2>3. CASE "executor" \in refers
    <3>1. refers' = {"row"}
        BY <1>14, <2>3 DEF MarkWorkloadRunning
    <3> QED
        BY <2>1, <2>2, <2>3, <3>1
  <2>4. CASE "executor" \notin refers
    <3>1. refers' = {}
        BY <1>14, <2>4 DEF MarkWorkloadRunning
    <3> QED
        BY <2>1, <2>2, <3>1
  <2> QED
      BY <2>3, <2>4
<1>15. CASE MarkWorkloadFailed
    BY <1>15 DEF MarkWorkloadFailed, Records, AfterOperation
<1>16. CASE MarkWorkloadStopped
    BY <1>16 DEF MarkWorkloadStopped, Records, AfterOperation
<1>17. CASE UpdateWorkloadActualState
    BY <1>17 DEF UpdateWorkloadActualState, Records, AfterOperation
<1>18. CASE UpdateWorkloadDesiredState
    BY <1>18 DEF UpdateWorkloadDesiredState, Unfinished
<1>19. CASE Recovered
    BY <1>19 DEF Recovered, PlacedRow, Fault, Unfinished
<1>20. CASE ContainerExits
    BY <1>20 DEF ContainerExits, Fault, Touched
<1>21. CASE ContainerRemoved
    BY <1>21 DEF ContainerRemoved, Removed, Fault, Touched
<1>22. CASE LateCreate
    BY <1>22 DEF LateCreate, Touched
<1>23. CASE LateStart
    BY <1>23 DEF LateStart, Touched
<1>24. CASE LateStop
    BY <1>24 DEF LateStop, Touched
<1>25. CASE LateDelete
    BY <1>25 DEF LateDelete, Removed, Touched
<1>26. CASE RuntimeFails
    BY <1>26 DEF RuntimeFails, Fault, GoesWrong
<1>27. CASE Lost
    BY <1>27 DEF Lost, GivenUp, Reaches, request, Fault, GoesWrong
<1>28. CASE Outlasts
    BY <1>28 DEF Outlasts, request, GoesWrong
<1>29. CASE RecordFails
    BY <1>29 DEF RecordFails, AfterOperation, Fault, GoesWrong
<1>30. CASE Crash
    BY <1>30 DEF Crash, GivenUp, Reaches, request, Fault, GoesWrong
<1>31. CASE UNCHANGED vars
    BY <1>31 DEF vars
<1> QED
    BY <1>1, <1>2, <1>3, <1>4, <1>5, <1>6, <1>7, <1>8, <1>9, <1>10, <1>11, <1>12,
       <1>13, <1>14, <1>15, <1>16, <1>17, <1>18, <1>19, <1>20, <1>21, <1>22, <1>23,
       <1>24, <1>25, <1>26, <1>27, <1>28, <1>29, <1>30, <1>31 DEF Next, Agent, Loop,
       Environment

-----------------------------------------------------------------------------
(* The course of an operation.                                             *)

LEMMA CourseInit == Init => CourseOK
BY DEF Init, CourseOK, InOperation, Calling, Recording

LEMMA CourseStep == SafetyInv /\ CourseOK /\ [Next]_vars => CourseOK'
<1> SUFFICES ASSUME SafetyInv, CourseOK, [Next]_vars PROVE CourseOK'
    OBVIOUS
<1> USE DEF CourseOK, InOperation, LaunchCourse, StopCourse, StoppedBefore, DeletedBefore,
            StoppedContainer, SafetyInv, TypeOK, RefersOK, RowOK, StopOK,
            ContainerStatus, Calling, Recording, Launching
<1>1. CASE CreateContainer
    BY <1>1 DEF CreateContainer, Handling, Answers
<1>2. CASE StartContainer
    BY <1>2 DEF StartContainer, Handling, Answers
<1>3. CASE StopContainer
    BY <1>3 DEF StopContainer, Handling, Answers
<1>4. CASE RemoveContainer
    BY <1>4 DEF RemoveContainer, Handling, Answers, Removed
<1>5. CASE ListContainers
    BY <1>5 DEF ListContainers, Fault
<1>6. CASE StopListed
    BY <1>6 DEF StopListed, Begin, StopRequested
<1>7. CASE Sync
    BY <1>7 DEF Sync, SyncedState, containerState, StopRequested, Fault
<1>8. CASE Execute
    BY <1>8 DEF Execute, Begin, NeedsExecution, StopRequested
<1>9. CASE Stop
    BY <1>9 DEF Stop, Begin, NeedsExecution, StopRequested
<1>10. CASE NotExecuted
    BY <1>10 DEF NotExecuted, Fault
<1>11. CASE Answered
    BY <1>11 DEF Answered, NextPhase
<1>12. CASE Refused
    BY <1>12 DEF Refused, Failed, AfterOperation
<1>13. CASE TimesOut
    BY <1>13 DEF TimesOut, Failed, AfterOperation
<1>14. CASE MarkWorkloadRunning
    BY <1>14 DEF MarkWorkloadRunning, Records, AfterOperation
<1>15. CASE MarkWorkloadFailed
    BY <1>15 DEF MarkWorkloadFailed, Records, AfterOperation
<1>16. CASE MarkWorkloadStopped
    BY <1>16 DEF MarkWorkloadStopped, Records, AfterOperation
<1>17. CASE UpdateWorkloadActualState
    BY <1>17 DEF UpdateWorkloadActualState, Records, AfterOperation
<1>18. CASE UpdateWorkloadDesiredState
    BY <1>18 DEF UpdateWorkloadDesiredState, Unfinished
<1>19. CASE Recovered
    BY <1>19 DEF Recovered, PlacedRow, Fault, Unfinished
<1>20. CASE ContainerExits
    BY <1>20 DEF ContainerExits, Fault, Touched
<1>21. CASE ContainerRemoved
    BY <1>21 DEF ContainerRemoved, Removed, Fault, Touched
<1>22. CASE LateCreate
    BY <1>22 DEF LateCreate, Touched
<1>23. CASE LateStart
    BY <1>23 DEF LateStart, Touched
<1>24. CASE LateStop
    BY <1>24 DEF LateStop, Touched
<1>25. CASE LateDelete
    BY <1>25 DEF LateDelete, Removed, Touched
<1>26. CASE RuntimeFails
    BY <1>26 DEF RuntimeFails, Fault, GoesWrong
<1>27. CASE Lost
    BY <1>27 DEF Lost, GivenUp, Reaches, request, Fault, GoesWrong
<1>28. CASE Outlasts
    BY <1>28 DEF Outlasts, request, GoesWrong
<1>29. CASE RecordFails
    BY <1>29 DEF RecordFails, AfterOperation, Fault, GoesWrong
<1>30. CASE Crash
    BY <1>30 DEF Crash, GivenUp, Reaches, request, Fault, GoesWrong
<1>31. CASE UNCHANGED vars
    BY <1>31 DEF vars
<1> QED
    BY <1>1, <1>2, <1>3, <1>4, <1>5, <1>6, <1>7, <1>8, <1>9, <1>10, <1>11, <1>12,
       <1>13, <1>14, <1>15, <1>16, <1>17, <1>18, <1>19, <1>20, <1>21, <1>22, <1>23,
       <1>24, <1>25, <1>26, <1>27, <1>28, <1>29, <1>30, <1>31 DEF Next, Agent, Loop,
       Environment

-----------------------------------------------------------------------------
(* The outcome of an operation.                                            *)

\* The state an operation may end in, from the state it is in.
Outcome ==
    \/ /\ course' = "smooth"
       /\ \/ Launching /\ Launched
          \/ Stopping /\ StopSucceeded
          \/ RuntimeStopping /\ RuntimeStopSucceeded
    \/ /\ course' = "failed"
       /\ \/ Launching /\ LaunchFailed
          \/ Stopping /\ StopFailed
          \/ RuntimeStopping /\ RuntimeStopFailed
    \/ course' = "touched"

LEMMA OperationEnds ==
    ASSUME SafetyInv, CourseOK, [Next]_vars, InOperation, ~InOperation'
    PROVE  Outcome
<1> USE DEF Outcome, CourseOK, InOperation, LaunchCourse, StopCourse, StoppedBefore,
            DeletedBefore, StoppedContainer, SafetyInv, TypeOK, RefersOK,
            ContainerStatus, Calling, Recording,
            Launching, Stopping, RuntimeStopping, Launched, LaunchFailed, StopSucceeded,
            StopFailed, RuntimeStopSucceeded, RuntimeStopFailed
<1>1. CASE Refused
    BY <1>1 DEF Refused, Failed, AfterOperation
<1>2. CASE TimesOut
    BY <1>2 DEF TimesOut, Failed, AfterOperation
<1>3. CASE MarkWorkloadRunning
    BY <1>3 DEF MarkWorkloadRunning, Records, AfterOperation
<1>4. CASE MarkWorkloadFailed
    BY <1>4 DEF MarkWorkloadFailed, Records, AfterOperation
<1>5. CASE MarkWorkloadStopped
    BY <1>5 DEF MarkWorkloadStopped, Records, AfterOperation
<1>6. CASE UpdateWorkloadActualState
    BY <1>6 DEF UpdateWorkloadActualState, Records, AfterOperation
<1>7. CASE RecordFails
    BY <1>7 DEF RecordFails, AfterOperation, Fault, GoesWrong
<1>8. CASE Crash
    BY <1>8 DEF Crash, GivenUp, Reaches, request, Fault, GoesWrong
\* No other step ends an operation.
<1>9. CASE UNCHANGED vars
    BY <1>9 DEF vars
<1>10. CASE Agent
    BY <1>10 DEF Agent, CreateContainer, StartContainer, StopContainer, RemoveContainer, Answers
<1>11. CASE \/ ListContainers \/ StopListed \/ Sync \/ Execute \/ Stop \/ NotExecuted
            \/ UpdateWorkloadDesiredState \/ Recovered
    BY <1>11 DEF ListContainers, StopListed, Sync, Execute, Stop, NotExecuted,
                 UpdateWorkloadDesiredState, Recovered
<1>12. CASE Answered
    BY <1>12 DEF Answered, NextPhase
<1>13. CASE \/ ContainerExits \/ ContainerRemoved
            \/ LateCreate \/ LateStart \/ LateStop \/ LateDelete
            \/ RuntimeFails \/ Lost \/ Outlasts
    BY <1>13 DEF ContainerExits, ContainerRemoved, LateCreate, LateStart, LateStop,
                 LateDelete, RuntimeFails, Lost, Outlasts
<1> QED
    BY <1>1, <1>2, <1>3, <1>4, <1>5, <1>6, <1>7, <1>8, <1>9, <1>10, <1>11, <1>12, <1>13
       DEF Next, Loop, Environment

-----------------------------------------------------------------------------

LEMMA SafetyInvariance == Spec => [](SafetyInv /\ CourseOK)
<1>1. Init => SafetyInv /\ CourseOK
    BY SafetyInit, CourseInit
<1>2. SafetyInv /\ CourseOK /\ [Next]_vars => (SafetyInv /\ CourseOK)'
    BY SafetyStep, CourseStep
<1> QED
    BY <1>1, <1>2, PTL DEF Spec

\* The executor, the agent and the engine stay within their states, and a call
\* is under way exactly in the phases that wait for one.
THEOREM TypeCorrect == Spec => []TypeOK
<1>1. SafetyInv => TypeOK
    BY DEF SafetyInv
<1> QED
    BY <1>1, SafetyInvariance, PTL

\* However many calls are lost, time out, take effect late or are repeated, a
\* workload recorded as finished has no running container and gets none.
THEOREM FinishedStays == Spec => []FinishedStaysDown
<1>1. SafetyInv => FinishedStaysDown
    BY DEF SafetyInv
<1> QED
    BY <1>1, SafetyInvariance, PTL

\* Every launch and every stop of the executor and of the runtime reconciler
\* ends as a step of Reconciler does, wherever it fails or is cut short.
THEOREM Atomicity == Spec => OutcomesAreAtomic
<1>1. SafetyInv /\ CourseOK /\ [Next]_vars =>
        [/\ pc \in Calling \cup Recording
         /\ pc' \notin Calling \cup Recording
         => Outcome]_vars
    BY OperationEnds DEF InOperation, Calling, Recording
<1> QED
    BY <1>1, SafetyInvariance, PTL DEF Spec, OutcomesAreAtomic, Outcome
=============================================================================
