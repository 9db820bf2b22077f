----------------------------- MODULE NodeHealth ----------------------------
(***************************************************************************)
(* Heartbeats and the health checker, with time: the agent of every node   *)
(* registers and then sends a heartbeat at once and at every firing of its *)
(* ticker (internal/node/agent.go, cmd/node-agent); the control plane      *)
(* records the time of arrival; the checker (internal/node/health.go)      *)
(* lists the nodes at every firing of its own ticker, judges the listing   *)
(* and marks the late ones UNHEALTHY, one transaction after the other.     *)
(*                                                                         *)
(* Time is discrete.  Instead of a clock and time stamps the model keeps   *)
(* how long ago things happened: Tick is one unit of time.  A Go ticker is *)
(* the time to its next firing and a channel that holds one firing; more   *)
(* are dropped.  The goroutines are prompt: no time passes while one has   *)
(* something to do that takes no time.                                     *)
(*                                                                         *)
(* What takes time: an exchange of heartbeat and answer takes at most      *)
(* Latency, or else is stuck and ends with an error by SendTimeout, the    *)
(* timeout of the agent's HTTP client; a check takes at most CheckLatency. *)
(***************************************************************************)
EXTENDS Integers

CONSTANTS
    Node,
    HeartbeatEvery, \* the agent's ticker: 5 s
    SendTimeout,    \* the agent's HTTP client: 10 s
    CheckEvery,     \* the checker's ticker: 5 s
    Timeout,        \* the checker's heartbeat timeout: 15 s
    Latency,        \* an exchange that is not stuck
    CheckLatency,   \* a check, from its listing to its last write
    MaxFaults,      \* bound: what goes wrong with agents and the network
    MaxFailures,    \* bound: what goes wrong with checks
    Horizon         \* ages beyond this one are not told apart

\* The order of magnitude of the code's numbers: an exchange may outlast the
\* heartbeat interval, a check does not outlast its own.
ASSUME TimesAssumption ==
    /\ HeartbeatEvery \in Nat \ {0} /\ CheckEvery \in Nat \ {0}
    /\ SendTimeout \in Nat /\ Timeout \in Nat /\ Latency \in Nat /\ CheckLatency \in Nat
    /\ HeartbeatEvery <= SendTimeout /\ Latency <= SendTimeout
    /\ CheckLatency < CheckEvery

\* The slack between the two timeouts, 5 s in the code, is what an exchange
\* and a check may take together.
ASSUME SlackAssumption == SendTimeout + Latency + CheckLatency <= Timeout

ASSUME BoundsAssumption ==
    /\ MaxFaults \in Nat /\ MaxFailures \in Nat /\ Horizon \in Nat
    /\ Horizon > Timeout + CheckEvery * (1 + MaxFailures) + CheckLatency

VARIABLES
    rows,       \* status of each node and age of its last_heartbeat
    up,         \* the nodes whose agent runs its heartbeat loop
    ticker, fired,      \* the ticker of each agent
    exchange,   \* of each agent: none, sent, or delivered and not answered
    elapsed,    \* how long that exchange has taken
    stuck,      \* the agents whose exchange is stuck
    orphans,    \* the nodes with a heartbeat under way from a dead agent
    checking,   \* where the checker is: idle, listed or marking
    checkTicker, checkFired,
    seen,       \* its listing
    verdict,    \* the nodes it has yet to mark
    missed,     \* history: nodes with a heartbeat stuck since the last one arrived
    excused,    \* history: nodes that were missed or down at the listing
    faults, failures

agents == <<up, ticker, fired, exchange, elapsed, stuck, orphans, missed>>

checker == <<checking, checkTicker, checkFired, seen, verdict, excused, failures>>

vars == <<rows, agents, checker, faults>>

Row == [status : {"ABSENT", "READY", "UNHEALTHY"}, age : 0..Horizon]

TypeOK ==
    /\ rows \in [Node -> Row]
    /\ up \in SUBSET Node
    /\ ticker \in [Node -> 1..HeartbeatEvery]
    /\ fired \in SUBSET Node
    /\ exchange \in [Node -> {"none", "sent", "delivered"}]
    /\ elapsed \in [Node -> 0..SendTimeout]
    /\ stuck \in SUBSET Node
    /\ orphans \in SUBSET Node
    /\ checking \in {"idle", "listed", "marking"}
    /\ checkTicker \in 1..CheckEvery
    /\ checkFired \in BOOLEAN
    /\ seen \in [Node -> Row]
    /\ verdict \in SUBSET Node
    /\ missed \in SUBSET Node
    /\ excused \in SUBSET Node
    /\ faults \in 0..MaxFaults
    /\ failures \in 0..MaxFailures

AbsentRow == [status |-> "ABSENT", age |-> 0]

Init ==
    /\ rows = [n \in Node |-> AbsentRow]
    /\ up = {} /\ fired = {} /\ stuck = {} /\ orphans = {} /\ missed = {}
    /\ ticker = [n \in Node |-> HeartbeatEvery]
    /\ exchange = [n \in Node |-> "none"]
    /\ elapsed = [n \in Node |-> 0]
    /\ checking = "idle"
    /\ checkTicker = CheckEvery /\ checkFired = TRUE
    /\ seen = [n \in Node |-> AbsentRow]
    /\ verdict = {} /\ excused = {}
    /\ faults = 0 /\ failures = 0

Fault == faults < MaxFaults /\ faults' = faults + 1

Failure == failures < MaxFailures /\ failures' = failures + 1

-----------------------------------------------------------------------------
(* The transactions on a row, and the handlers that run them.              *)

RegisterNode(n) == rows' = [rows EXCEPT ![n] = [status |-> "READY", age |-> 0]]

\* Mutant of UpdateHeartbeat: only the time is written.
UpdateHeartbeatTime(n) == rows' = [rows EXCEPT ![n].age = 0]

\* The row is there: an agent registers before its first heartbeat.
UpdateHeartbeat(n) == rows' = [rows EXCEPT ![n] = [status |-> "READY", age |-> 0]]

\* The WHERE clause names the node only, not the heartbeat that was judged.
SetNodeStatus(n, status) == rows' = [rows EXCEPT ![n].status = status]

-----------------------------------------------------------------------------
(* The agent.                                                              *)

\* main: Register, then RunHeartbeatLoop, whose first heartbeat is at once.
Start(n) ==
    /\ n \notin up
    /\ RegisterNode(n)
    /\ up' = up \cup {n}
    /\ ticker' = [ticker EXCEPT ![n] = HeartbeatEvery]
    /\ fired' = fired \cup {n}
    /\ missed' = missed \ {n}
    /\ UNCHANGED <<exchange, elapsed, stuck, orphans, checker, faults>>

\* The answer to Register is lost: the row is there, the agent exits.
StartFails(n) ==
    /\ n \notin up
    /\ RegisterNode(n)
    /\ Fault
    /\ UNCHANGED <<agents, checker>>

\* RunHeartbeatLoop calls Heartbeat.
Send(n) ==
    /\ n \in up /\ n \in fired /\ exchange[n] = "none"
    /\ exchange' = [exchange EXCEPT ![n] = "sent"]
    /\ elapsed' = [elapsed EXCEPT ![n] = 0]
    /\ fired' = fired \ {n}
    /\ UNCHANGED <<rows, up, ticker, stuck, orphans, missed, checker, faults>>

\* The handler of the control plane.
Deliver(n) ==
    /\ exchange[n] = "sent"
    /\ UpdateHeartbeat(n)
    /\ exchange' = [exchange EXCEPT ![n] = "delivered"]
    /\ missed' = missed \ {n}
    /\ UNCHANGED <<up, ticker, fired, elapsed, stuck, orphans, checker, faults>>

\* The end of Heartbeat: the loop goes back to its ticker.
Return(n) ==
    /\ exchange' = [exchange EXCEPT ![n] = "none"]
    /\ elapsed' = [elapsed EXCEPT ![n] = 0]
    /\ stuck' = stuck \ {n}
    /\ UNCHANGED <<rows, up, ticker, fired, orphans, missed, checker, faults>>

Answer(n) == exchange[n] = "delivered" /\ n \notin stuck /\ Return(n)

\* The request, or the answer, gets stuck or lost.
GetStuck(n) ==
    /\ exchange[n] # "none" /\ n \notin stuck
    /\ stuck' = stuck \cup {n}
    /\ missed' = IF exchange[n] = "sent" THEN missed \cup {n} ELSE missed
    /\ Fault
    /\ UNCHANGED <<rows, up, ticker, fired, exchange, elapsed, orphans, checker>>

\* Heartbeat returns an error, which is only logged: the connection broke, or
\* the client's timeout ended the wait.
GiveUp(n) == exchange[n] # "none" /\ n \in stuck /\ Return(n)

\* The agent dies; its last heartbeat may still be on its way.
Die(n) ==
    /\ n \in up
    /\ up' = up \ {n}
    /\ fired' = fired \ {n}
    /\ orphans' = IF exchange[n] = "sent" THEN orphans \cup {n} ELSE orphans
    /\ exchange' = [exchange EXCEPT ![n] = "none"]
    /\ elapsed' = [elapsed EXCEPT ![n] = 0]
    /\ stuck' = stuck \ {n}
    /\ Fault
    /\ UNCHANGED <<rows, ticker, missed, checker>>

\* The heartbeat of an agent that is gone arrives, or gets lost.
OrphanArrives(n) ==
    /\ n \in orphans
    /\ UpdateHeartbeat(n)
    /\ orphans' = orphans \ {n}
    /\ UNCHANGED <<up, ticker, fired, exchange, elapsed, stuck, missed, checker, faults>>

OrphanLost(n) ==
    /\ n \in orphans
    /\ orphans' = orphans \ {n}
    /\ UNCHANGED <<rows, up, ticker, fired, exchange, elapsed, stuck, missed, checker, faults>>

-----------------------------------------------------------------------------
(* The checker.                                                            *)

\* check begins: ListNodes.
ListNodes ==
    /\ checking = "idle" /\ checkFired
    /\ checking' = "listed"
    /\ checkFired' = FALSE
    /\ seen' = rows
    /\ excused' = {n \in Node : n \notin up \/ n \in missed}
    /\ UNCHANGED <<rows, agents, checkTicker, verdict, failures, faults>>

ListFails ==
    /\ checking = "idle" /\ checkFired
    /\ checkFired' = FALSE
    /\ Failure
    /\ UNCHANGED <<rows, agents, checking, checkTicker, seen, verdict, excused, faults>>

\* Mutants of Late: a heartbeat is late when it is just due; the status is
\* looked at the wrong way round.
LateWhenDue(row) == row.status = "READY" /\ row.age >= Timeout

LateIfMarked(row) == row.status = "UNHEALTHY" /\ row.age > Timeout

\* What check does something about.  No row has the zero time.
Late(row) == row.status = "READY" /\ row.age > Timeout

\* now := time.Now(), and the loop with the conditions of its body.
Judge ==
    /\ checking = "listed"
    /\ checking' = "marking"
    /\ verdict' = {n \in Node : Late(seen[n])}
    /\ UNCHANGED <<rows, agents, checkTicker, checkFired, seen, excused, failures, faults>>

Mark(n) ==
    /\ checking = "marking" /\ n \in verdict
    /\ SetNodeStatus(n, "UNHEALTHY")
    /\ verdict' = verdict \ {n}
    /\ UNCHANGED <<agents, checking, checkTicker, checkFired, seen, excused, failures, faults>>

\* SetNodeStatus fails, which is only logged.
MarkFails(n) ==
    /\ checking = "marking" /\ n \in verdict
    /\ verdict' = verdict \ {n}
    /\ Failure
    /\ UNCHANGED <<rows, agents, checking, checkTicker, checkFired, seen, excused, faults>>

CheckDone ==
    /\ checking = "marking" /\ verdict = {}
    /\ checking' = "idle"
    /\ UNCHANGED <<rows, agents, checkTicker, checkFired, seen, verdict, excused, failures, faults>>

\* The control plane restarts: Run checks at once.
Restart ==
    /\ checking' = "idle"
    /\ checkTicker' = CheckEvery /\ checkFired' = TRUE
    /\ verdict' = {}
    /\ Failure
    /\ UNCHANGED <<rows, agents, seen, excused, faults>>

-----------------------------------------------------------------------------
(* Time.                                                                   *)

Older(age) == IF age < Horizon THEN age + 1 ELSE age

Aged(table) == [n \in Node |-> [table[n] EXCEPT !.age = Older(@)]]

\* Mutant of AgentMayWait: the agent's HTTP client has no timeout.
AgentMayWaitForever(n) ==
    IF exchange[n] = "none"
    THEN ~(n \in up /\ n \in fired)
    ELSE n \in stuck \/ elapsed[n] < Latency

\* What may still go on for a unit of time.
AgentMayWait(n) ==
    IF exchange[n] = "none"
    THEN ~(n \in up /\ n \in fired)
    ELSE elapsed[n] < IF n \in stuck THEN SendTimeout ELSE Latency

CheckerMayWait ==
    IF checking = "idle" THEN ~checkFired ELSE CheckEvery - checkTicker < CheckLatency

\* The ages of the listing grow until it is judged: the code reads the clock
\* after the listing.
Tick ==
    /\ \A n \in Node : AgentMayWait(n)
    /\ CheckerMayWait
    /\ rows' = Aged(rows)
    /\ seen' = IF checking = "listed" THEN Aged(seen) ELSE seen
    /\ ticker' = [n \in Node |-> IF ticker[n] = 1 THEN HeartbeatEvery ELSE ticker[n] - 1]
    /\ fired' = fired \cup {n \in up : ticker[n] = 1}
    /\ elapsed' = [n \in Node |-> IF exchange[n] = "none" THEN 0 ELSE elapsed[n] + 1]
    /\ checkTicker' = IF checkTicker = 1 THEN CheckEvery ELSE checkTicker - 1
    /\ checkFired' = (checkFired \/ checkTicker = 1)
    /\ UNCHANGED <<up, exchange, stuck, orphans, missed, checking, verdict, excused,
                   faults, failures>>

AgentStep(n) == Start(n) \/ Send(n) \/ Deliver(n) \/ Answer(n) \/ GiveUp(n)

CheckStep == ListNodes \/ Judge \/ CheckDone \/ \E n \in Node : Mark(n)

FaultStep ==
    \/ \E n \in Node : \/ StartFails(n) \/ GetStuck(n) \/ Die(n)
                       \/ OrphanArrives(n) \/ OrphanLost(n)
                       \/ MarkFails(n)
    \/ ListFails
    \/ Restart

Next == Tick \/ CheckStep \/ FaultStep \/ \E n \in Node : AgentStep(n)

Spec == Init /\ [][Next]_vars

\* Time passes; the goroutines of the agents that run and of the checker go
\* on; nothing starts a dead agent again.
Fairness ==
    /\ WF_vars(Tick)
    /\ WF_vars(CheckStep)
    /\ \A n \in Node : WF_vars(Send(n) \/ Deliver(n) \/ Answer(n) \/ GiveUp(n))

FairSpec == Spec /\ Fairness

-----------------------------------------------------------------------------
(* Properties.                                                             *)

\* The checker condemns a node only if, when it was listed, its agent was down
\* or one of its heartbeats had got stuck: slow exchanges, dropped firings of
\* the agent's ticker and the time between listing and judging never add up
\* to the timeout on their own.
NoFalseVerdict == verdict \subseteq excused

\* A node whose heartbeats have stopped does not stay READY: the age of the
\* last one never exceeds the timeout by more than one round of the checker,
\* one more for every failed check, and the time a check takes.
DetectedInTime ==
    \A n \in Node : rows[n].status = "READY" =>
        rows[n].age <= Timeout + CheckEvery * (1 + failures) + CheckLatency

\* A node whose agent runs for good ends up READY for good, also after a
\* verdict that was overtaken by a heartbeat before it was written.
SettlesReady ==
    \A n \in Node : <>[](n \in up) => <>[](rows[n].status = "READY")
=============================================================================
