-------------------------- MODULE NodeHealthProofs -------------------------
(***************************************************************************)
(* Theorems on NodeHealth, for any number of nodes, any times that satisfy *)
(* the assumptions, and any number of faults: types, no false verdict, and *)
(* detection in time.                                                      *)
(*                                                                         *)
(* The argument is one of budgets.  From the agent's side: how old a last  *)
(* heartbeat can be in each phase of an exchange, measured by what the     *)
(* agent's ticker and the exchange itself show.  From the checker's side:  *)
(* how old one can be in each phase of a check, measured by the checker's  *)
(* ticker and the number of checks that have failed.                       *)
(***************************************************************************)
EXTENDS NodeHealth, TLAPS

\* Time since the last firing of the checker's ticker.
SinceFiring == CheckEvery - checkTicker

\* What the heartbeat of a READY node may age to, were checks instantaneous.
Due == Timeout + CheckEvery * failures

CheckerOK ==
    /\ checking # "idle" => checkFired = FALSE /\ SinceFiring <= CheckLatency
    /\ checking = "idle" /\ checkFired = TRUE => checkTicker = CheckEvery
    /\ checking # "marking" => verdict = {}
    /\ verdict \subseteq excused

AgeOK(n, age) ==
    /\ checking = "idle" /\ checkFired = FALSE => age <= Due + SinceFiring
    /\ checking = "idle" /\ checkFired = TRUE => age <= Due + CheckEvery
    /\ checking = "listed" =>
          /\ age <= Due + CheckEvery + SinceFiring
          /\ age <= SinceFiring \/ seen[n] = rows[n]
    /\ checking = "marking" =>
          \/ age <= Due + SinceFiring
          \/ n \in verdict /\ age <= Due + CheckEvery + SinceFiring

DetectOK(n) == rows[n].status = "READY" => AgeOK(n, rows[n].age)

HeardOK(n) ==
    /\ n \notin up => exchange[n] = "none"
    /\ n \in stuck => exchange[n] # "none" /\ (exchange[n] = "sent" => n \in missed)
    /\ exchange[n] # "none" =>
          /\ n \in fired \/ elapsed[n] <= HeartbeatEvery - ticker[n]
          /\ n \notin stuck => elapsed[n] <= Latency
    /\ n \in up /\ n \notin missed =>
          /\ exchange[n] = "none" /\ n \notin fired =>
                rows[n].age <= HeartbeatEvery - ticker[n]
          /\ exchange[n] = "none" /\ n \in fired => rows[n].age <= SendTimeout
          /\ exchange[n] = "sent" => rows[n].age <= SendTimeout + elapsed[n]
          /\ exchange[n] = "delivered" => rows[n].age <= elapsed[n]

ListedOK(n) ==
    checking = "listed" /\ n \notin excused =>
        seen[n].age <= SendTimeout + Latency + SinceFiring

Inv ==
    /\ TypeOK
    /\ CheckerOK
    /\ \A n \in Node : DetectOK(n) /\ HeardOK(n) /\ ListedOK(n)

-----------------------------------------------------------------------------
(* Numbers.                                                                *)

LEMMA DueFacts ==
    ASSUME TypeOK
    PROVE  /\ Due \in Nat /\ Timeout <= Due
           /\ SinceFiring \in Nat /\ SinceFiring < CheckEvery
           /\ CheckEvery \in Nat /\ CheckLatency \in Nat /\ Timeout \in Nat
           /\ Due + CheckEvery + CheckLatency < Horizon /\ Horizon \in Nat
  <1>1. /\ failures \in Nat /\ failures <= MaxFailures /\ MaxFailures \in Nat
        /\ CheckEvery \in Nat /\ checkTicker \in 1..CheckEvery
        /\ Timeout \in Nat /\ CheckLatency \in Nat /\ Horizon \in Nat
        /\ Horizon > Timeout + CheckEvery * (1 + MaxFailures) + CheckLatency
    BY TimesAssumption, BoundsAssumption DEF TypeOK
  <1>2. \A c, f, g \in Nat : f <= g => /\ c * f \in Nat /\ c * g \in Nat
                                       /\ c * f <= c * g
                                       /\ c * (1 + g) = c + c * g
    OBVIOUS
  <1>3. /\ CheckEvery * failures \in Nat
        /\ CheckEvery * MaxFailures \in Nat
        /\ CheckEvery * failures <= CheckEvery * MaxFailures
        /\ CheckEvery * (1 + MaxFailures) = CheckEvery + CheckEvery * MaxFailures
    BY <1>1, <1>2
  <1> QED  BY <1>1, <1>3 DEF Due, SinceFiring

\* A failed check gives the next one a round more.
LEMMA DueAfterFailure ==
    ASSUME TypeOK, failures' = failures + 1
    PROVE  Due' = Due + CheckEvery
  <1>1. failures \in Nat /\ CheckEvery \in Nat /\ Timeout \in Nat
    BY TimesAssumption, BoundsAssumption DEF TypeOK
  <1>2. \A c, f \in Nat : c * (f + 1) = c * f + c /\ c * f \in Nat
    OBVIOUS
  <1>3. CheckEvery * (failures + 1) = CheckEvery * failures + CheckEvery
        /\ CheckEvery * failures \in Nat
    BY <1>1, <1>2
  <1> QED  BY <1>1, <1>3 DEF Due

LEMMA RowFacts ==
    ASSUME TypeOK, NEW n \in Node
    PROVE  /\ rows[n] \in Row /\ rows[n].age \in Nat
           /\ seen[n] \in Row /\ seen[n].age \in Nat
           /\ ticker[n] \in 1..HeartbeatEvery /\ elapsed[n] \in 0..SendTimeout
           /\ HeartbeatEvery \in Nat /\ SendTimeout \in Nat /\ Latency \in Nat
           /\ HeartbeatEvery <= SendTimeout /\ Latency <= SendTimeout
  BY TimesAssumption, BoundsAssumption DEF TypeOK, Row

-----------------------------------------------------------------------------
(* What an action does not touch.                                          *)

NodeOK(n) == DetectOK(n) /\ HeardOK(n) /\ ListedOK(n)

LEMMA InvParts == Inv <=> TypeOK /\ CheckerOK /\ \A n \in Node : NodeOK(n)
  BY DEF Inv, NodeOK

\* Nothing of node n changes but its row, which is as it was or fresh.
Heard(n) == rows'[n] = [status |-> "READY", age |-> 0]

SameAgent(n) ==
    /\ ticker'[n] = ticker[n] /\ exchange'[n] = exchange[n] /\ elapsed'[n] = elapsed[n]
    /\ (n \in up') = (n \in up) /\ (n \in fired') = (n \in fired)
    /\ (n \in stuck') = (n \in stuck) /\ (n \in missed') = (n \in missed)

LEMMA RowKept ==
    ASSUME Inv, NEW n \in Node, UNCHANGED checker, rows'[n] = rows[n] \/ Heard(n)
    PROVE  DetectOK(n)' /\ ListedOK(n)'
  <1>1. /\ Due' = Due /\ SinceFiring' = SinceFiring
        /\ seen' = seen /\ checking' = checking /\ checkFired' = checkFired
        /\ verdict' = verdict /\ excused' = excused
    BY DEF checker, Due, SinceFiring
  <1>2. ListedOK(n)'
    BY <1>1 DEF Inv, ListedOK
  <1>3. CASE rows'[n] = rows[n]
    BY <1>1, <1>2, <1>3 DEF Inv, DetectOK, AgeOK
  <1>4. CASE Heard(n)
    <2>1. rows'[n].status = "READY" /\ rows'[n].age = 0
      BY <1>4 DEF Heard
    <2>2. AgeOK(n, rows[n].age)'
      BY <1>1, <2>1, DueFacts DEF Inv, AgeOK
    <2> QED  BY <1>2, <2>2 DEF DetectOK
  <1> QED  BY <1>3, <1>4

LEMMA AgentKept ==
    ASSUME Inv, NEW n \in Node, SameAgent(n),
           rows'[n].age = rows[n].age \/ rows'[n].age = 0
    PROVE  HeardOK(n)'
  <1>1. HeardOK(n)
    BY DEF Inv
  <1> QED  BY <1>1, RowFacts DEF Inv, HeardOK, SameAgent

LEMMA CheckerKept ==
    ASSUME Inv, UNCHANGED checker
    PROVE  CheckerOK'
  BY DEF Inv, CheckerOK, checker, SinceFiring

\* An action of the agent of n, or on its behalf: the rest follows when the
\* types and the agent's own budget do.
LEMMA AgentStepInv ==
    ASSUME Inv, NEW n \in Node, TypeOK', UNCHANGED checker,
           rows' = rows \/ rows' = [rows EXCEPT ![n] = [status |-> "READY", age |-> 0]],
           \A m \in Node \ {n} : SameAgent(m),
           HeardOK(n)'
    PROVE  Inv'
  <1>1. \A m \in Node : rows'[m] = rows[m] \/ Heard(m)
    BY DEF Inv, TypeOK, Heard
  <1>2. \A m \in Node : DetectOK(m)' /\ ListedOK(m)'
    BY <1>1, RowKept
  <1>3. ASSUME NEW m \in Node, m # n PROVE HeardOK(m)'
    <2>1. rows'[m].age = rows[m].age
      BY <1>3 DEF Inv, TypeOK
    <2> QED  BY <1>3, <2>1, AgentKept
  <1>4. \A m \in Node : NodeOK(m)'
    BY <1>2, <1>3 DEF NodeOK
  <1> QED  BY <1>4, CheckerKept DEF Inv, NodeOK

LEMMA InitInv == Init => Inv
  <1> SUFFICES ASSUME Init PROVE Inv
    OBVIOUS
  <1>1. AbsentRow \in Row
    BY BoundsAssumption DEF AbsentRow, Row
  <1>2. TypeOK
    <2>1. /\ rows \in [Node -> Row] /\ seen \in [Node -> Row]
          /\ ticker \in [Node -> 1..HeartbeatEvery]
          /\ exchange \in [Node -> {"none", "sent", "delivered"}]
          /\ elapsed \in [Node -> 0..SendTimeout]
      BY <1>1, TimesAssumption DEF Init
    <2>2. /\ up \in SUBSET Node /\ fired \in SUBSET Node /\ stuck \in SUBSET Node
          /\ orphans \in SUBSET Node /\ verdict \in SUBSET Node
          /\ missed \in SUBSET Node /\ excused \in SUBSET Node
          /\ checking \in {"idle", "listed", "marking"} /\ checkFired \in BOOLEAN
      BY Zenon DEF Init
    <2>3. /\ checkTicker \in 1..CheckEvery
          /\ faults \in 0..MaxFaults /\ failures \in 0..MaxFailures
      BY TimesAssumption, BoundsAssumption DEF Init
    <2> QED  BY <2>1, <2>2, <2>3, Zenon DEF TypeOK
  <1>3. CheckerOK
    BY DEF Init, CheckerOK
  <1>4. ASSUME NEW n \in Node PROVE NodeOK(n)
    BY <1>2, RowFacts, DueFacts DEF Init, NodeOK, DetectOK, HeardOK, ListedOK, AbsentRow
  <1> QED  BY <1>2, <1>3, <1>4, InvParts

-----------------------------------------------------------------------------
(* The agents.                                                             *)

LEMMA FaultType ==
    ASSUME TypeOK, Fault
    PROVE  faults' \in 0..MaxFaults
  BY BoundsAssumption DEF TypeOK, Fault

LEMMA FreshRow ==
    ASSUME TypeOK, NEW n \in Node,
           rows' = [rows EXCEPT ![n] = [status |-> "READY", age |-> 0]]
    PROVE  rows' \in [Node -> Row] /\ rows'[n].age = 0
  <1>1. [status |-> "READY", age |-> 0] \in Row
    BY BoundsAssumption DEF Row
  <1> QED  BY <1>1 DEF TypeOK

LEMMA StartInv ==
    ASSUME Inv, NEW n \in Node, Start(n)
    PROVE  Inv'
  <1>1. /\ n \notin up /\ up' = up \cup {n} /\ fired' = fired \cup {n}
        /\ rows' = [rows EXCEPT ![n] = [status |-> "READY", age |-> 0]]
        /\ ticker' = [ticker EXCEPT ![n] = HeartbeatEvery]
        /\ missed' = missed \ {n}
        /\ UNCHANGED <<exchange, elapsed, stuck, orphans, checker, faults>>
    BY DEF Start, RegisterNode
  <1>2. TypeOK'
    <2>1. ticker' \in [Node -> 1..HeartbeatEvery]
      BY <1>1, TimesAssumption DEF Inv, TypeOK
    <2>2. rows' \in [Node -> Row]
      BY <1>1, FreshRow DEF Inv
    <2> QED  BY <1>1, <2>1, <2>2 DEF Inv, TypeOK, checker
  <1>3. \A m \in Node \ {n} : SameAgent(m)
    BY <1>1 DEF SameAgent, Inv, TypeOK
  <1>4. HeardOK(n)'
    <2>1. exchange'[n] = "none" /\ n \notin stuck' /\ n \in up' /\ n \in fired'
      BY <1>1 DEF Inv, HeardOK
    <2>2. rows'[n].age = 0 /\ SendTimeout \in Nat
      BY <1>1, FreshRow, RowFacts DEF Inv
    <2> QED  BY <2>1, <2>2 DEF HeardOK
  <1> QED  BY <1>1, <1>2, <1>3, <1>4, AgentStepInv

LEMMA StartFailsInv ==
    ASSUME Inv, NEW n \in Node, StartFails(n)
    PROVE  Inv'
  <1>1. /\ rows' = [rows EXCEPT ![n] = [status |-> "READY", age |-> 0]]
        /\ Fault /\ UNCHANGED <<agents, checker>>
    BY DEF StartFails, RegisterNode
  <1>2. TypeOK'
    BY <1>1, FreshRow, FaultType DEF Inv, TypeOK, checker, agents
  <1>3. \A m \in Node : SameAgent(m)
    BY <1>1 DEF SameAgent, agents
  <1>4. HeardOK(n)'
    BY <1>1, <1>3, FreshRow, AgentKept DEF Inv
  <1> QED  BY <1>1, <1>2, <1>3, <1>4, AgentStepInv

LEMMA SendInv ==
    ASSUME Inv, NEW n \in Node, Send(n)
    PROVE  Inv'
  <1>1. /\ n \in up /\ n \in fired /\ exchange[n] = "none"
        /\ exchange' = [exchange EXCEPT ![n] = "sent"]
        /\ elapsed' = [elapsed EXCEPT ![n] = 0]
        /\ fired' = fired \ {n}
        /\ UNCHANGED <<rows, up, ticker, stuck, orphans, missed, checker, faults>>
    BY DEF Send
  <1>2. TypeOK'
    BY <1>1, TimesAssumption DEF Inv, TypeOK, checker
  <1>3. \A m \in Node \ {n} : SameAgent(m)
    BY <1>1 DEF SameAgent, Inv, TypeOK
  <1>4. HeardOK(n)'
    <2>1. /\ exchange'[n] = "sent" /\ elapsed'[n] = 0 /\ n \notin stuck'
          /\ n \notin missed => rows[n].age <= SendTimeout
      BY <1>1 DEF Inv, HeardOK, TypeOK
    <2> QED  BY <1>1, <2>1, RowFacts DEF HeardOK, Inv
  <1> QED  BY <1>1, <1>2, <1>3, <1>4, AgentStepInv

LEMMA DeliverInv ==
    ASSUME Inv, NEW n \in Node, Deliver(n)
    PROVE  Inv'
  <1>1. /\ exchange[n] = "sent"
        /\ rows' = [rows EXCEPT ![n] = [status |-> "READY", age |-> 0]]
        /\ exchange' = [exchange EXCEPT ![n] = "delivered"]
        /\ missed' = missed \ {n}
        /\ UNCHANGED <<up, ticker, fired, elapsed, stuck, orphans, checker, faults>>
    BY DEF Deliver, UpdateHeartbeat
  <1>2. TypeOK'
    BY <1>1, FreshRow DEF Inv, TypeOK, checker
  <1>3. \A m \in Node \ {n} : SameAgent(m)
    BY <1>1 DEF SameAgent, Inv, TypeOK
  <1>4. HeardOK(n)'
    <2>1. exchange'[n] = "delivered" /\ n \notin missed'
      BY <1>1 DEF Inv, TypeOK
    <2>2. rows'[n].age = 0
      BY <1>1, FreshRow DEF Inv
    <2>4. elapsed[n] \in Nat
      BY RowFacts DEF Inv
    <2>3. HeardOK(n)
      BY DEF Inv
    <2> QED  BY <1>1, <2>1, <2>2, <2>3, <2>4 DEF HeardOK
  <1> QED  BY <1>1, <1>2, <1>3, <1>4, AgentStepInv

LEMMA ReturnInv ==
    ASSUME Inv, NEW n \in Node, Answer(n) \/ GiveUp(n)
    PROVE  Inv'
  <1>0. exchange[n] = "delivered" \/ (exchange[n] = "sent" /\ n \in stuck)
    <2>1. exchange[n] \in {"none", "sent", "delivered"}
      BY DEF Inv, TypeOK
    <2> QED  BY <2>1 DEF Answer, GiveUp
  <1>1. /\ exchange' = [exchange EXCEPT ![n] = "none"]
        /\ elapsed' = [elapsed EXCEPT ![n] = 0]
        /\ stuck' = stuck \ {n}
        /\ UNCHANGED <<rows, up, ticker, fired, orphans, missed, checker, faults>>
    BY DEF Answer, GiveUp, Return
  <1>2. TypeOK'
    BY <1>1, TimesAssumption DEF Inv, TypeOK, checker
  <1>3. \A m \in Node \ {n} : SameAgent(m)
    BY <1>1 DEF SameAgent, Inv, TypeOK
  <1>4. HeardOK(n)'
    <2>1. exchange'[n] = "none" /\ n \notin stuck'
      BY <1>1 DEF Inv, TypeOK
    <2>2. HeardOK(n) /\ rows[n].age \in Nat /\ elapsed[n] \in 0..SendTimeout
          /\ ticker[n] \in 1..HeartbeatEvery /\ HeartbeatEvery \in Nat
          /\ SendTimeout \in Nat
      BY RowFacts DEF Inv
    <2>3. ASSUME n \in up, n \notin missed
          PROVE  /\ rows[n].age <= SendTimeout
                 /\ n \in fired \/ rows[n].age <= HeartbeatEvery - ticker[n]
      <3>1. exchange[n] = "delivered"
        BY <1>0, <2>2, <2>3 DEF HeardOK
      <3>2. /\ rows[n].age <= elapsed[n]
            /\ n \in fired \/ elapsed[n] <= HeartbeatEvery - ticker[n]
        BY <2>2, <2>3, <3>1 DEF HeardOK
      <3> QED  BY <2>2, <3>2
    <2>4. n \notin up' => exchange'[n] = "none"
      BY <2>1
    <2> QED  BY <1>1, <2>1, <2>3, <2>4 DEF HeardOK
  <1> QED  BY <1>1, <1>2, <1>3, <1>4, AgentStepInv

LEMMA GetStuckInv ==
    ASSUME Inv, NEW n \in Node, GetStuck(n)
    PROVE  Inv'
  <1>1. /\ exchange[n] # "none" /\ n \notin stuck
        /\ stuck' = stuck \cup {n}
        /\ missed' = IF exchange[n] = "sent" THEN missed \cup {n} ELSE missed
        /\ Fault
        /\ UNCHANGED <<rows, up, ticker, fired, exchange, elapsed, orphans, checker>>
    BY DEF GetStuck
  <1>2. TypeOK'
    BY <1>1, FaultType DEF Inv, TypeOK, checker
  <1>3. \A m \in Node \ {n} : SameAgent(m)
    BY <1>1 DEF SameAgent
  <1>4. HeardOK(n)'
    BY <1>1, RowFacts DEF HeardOK, Inv
  <1> QED  BY <1>1, <1>2, <1>3, <1>4, AgentStepInv

LEMMA DieInv ==
    ASSUME Inv, NEW n \in Node, Die(n)
    PROVE  Inv'
  <1>1. /\ up' = up \ {n} /\ fired' = fired \ {n}
        /\ orphans' = IF exchange[n] = "sent" THEN orphans \cup {n} ELSE orphans
        /\ exchange' = [exchange EXCEPT ![n] = "none"]
        /\ elapsed' = [elapsed EXCEPT ![n] = 0]
        /\ stuck' = stuck \ {n}
        /\ Fault
        /\ UNCHANGED <<rows, ticker, missed, checker>>
    BY DEF Die
  <1>2. TypeOK'
    BY <1>1, FaultType, TimesAssumption DEF Inv, TypeOK, checker
  <1>3. \A m \in Node \ {n} : SameAgent(m)
    BY <1>1 DEF SameAgent, Inv, TypeOK
  <1>4. HeardOK(n)'
    <2>1. exchange'[n] = "none" /\ n \notin stuck' /\ n \notin up'
      BY <1>1 DEF Inv, TypeOK
    <2> QED  BY <2>1 DEF HeardOK
  <1> QED  BY <1>1, <1>2, <1>3, <1>4, AgentStepInv

LEMMA OrphanInv ==
    ASSUME Inv, NEW n \in Node, OrphanArrives(n) \/ OrphanLost(n)
    PROVE  Inv'
  <1>1. /\ rows' = rows \/ rows' = [rows EXCEPT ![n] = [status |-> "READY", age |-> 0]]
        /\ orphans' = orphans \ {n}
        /\ UNCHANGED <<up, ticker, fired, exchange, elapsed, stuck, missed, checker, faults>>
    BY DEF OrphanArrives, OrphanLost, UpdateHeartbeat
  <1>2. TypeOK'
    BY <1>1, FreshRow DEF Inv, TypeOK, checker
  <1>3. \A m \in Node : SameAgent(m)
    BY <1>1 DEF SameAgent
  <1>4. HeardOK(n)'
    BY <1>1, <1>3, FreshRow, AgentKept DEF Inv
  <1> QED  BY <1>1, <1>2, <1>3, <1>4, AgentStepInv

-----------------------------------------------------------------------------
(* The checker.                                                            *)

\* An action of the checker alone: rows keep their ages.
LEMMA CheckerStepInv ==
    ASSUME Inv, TypeOK', UNCHANGED agents, CheckerOK',
           \A n \in Node : rows'[n].age = rows[n].age /\ DetectOK(n)' /\ ListedOK(n)'
    PROVE  Inv'
  <1>1. ASSUME NEW n \in Node PROVE HeardOK(n)'
    <2>1. SameAgent(n)
      BY DEF SameAgent, agents
    <2> QED  BY <2>1, AgentKept
  <1> QED  BY <1>1 DEF Inv

LEMMA FailureFacts ==
    ASSUME TypeOK, Failure
    PROVE  /\ failures' \in 0..MaxFailures
           /\ Due' = Due + CheckEvery
  <1>1. failures' = failures + 1 /\ failures < MaxFailures
    BY DEF Failure
  <1> QED  BY <1>1, DueAfterFailure, BoundsAssumption DEF TypeOK

LEMMA ListNodesInv ==
    ASSUME Inv, ListNodes
    PROVE  Inv'
  <1>1. /\ checking = "idle" /\ checkFired = TRUE /\ checking' = "listed"
        /\ checkFired' = FALSE /\ seen' = rows
        /\ excused' = {n \in Node : n \notin up \/ n \in missed}
        /\ UNCHANGED <<rows, agents, checkTicker, verdict, failures, faults>>
    BY DEF ListNodes, Inv, TypeOK
  <1>2. TypeOK'
    BY <1>1 DEF Inv, TypeOK, agents
  <1>3. /\ checkTicker = CheckEvery /\ verdict = {} /\ SinceFiring = 0 /\ SinceFiring' = 0
        /\ Due' = Due
    BY <1>1, TimesAssumption DEF Inv, CheckerOK, SinceFiring, Due
  <1>4. CheckerOK'
    BY <1>1, <1>3, TimesAssumption DEF CheckerOK
  <1>5. ASSUME NEW n \in Node PROVE DetectOK(n)'
    <2>1. rows[n].status = "READY" => rows[n].age <= Due + CheckEvery
      BY <1>1 DEF Inv, DetectOK, AgeOK
    <2> QED  BY <1>1, <1>3, <2>1, DueFacts, RowFacts DEF Inv, DetectOK, AgeOK
  <1>6. ASSUME NEW n \in Node PROVE ListedOK(n)'
    <2>1. SUFFICES ASSUME n \notin excused' PROVE rows[n].age <= SendTimeout + Latency
      BY <1>1, <1>3, RowFacts DEF ListedOK, Inv
    <2>2. n \in up /\ n \notin missed
      BY <1>1, <2>1
    <2>3. exchange[n] \in {"none", "sent", "delivered"} /\ HeardOK(n)
      BY DEF Inv, TypeOK
    <2> QED  BY <2>2, <2>3, RowFacts DEF HeardOK, Inv
  <1> QED  BY <1>1, <1>2, <1>4, <1>5, <1>6, CheckerStepInv

LEMMA ListFailsInv ==
    ASSUME Inv, ListFails
    PROVE  Inv'
  <1>1. /\ checking = "idle" /\ checkFired = TRUE /\ checkFired' = FALSE /\ Failure
        /\ UNCHANGED <<rows, agents, checking, checkTicker, seen, verdict, excused, faults>>
    BY DEF ListFails, Inv, TypeOK
  <1>2. TypeOK'
    BY <1>1, FailureFacts DEF Inv, TypeOK, agents
  <1>3. SinceFiring' = SinceFiring /\ Due' = Due + CheckEvery
    BY <1>1, FailureFacts DEF SinceFiring, Inv
  <1>4. CheckerOK'
    BY <1>1, <1>3 DEF CheckerOK, Inv
  <1>5. ASSUME NEW n \in Node PROVE DetectOK(n)' /\ ListedOK(n)'
    <2>1. rows[n].status = "READY" => rows[n].age <= Due + CheckEvery
      BY <1>1 DEF Inv, DetectOK, AgeOK
    <2> QED  BY <1>1, <1>3, <2>1, DueFacts, RowFacts DEF Inv, DetectOK, AgeOK, ListedOK
  <1> QED  BY <1>1, <1>2, <1>4, <1>5, CheckerStepInv

LEMMA JudgeInv ==
    ASSUME Inv, Judge
    PROVE  Inv'
  <1>1. /\ checking = "listed" /\ checking' = "marking"
        /\ verdict' = {n \in Node : Late(seen[n])}
        /\ UNCHANGED <<rows, agents, checkTicker, checkFired, seen, excused, failures, faults>>
    BY DEF Judge
  <1>2. TypeOK'
    BY <1>1 DEF Inv, TypeOK, agents
  <1>3. SinceFiring' = SinceFiring /\ Due' = Due /\ SinceFiring <= CheckLatency
    BY <1>1 DEF SinceFiring, Due, Inv, CheckerOK
  <1>4. ASSUME NEW n \in Node, n \in verdict' PROVE n \in excused
    <2>1. seen[n].age > Timeout
      BY <1>1, <1>4 DEF Late
    <2>2. n \notin excused => seen[n].age <= SendTimeout + Latency + SinceFiring
      BY <1>1 DEF Inv, ListedOK
    <2> QED  BY <1>3, <2>1, <2>2, SlackAssumption, DueFacts, RowFacts DEF Inv
  <1>5. CheckerOK'
    BY <1>1, <1>2, <1>3, <1>4 DEF CheckerOK, Inv, TypeOK
  <1>6. ASSUME NEW n \in Node PROVE DetectOK(n)'
    <2> SUFFICES ASSUME rows[n].status = "READY" PROVE AgeOK(n, rows[n].age)'
      BY <1>1 DEF DetectOK
    <2>1. /\ rows[n].age <= Due + CheckEvery + SinceFiring
          /\ rows[n].age <= SinceFiring \/ seen[n] = rows[n]
      BY <1>1 DEF Inv, DetectOK, AgeOK
    <2>2. CASE rows[n].age <= SinceFiring
      BY <1>1, <1>3, <2>2, DueFacts, RowFacts DEF Inv, AgeOK
    <2>3. CASE seen[n] = rows[n] /\ rows[n].age > Timeout
      <3>1. n \in verdict'
        BY <1>1, <2>3 DEF Late
      <3> QED  BY <1>1, <1>3, <2>1, <3>1 DEF AgeOK
    <2>4. CASE rows[n].age <= Timeout
      BY <1>1, <1>3, <2>4, DueFacts, RowFacts DEF Inv, AgeOK
    <2> QED  BY <2>1, <2>2, <2>3, <2>4, DueFacts, RowFacts DEF Inv
  <1>7. \A n \in Node : ListedOK(n)'
    BY <1>1 DEF ListedOK
  <1> QED  BY <1>1, <1>2, <1>5, <1>6, <1>7, CheckerStepInv

LEMMA MarkInv ==
    ASSUME Inv, NEW n \in Node, Mark(n)
    PROVE  Inv'
  <1>1. /\ checking = "marking" /\ verdict' = verdict \ {n}
        /\ rows' = [rows EXCEPT ![n].status = "UNHEALTHY"]
        /\ UNCHANGED <<agents, checking, checkTicker, checkFired, seen, excused, failures, faults>>
    BY DEF Mark, SetNodeStatus
  <1>2. /\ rows' \in [Node -> Row] /\ rows'[n].status = "UNHEALTHY"
        /\ \A m \in Node : rows'[m].age = rows[m].age
        /\ \A m \in Node \ {n} : rows'[m] = rows[m]
    BY <1>1 DEF Inv, TypeOK, Row
  <1>3. TypeOK'
    BY <1>1, <1>2 DEF Inv, TypeOK, agents
  <1>4. SinceFiring' = SinceFiring /\ Due' = Due
    BY <1>1 DEF SinceFiring, Due
  <1>5. CheckerOK'
    BY <1>1, <1>4 DEF CheckerOK, Inv
  <1>6. ASSUME NEW m \in Node PROVE DetectOK(m)' /\ ListedOK(m)'
    BY <1>1, <1>2, <1>4 DEF Inv, DetectOK, AgeOK, ListedOK
  <1> QED  BY <1>1, <1>2, <1>3, <1>5, <1>6, CheckerStepInv

LEMMA MarkFailsInv ==
    ASSUME Inv, NEW n \in Node, MarkFails(n)
    PROVE  Inv'
  <1>1. /\ checking = "marking" /\ verdict' = verdict \ {n} /\ Failure
        /\ UNCHANGED <<rows, agents, checking, checkTicker, checkFired, seen, excused, faults>>
    BY DEF MarkFails
  <1>2. TypeOK'
    BY <1>1, FailureFacts DEF Inv, TypeOK, agents
  <1>3. SinceFiring' = SinceFiring /\ Due' = Due + CheckEvery
    BY <1>1, FailureFacts DEF SinceFiring, Inv
  <1>4. CheckerOK'
    BY <1>1, <1>3 DEF CheckerOK, Inv
  <1>5. ASSUME NEW m \in Node PROVE DetectOK(m)' /\ ListedOK(m)'
    <2>1. rows[m].status = "READY" => rows[m].age <= Due + CheckEvery + SinceFiring
      BY <1>1, DueFacts, RowFacts DEF Inv, DetectOK, AgeOK
    <2> QED  BY <1>1, <1>3, <2>1, DueFacts, RowFacts DEF Inv, DetectOK, AgeOK, ListedOK
  <1> QED  BY <1>1, <1>2, <1>4, <1>5, CheckerStepInv

LEMMA CheckDoneInv ==
    ASSUME Inv, CheckDone
    PROVE  Inv'
  <1>1. /\ checking = "marking" /\ verdict = {} /\ checking' = "idle"
        /\ UNCHANGED <<rows, agents, checkTicker, checkFired, seen, verdict, excused, failures, faults>>
    BY DEF CheckDone
  <1>2. TypeOK'
    BY <1>1 DEF Inv, TypeOK, agents
  <1>3. SinceFiring' = SinceFiring /\ Due' = Due /\ checkFired = FALSE
    BY <1>1 DEF SinceFiring, Due, Inv, CheckerOK
  <1>4. CheckerOK'
    BY <1>1, <1>3 DEF CheckerOK, Inv
  <1>5. ASSUME NEW n \in Node PROVE DetectOK(n)' /\ ListedOK(n)'
    BY <1>1, <1>3 DEF Inv, DetectOK, AgeOK, ListedOK
  <1> QED  BY <1>1, <1>2, <1>4, <1>5, CheckerStepInv

LEMMA RestartInv ==
    ASSUME Inv, Restart
    PROVE  Inv'
  <1>1. /\ checking' = "idle" /\ checkTicker' = CheckEvery /\ checkFired' = TRUE
        /\ verdict' = {} /\ Failure
        /\ UNCHANGED <<rows, agents, seen, excused, faults>>
    BY DEF Restart
  <1>2. TypeOK'
    BY <1>1, FailureFacts, TimesAssumption DEF Inv, TypeOK, agents
  <1>3. SinceFiring' = 0 /\ Due' = Due + CheckEvery
    BY <1>1, FailureFacts, TimesAssumption DEF SinceFiring, Inv
  <1>4. CheckerOK'
    BY <1>1 DEF CheckerOK
  <1>5. ASSUME NEW n \in Node PROVE DetectOK(n)' /\ ListedOK(n)'
    <2>1. rows[n].status = "READY" => rows[n].age <= Due + CheckEvery + SinceFiring
      <3>1. checking \in {"idle", "listed", "marking"} /\ checkFired \in BOOLEAN
        BY DEF Inv, TypeOK
      <3> QED  BY <3>1, DueFacts, RowFacts DEF Inv, DetectOK, AgeOK
    <2> QED  BY <1>1, <1>3, <2>1, DueFacts, RowFacts DEF Inv, DetectOK, AgeOK, ListedOK
  <1> QED  BY <1>1, <1>2, <1>4, <1>5, CheckerStepInv

-----------------------------------------------------------------------------
(* Time.                                                                   *)

\* Ages grow by one, up to the horizon.
LEMMA AgedFacts ==
    ASSUME NEW table \in [Node -> Row]
    PROVE  /\ Aged(table) \in [Node -> Row]
           /\ \A n \in Node : /\ Aged(table)[n].status = table[n].status
                              /\ Aged(table)[n].age <= table[n].age + 1
                              /\ table[n].age < Horizon =>
                                    Aged(table)[n].age = table[n].age + 1
  <1>1. ASSUME NEW n \in Node
        PROVE  /\ [table[n] EXCEPT !.age = Older(@)] \in Row
               /\ [table[n] EXCEPT !.age = Older(@)].status = table[n].status
               /\ [table[n] EXCEPT !.age = Older(@)].age = Older(table[n].age)
               /\ Older(table[n].age) <= table[n].age + 1
               /\ table[n].age < Horizon => Older(table[n].age) = table[n].age + 1
    <2>1. table[n] \in Row /\ table[n].age \in 0..Horizon
      BY DEF Row
    <2>2. Older(table[n].age) \in 0..Horizon
      BY <2>1, BoundsAssumption DEF Older
    <2>3. /\ Older(table[n].age) <= table[n].age + 1
          /\ table[n].age < Horizon => Older(table[n].age) = table[n].age + 1
      BY <2>1, BoundsAssumption DEF Older
    <2> QED  BY <2>1, <2>2, <2>3 DEF Row
  <1> QED  BY <1>1 DEF Aged

\* The checker's ticker, from one unit of time to the next.
LEMMA TickChecker ==
    ASSUME Inv, Tick
    PROVE  /\ CheckerOK' /\ Due' = Due /\ checking' = checking
           /\ checking = "idle" => checkFired = FALSE
           /\ checkTicker' \in 1..CheckEvery /\ checkFired' \in BOOLEAN
           /\ checkTicker # 1 => SinceFiring' = SinceFiring + 1 /\ checkFired' = checkFired
           /\ checkTicker = 1 =>
                 /\ SinceFiring' = 0 /\ SinceFiring = CheckEvery - 1
                 /\ checkFired' = TRUE /\ checking = "idle"
  <1>1. /\ CheckerMayWait /\ checkTicker \in 1..CheckEvery /\ CheckEvery \in Nat
        /\ checkTicker' = IF checkTicker = 1 THEN CheckEvery ELSE checkTicker - 1
        /\ checkFired' = (checkFired \/ checkTicker = 1)
        /\ UNCHANGED <<checking, verdict, excused, failures>>
        /\ checkFired \in BOOLEAN
        /\ CheckLatency \in Nat /\ CheckLatency < CheckEvery
    BY TimesAssumption DEF Tick, Inv, TypeOK
  <1>2. checking = "idle" => checkFired = FALSE
    BY <1>1 DEF CheckerMayWait
  <1>3. checking # "idle" => SinceFiring < CheckLatency /\ checkFired = FALSE
    BY <1>1 DEF CheckerMayWait, SinceFiring, Inv, CheckerOK
  <1>4. /\ checkTicker # 1 => SinceFiring' = SinceFiring + 1
        /\ checkTicker = 1 => SinceFiring' = 0 /\ SinceFiring = CheckEvery - 1
        /\ checkTicker' \in 1..CheckEvery
    BY <1>1 DEF SinceFiring
  <1>5. checkTicker = 1 => checking = "idle" /\ checkFired' = TRUE
    <2>1. checkTicker = 1 => checking = "idle"
      BY <1>1, <1>3, <1>4
    <2>2. checkTicker = 1 => checkFired' = TRUE
      BY <1>1
    <2> QED  BY <2>1, <2>2
  <1>6. checkTicker # 1 => checkFired' = checkFired
    BY <1>1
  <1>7. Due' = Due
    BY <1>1 DEF Due
  <1>8. checkFired' \in BOOLEAN
    BY <1>1
  <1>9. SinceFiring \in Nat
    BY DueFacts DEF Inv
  <1>10. CheckerOK'
    <2>1. checking' # "idle" => checkFired' = FALSE /\ SinceFiring' <= CheckLatency
      BY <1>1, <1>3, <1>4, <1>5, <1>6, <1>9
    <2>2. checking' = "idle" /\ checkFired' = TRUE => checkTicker' = CheckEvery
      BY <1>1, <1>2, <1>6
    <2> QED  BY <1>1, <2>1, <2>2 DEF CheckerOK, Inv
  <1> QED  BY <1>1, <1>2, <1>4, <1>5, <1>6, <1>7, <1>8, <1>10

LEMMA TickInv ==
    ASSUME Inv, Tick
    PROVE  Inv'
  <1>1. /\ \A n \in Node : AgentMayWait(n)
        /\ rows' = Aged(rows)
        /\ seen' = IF checking = "listed" THEN Aged(seen) ELSE seen
        /\ ticker' = [n \in Node |-> IF ticker[n] = 1 THEN HeartbeatEvery ELSE ticker[n] - 1]
        /\ fired' = fired \cup {n \in up : ticker[n] = 1}
        /\ elapsed' = [n \in Node |-> IF exchange[n] = "none" THEN 0 ELSE elapsed[n] + 1]
        /\ UNCHANGED <<up, exchange, stuck, orphans, missed, checking, verdict, excused,
                       faults, failures>>
    BY DEF Tick
  <1>2. ASSUME NEW n \in Node
        PROVE  /\ elapsed[n] \in Nat /\ ticker[n] \in 1..HeartbeatEvery
               /\ HeartbeatEvery \in Nat /\ SendTimeout \in Nat /\ Latency \in Nat
               /\ Latency <= SendTimeout /\ HeartbeatEvery <= SendTimeout
               /\ elapsed'[n] = IF exchange[n] = "none" THEN 0 ELSE elapsed[n] + 1
               /\ ticker'[n] = IF ticker[n] = 1 THEN HeartbeatEvery ELSE ticker[n] - 1
    BY <1>1, RowFacts DEF Inv
  <1>3. ASSUME NEW n \in Node
        PROVE  elapsed'[n] \in 0..SendTimeout /\ ticker'[n] \in 1..HeartbeatEvery
    BY <1>1, <1>2 DEF AgentMayWait
  <1>4. rows \in [Node -> Row] /\ seen \in [Node -> Row]
    BY DEF Inv, TypeOK
  <1>5. TypeOK'
    <2>1. rows' \in [Node -> Row] /\ seen' \in [Node -> Row]
      BY <1>1, <1>4, AgedFacts
    <2>2. /\ elapsed' \in [Node -> 0..SendTimeout] /\ ticker' \in [Node -> 1..HeartbeatEvery]
      BY <1>1, <1>3
    <2> QED  BY <1>1, <2>1, <2>2, TickChecker DEF Inv, TypeOK
  <1>6. ASSUME NEW n \in Node PROVE DetectOK(n)'
    <2> SUFFICES ASSUME rows'[n].status = "READY" PROVE AgeOK(n, rows[n].age)'
      BY DEF DetectOK
    <2>1. AgeOK(n, rows[n].age) /\ rows'[n].age <= rows[n].age + 1
          /\ rows[n].age \in Nat /\ rows'[n].age \in Nat
      BY <1>1, <1>4, <1>5, AgedFacts, RowFacts DEF Inv, DetectOK, TypeOK, Row
    <2>2. checking \in {"idle", "listed", "marking"}
      BY DEF Inv, TypeOK
    <2>3. CASE checking = "idle"
      <3>1. rows[n].age <= Due + SinceFiring
        BY <2>1, <2>3, TickChecker DEF AgeOK
      <3>2. CASE checkTicker = 1
        <4>1. /\ SinceFiring = CheckEvery - 1 /\ Due' = Due
              /\ checkFired' = TRUE /\ checking' = "idle"
          BY <2>3, <3>2, TickChecker, Zenon
        <4>2. Due \in Nat /\ CheckEvery \in Nat
          BY DueFacts DEF Inv
        <4>3. rows'[n].age <= Due' + CheckEvery
          BY <2>1, <3>1, <4>1, <4>2
        <4> QED  BY <4>1, <4>3 DEF AgeOK
      <3>3. CASE checkTicker # 1
        <4>1. /\ SinceFiring' = SinceFiring + 1 /\ Due' = Due
              /\ checkFired' = FALSE /\ checking' = "idle"
          BY <2>3, <3>3, TickChecker, Zenon
        <4>2. Due \in Nat /\ SinceFiring \in Nat
          BY DueFacts DEF Inv
        <4>3. rows'[n].age <= Due' + SinceFiring'
          BY <2>1, <3>1, <4>1, <4>2
        <4> QED  BY <4>1, <4>3 DEF AgeOK
      <3> QED  BY <3>2, <3>3
    <2>4. CASE checking = "listed"
      <3>1. seen[n] = rows[n] => seen'[n] = rows'[n]
        BY <1>1, <2>4 DEF Aged
      <3>2. checkTicker # 1 /\ SinceFiring' = SinceFiring + 1 /\ Due' = Due
        BY <2>4, TickChecker
      <3> QED  BY <2>1, <2>4, <3>1, <3>2, TickChecker, DueFacts DEF Inv, AgeOK
    <2>5. CASE checking = "marking"
      <3>1. checkTicker # 1 /\ SinceFiring' = SinceFiring + 1 /\ Due' = Due
        BY <2>5, TickChecker
      <3> QED  BY <1>1, <2>1, <2>5, <3>1, TickChecker, DueFacts DEF Inv, AgeOK
    <2> QED  BY <2>2, <2>3, <2>4, <2>5
  <1>7. ASSUME NEW n \in Node PROVE HeardOK(n)'
    <2>1. HeardOK(n) /\ AgentMayWait(n) /\ exchange[n] \in {"none", "sent", "delivered"}
      BY <1>1 DEF Inv, TypeOK
    <2>2. rows'[n].age <= rows[n].age + 1 /\ rows[n].age \in Nat /\ rows'[n].age \in Nat
      BY <1>1, <1>4, <1>5, AgedFacts, RowFacts DEF Inv, TypeOK, Row
    <2>3. /\ exchange'[n] = exchange[n] /\ (n \in up') = (n \in up)
          /\ (n \in stuck') = (n \in stuck) /\ (n \in missed') = (n \in missed)
          /\ n \in fired' <=> n \in fired \/ (n \in up /\ ticker[n] = 1)
      BY <1>1
    <2>4. CASE exchange[n] = "none"
      BY <1>2, <2>1, <2>2, <2>3, <2>4 DEF HeardOK, AgentMayWait
    <2>5. CASE exchange[n] = "sent"
      BY <1>2, <2>1, <2>2, <2>3, <2>5 DEF HeardOK, AgentMayWait
    <2>6. CASE exchange[n] = "delivered"
      BY <1>2, <2>1, <2>2, <2>3, <2>6 DEF HeardOK, AgentMayWait
    <2> QED  BY <2>1, <2>4, <2>5, <2>6
  <1>8. ASSUME NEW n \in Node PROVE ListedOK(n)'
    <2> SUFFICES ASSUME checking = "listed", n \notin excused
                 PROVE  seen'[n].age <= SendTimeout + Latency + SinceFiring'
      BY <1>1 DEF ListedOK
    <2>1. seen[n].age <= SendTimeout + Latency + SinceFiring
      BY DEF Inv, ListedOK
    <2>2. seen'[n].age <= seen[n].age + 1 /\ seen'[n].age \in Nat /\ seen[n].age \in Nat
      BY <1>1, <1>4, <1>5, AgedFacts, RowFacts DEF Inv, TypeOK, Row
    <2>3. SinceFiring' = SinceFiring + 1 /\ SinceFiring \in Nat
      BY TickChecker, DueFacts DEF Inv
    <2> QED  BY <1>2, <2>1, <2>2, <2>3
  <1> QED  BY <1>5, <1>6, <1>7, <1>8, TickChecker DEF Inv

-----------------------------------------------------------------------------
(* The theorems.                                                           *)

LEMMA NextInv ==
    ASSUME Inv, [Next]_vars
    PROVE  Inv'
  <1>1. CASE UNCHANGED vars
    <2>1. TypeOK' /\ UNCHANGED agents
      BY <1>1 DEF Inv, TypeOK, vars, agents, checker
    <2>2. rows' = rows /\ UNCHANGED checker
      BY <1>1 DEF vars
    <2> QED  BY <2>1, <2>2, RowKept, CheckerKept, CheckerStepInv
  <1>2. CASE Tick
    BY <1>2, TickInv
  <1>3. CASE CheckStep
    BY <1>3, ListNodesInv, JudgeInv, CheckDoneInv, MarkInv DEF CheckStep
  <1>4. CASE FaultStep
    BY <1>4, StartFailsInv, GetStuckInv, DieInv, OrphanInv, MarkFailsInv, ListFailsInv,
       RestartInv DEF FaultStep
  <1>5. ASSUME NEW n \in Node, AgentStep(n) PROVE Inv'
    BY <1>5, StartInv, SendInv, DeliverInv, ReturnInv DEF AgentStep
  <1> QED  BY <1>1, <1>2, <1>3, <1>4, <1>5 DEF Next

LEMMA InvHolds == Spec => []Inv
  <1>1. Init => Inv
    BY InitInv
  <1>2. Inv /\ [Next]_vars => Inv'
    BY NextInv
  <1> QED  BY <1>1, <1>2, PTL DEF Spec

\* Every variable keeps its type: no exchange outlasts the client's timeout.
THEOREM TypeCorrect == Spec => []TypeOK
  <1>1. Inv => TypeOK
    BY DEF Inv
  <1> QED  BY <1>1, InvHolds, PTL

\* check condemns no node whose agent runs and none of whose heartbeats got
\* stuck, as long as the timeout leaves room for an exchange and a check.
THEOREM VerdictsAreTrue == Spec => []NoFalseVerdict
  <1>1. Inv => NoFalseVerdict
    BY DEF Inv, CheckerOK, NoFalseVerdict
  <1> QED  BY <1>1, InvHolds, PTL

\* A node does not stay READY longer than the timeout, the rounds of the
\* checker that it takes and the time of a check.
THEOREM Detection == Spec => []DetectedInTime
  <1>1. Inv => DetectedInTime
    <2> SUFFICES ASSUME Inv, NEW n \in Node, rows[n].status = "READY"
                 PROVE  rows[n].age <= Timeout + CheckEvery * (1 + failures) + CheckLatency
      BY DEF DetectedInTime
    <2>1. checking \in {"idle", "listed", "marking"} /\ checkFired \in BOOLEAN
          /\ failures \in Nat
      BY BoundsAssumption DEF Inv, TypeOK
    <2>2. rows[n].age <= Due + CheckEvery + CheckLatency
      BY <2>1, DueFacts, RowFacts DEF Inv, CheckerOK, DetectOK, AgeOK
    <2>3. \A c, f \in Nat : c * (1 + f) = c * f + c /\ c * f \in Nat
      OBVIOUS
    <2>4. CheckEvery * (1 + failures) = CheckEvery * failures + CheckEvery
          /\ CheckEvery * failures \in Nat
      BY <2>1, <2>3, DueFacts DEF Inv
    <2> QED  BY <2>2, <2>4, DueFacts, RowFacts DEF Inv, Due
  <1> QED  BY <1>1, InvHolds, PTL

=============================================================================
