-------------------------- MODULE AutoscalerProofs -------------------------
(***************************************************************************)
(* Theorems on Autoscaler, for any number of services, any configurations, *)
(* loads, bounds and times: types, the range the replica counts stay in,   *)
(* and what lies between two writes of the autoscaler.                     *)
(*                                                                         *)
(* The argument: a row of the listing that is not visited yet has the      *)
(* configuration and the scaling time of the row in the table, and its     *)
(* count too unless a client has disturbed the service; and an entry of    *)
(* the autoscaler's memory either is for the count the service has, so     *)
(* that the next decision replaces it, or counts no more than what was     *)
(* read since the last write.                                              *)
(***************************************************************************)
EXTENDS Autoscaler, TLAPS

ConfigOK(row) ==
    row.status # "ABSENT" => /\ row.config \in Configs
                             /\ validateAutoscaling(row.config)
                             /\ row.req > 0

\* A row of the listing that is yet to be visited.
ListingOK(s) ==
    snap[s].status # "ABSENT" =>
        /\ services[s].status # "ABSENT"
        /\ snap[s].config = services[s].config
        /\ snap[s].since = services[s].since
        /\ snap[s].req > 0
        /\ snap[s].replicas \in hull[s].lo..hull[s].hi
        /\ services[s].since # Never /\ s \notin disturbed =>
               snap[s].replicas = services[s].replicas

HullOK(s) ==
    services[s].status # "ABSENT" =>
        /\ hull[s].lo <= services[s].config.min
        /\ services[s].config.max <= hull[s].hi
        /\ services[s].replicas \in hull[s].lo..hull[s].hi

MemoryOK(s) ==
    /\ services[s].status = "ABSENT" =>
           /\ services[s] = AbsentRow
           /\ observations[s].count = 0
    /\ services[s].config.required <= 1 => observations[s].count = 0
    /\ observations[s].count <= services[s].config.required
    /\ readings[s] <= services[s].config.required
    /\ services[s].since # Never => quiet[s] = services[s].since
    /\ services[s].since # Never /\ s \notin disturbed =>
           \/ observations[s].desired = services[s].replicas
           \/ observations[s].count <= readings[s]

Inv ==
    /\ TypeOK
    /\ \A s \in Service :
          ConfigOK(services[s]) /\ ListingOK(s) /\ HullOK(s) /\ MemoryOK(s)

-----------------------------------------------------------------------------
(* The operators of the decision.                                          *)

\* limitScaleStep stays between the count and the recommendation.
LEMMA StepBetween ==
    ASSUME NEW lo \in Nat, NEW hi \in Nat,
           NEW current \in lo..hi, NEW desired \in lo..hi, NEW maxStep \in Nat
    PROVE  limitScaleStep(current, desired, maxStep) \in lo..hi
  BY DEF limitScaleStep

\* The recommendation lies between the bounds of a valid configuration.
LEMMA RecommendedBetween ==
    ASSUME NEW svc \in Row, svc.req > 0, svc.config.enabled,
           validateAutoscaling(svc.config), NEW usage \in Nat
    PROVE  Recommended(svc, usage) \in svc.config.min..svc.config.max
  <1> DEFINE target == svc.req * svc.config.targetCPU
             want == Ceil(100 * usage, target)
  <1>1. /\ svc.req \in Nat /\ svc.config.targetCPU \in Nat
        /\ svc.config.targetCPU > 0
        /\ svc.config.min \in Nat /\ svc.config.max \in Nat
        /\ svc.config.min <= svc.config.max
    BY DEF Row, Config, validateAutoscaling
  <1>2. target \in Nat /\ target > 0
    <2>1. \A a, b \in Nat : a > 0 /\ b > 0 => a * b \in Nat /\ a * b > 0
      OBVIOUS
    <2> QED  BY <1>1, <2>1
  <1>3. want \in Int
    <2> HIDE DEF target
    <2>1. 100 * usage + target - 1 \in Int
      BY <1>2
    <2> QED  BY <1>2, <2>1 DEF Ceil
  <1>4. Recommended(svc, usage) = Smaller(svc.config.max, Larger(svc.config.min, want))
    BY DEF Recommended
  <1> HIDE DEF want
  <1> QED  BY <1>1, <1>3, <1>4 DEF Smaller, Larger

\* The ages of a scaling.
LEMMA SinceFacts ==
    /\ 0 \in Since /\ 0 # Never
    /\ \A k \in Since : /\ Longer(k) \in Since
                        /\ Longer(k) # Never <=> k # Never
                        /\ k # Never => Longer(k) = Smaller(k + 1, MaxCooldown)
  <1>1. 0 \in 0..MaxCooldown
    BY NumbersAssumption
  <1>2. ASSUME NEW k \in 0..MaxCooldown
        PROVE  Smaller(k + 1, MaxCooldown) \in 0..MaxCooldown
    BY NumbersAssumption DEF Smaller
  <1>3. \A k \in 0..MaxCooldown : k # -1
    BY NumbersAssumption
  <1> QED  BY <1>1, <1>2, <1>3 DEF Since, Never, Longer

\* So what a visit comes to is in the range of the service.
LEMMA WantedBetween ==
    ASSUME Inv, NEW s \in Service, Scalable(snap[s])
    PROVE  /\ Wanted(s) \in Nat
           /\ Wanted(s) \in hull[s].lo..hull[s].hi
  <1>1. /\ snap[s] \in Row /\ snap[s].status # "ABSENT" /\ load[s] \in Nat
        /\ hull[s].lo \in Nat /\ hull[s].hi \in Nat
    BY NumbersAssumption DEF Inv, TypeOK, Scalable
  <1>2. /\ services[s].status # "ABSENT"
        /\ snap[s].config = services[s].config
        /\ snap[s].req > 0
        /\ snap[s].replicas \in hull[s].lo..hull[s].hi
        /\ validateAutoscaling(snap[s].config)
        /\ snap[s].config.enabled
        /\ hull[s].lo <= snap[s].config.min /\ snap[s].config.max <= hull[s].hi
    BY <1>1 DEF Inv, ListingOK, HullOK, ConfigOK, Scalable
  <1>3. Recommended(snap[s], load[s]) \in snap[s].config.min..snap[s].config.max
    BY <1>1, <1>2, RecommendedBetween
  <1>4. /\ snap[s].config.step \in Nat /\ snap[s].config.min \in Nat
        /\ snap[s].config.max \in Nat
    BY <1>1 DEF Row, Config
  <1>5. Recommended(snap[s], load[s]) \in hull[s].lo..hull[s].hi
    BY <1>1, <1>2, <1>3, <1>4
  <1>6. Wanted(s) \in hull[s].lo..hull[s].hi
    BY <1>1, <1>2, <1>4, <1>5, StepBetween DEF Wanted
  <1> QED  BY <1>1, <1>6

-----------------------------------------------------------------------------
(* What an action does not touch.                                          *)

\* Of service t nothing changes, but that its observation may be forgotten.
Same(t) ==
    /\ services'[t] = services[t]
    /\ snap'[t] \in {snap[t], AbsentRow}
    /\ observations'[t] \in {observations[t], NoObservation}
    /\ quiet'[t] = quiet[t] /\ readings'[t] = readings[t] /\ hull'[t] = hull[t]
    /\ (t \in disturbed') = (t \in disturbed)

Part(t) == ConfigOK(services[t]) /\ ListingOK(t) /\ HullOK(t) /\ MemoryOK(t)

LEMMA SameKept ==
    ASSUME Inv, NEW t \in Service, Same(t)
    PROVE  Part(t)'
  <1>1. /\ services[t] \in Row /\ observations[t] \in Observation
        /\ readings[t] \in Nat
    BY DEF Inv, TypeOK
  <1>2. services[t].config.required \in Nat
    BY <1>1 DEF Row, Config
  <1>3. ConfigOK(services[t])' /\ HullOK(t)'
    BY DEF Inv, Same, ConfigOK, HullOK
  <1>4. ListingOK(t)'
    BY DEF Inv, Same, ListingOK, AbsentRow
  <1>5. MemoryOK(t)'
    BY <1>1, <1>2 DEF Inv, Same, MemoryOK, NoObservation
  <1> QED  BY <1>3, <1>4, <1>5 DEF Part

LEMMA CleanedOrKept ==
    ASSUME NEW t \in Service
    PROVE  cleanupObservations[t] \in {observations[t], NoObservation}
  BY DEF cleanupObservations

\* The invariant, service by service.
LEMMA InvIsParts == Inv <=> TypeOK /\ \A t \in Service : Part(t)
  BY DEF Inv, Part

LEMMA InitInv == Init => Inv
  <1> SUFFICES ASSUME Init PROVE Inv
    OBVIOUS
  <1>1. AbsentRow \in Row /\ NoObservation \in Observation
    BY NumbersAssumption DEF AbsentRow, Row, NoConfig, Config, Since, Never, NoObservation, Observation
  <1>2. TypeOK
    <2>1. /\ services \in [Service -> Row] /\ snap \in [Service -> Row]
          /\ observations \in [Service -> Observation]
          /\ ready \in SUBSET Service /\ disturbed \in SUBSET Service
          /\ load \in [Service -> Loads]
      BY <1>1 DEF Init
    <2>2. /\ quiet \in [Service -> 0..MaxCooldown]
          /\ readings \in [Service -> Nat]
      <3>1. MaxCooldown \in 0..MaxCooldown /\ 0 \in Nat
        BY NumbersAssumption
      <3> QED  BY <3>1, Zenon DEF Init
    <2>4. hull \in [Service -> [lo : Nat, hi : Nat]]
      <3>1. [lo |-> 0, hi |-> 0] \in [lo : Nat, hi : Nat]
        OBVIOUS
      <3> QED  BY <3>1, Zenon DEF Init
    <2>3. updates \in 0..MaxUpdates /\ faults \in 0..MaxFaults
      BY NumbersAssumption DEF Init
    <2>5. pc \in {"waiting", "services"} /\ fired \in BOOLEAN
      BY Zenon DEF Init
    <2> QED  BY <2>1, <2>2, <2>3, <2>4, <2>5, Zenon DEF TypeOK
  <1>3. ASSUME NEW t \in Service PROVE Part(t)
    BY <1>3 DEF Init, Part, ConfigOK, ListingOK, HullOK, MemoryOK, AbsentRow, NoConfig,
                NoObservation, Never
  <1> QED  BY <1>2, <1>3, InvIsParts

-----------------------------------------------------------------------------
(* Clients, the reconciler and the load.                                   *)

\* Nothing the invariant speaks of but its types changes.
LEMMA StutterInv ==
    ASSUME Inv, TypeOK', UNCHANGED <<services, history>>,
           \A t \in Service : /\ snap'[t] \in {snap[t], AbsentRow}
                              /\ observations'[t] \in {observations[t], NoObservation}
    PROVE  Inv'
  <1>1. ASSUME NEW t \in Service PROVE Part(t)'
    <2>1. Same(t)
      BY DEF Same, history
    <2> QED  BY <2>1, SameKept
  <1> QED  BY <1>1 DEF Inv, Part

LEMMA createServiceInv ==
    ASSUME Inv, NEW s \in Service, NEW replicas \in Replicas, NEW req \in Requests,
           NEW c \in Configs, createService(s, replicas, req, c)
    PROVE  Inv'
  <1> DEFINE row == [status |-> "ACTIVE", deployment |-> "AVAILABLE",
                     replicas |-> replicas, req |-> req, since |-> Never, config |-> c]
             range == [lo |-> Smaller(c.min, replicas), hi |-> Larger(c.max, replicas)]
  <1>1. /\ replicas \in Nat /\ req \in Nat /\ req > 0 /\ c \in Config
        /\ c.min \in Nat /\ c.max \in Nat /\ c.required \in Nat
    BY ConfigsAssumption, NumbersAssumption DEF Config
  <1>2. row \in Row /\ range \in [lo : Nat, hi : Nat]
    BY <1>1 DEF Row, Since, Smaller, Larger
  <1>3. /\ services' = [services EXCEPT ![s] = row]
        /\ hull' = [hull EXCEPT ![s] = range]
        /\ services[s].status = "ABSENT" /\ validateAutoscaling(c)
        /\ UNCHANGED <<ready, load, memory, quiet, readings, disturbed, updates, faults>>
    BY DEF createService
  <1>4. TypeOK'
    BY <1>2, <1>3 DEF Inv, TypeOK, memory
  <1>5. ASSUME NEW t \in Service PROVE Part(t)'
    <2>1. CASE t # s
      <3>1. Same(t)
        BY <1>3, <2>1 DEF Same, memory, Inv, TypeOK
      <3> QED  BY <3>1, SameKept
    <2>2. CASE t = s
      <3>1. services'[s] = row /\ hull'[s] = range
        BY <1>3 DEF Inv, TypeOK
      <3>2. snap'[s].status = "ABSENT"
        BY <1>3 DEF Inv, ListingOK, memory
      <3>3. observations'[s].count = 0 /\ readings'[s] = 0
        <4>1. services[s] = AbsentRow /\ observations[s].count = 0
              /\ readings[s] <= services[s].config.required /\ readings[s] \in Nat
          BY <1>3 DEF Inv, MemoryOK, TypeOK
        <4> QED  BY <1>3, <4>1 DEF memory, AbsentRow, NoConfig
      <3>4. ConfigOK(services[s])' /\ ListingOK(s)'
        BY <1>1, <1>3, <3>1, <3>2 DEF ConfigOK, ListingOK
      <3>5. HullOK(s)'
        BY <1>1, <3>1 DEF HullOK, Smaller, Larger
      <3>6. MemoryOK(s)'
        BY <1>1, <3>1, <3>3 DEF MemoryOK
      <3> QED  BY <2>2, <3>4, <3>5, <3>6 DEF Part
    <2> QED  BY <2>1, <2>2
  <1> QED  BY <1>4, <1>5 DEF Inv, Part

LEMMA updateServiceInv ==
    ASSUME Inv, NEW s \in Service, NEW replicas \in Replicas, NEW req \in Requests,
           NEW newImage \in BOOLEAN, updateService(s, replicas, req, newImage)
    PROVE  Inv'
  <1> DEFINE row == [services[s] EXCEPT
                        !.replicas = replicas, !.req = req,
                        !.deployment = IF newImage THEN "PROGRESSING" ELSE @]
             range == [lo |-> Smaller(hull[s].lo, replicas),
                       hi |-> Larger(hull[s].hi, replicas)]
  <1>1. /\ replicas \in Nat /\ req \in Nat /\ req > 0
        /\ services[s] \in Row /\ snap[s] \in Row
        /\ hull[s].lo \in Nat /\ hull[s].hi \in Nat
    BY NumbersAssumption DEF Inv, TypeOK
  <1>2. row \in Row /\ range \in [lo : Nat, hi : Nat]
    BY <1>1 DEF Row, Smaller, Larger
  <1>3. /\ services' = [services EXCEPT ![s] = row]
        /\ hull' = [hull EXCEPT ![s] = range]
        /\ services[s].status # "ABSENT"
        /\ disturbed' = disturbed \cup {s} /\ ready' = ready \ {s}
        /\ updates < MaxUpdates /\ updates' = updates + 1
        /\ UNCHANGED <<load, memory, quiet, readings, faults>>
    BY DEF updateService, Inv, TypeOK
  <1>4. TypeOK'
    BY <1>2, <1>3, NumbersAssumption DEF Inv, TypeOK, memory
  <1>5. ASSUME NEW t \in Service PROVE Part(t)'
    <2>1. CASE t # s
      <3>1. Same(t)
        BY <1>3, <2>1 DEF Same, memory, Inv, TypeOK
      <3> QED  BY <3>1, SameKept
    <2>2. CASE t = s
      <3>1. services'[s] = row /\ hull'[s] = range /\ s \in disturbed'
        BY <1>3 DEF Inv, TypeOK
      <3>2. /\ row.status = services[s].status /\ row.config = services[s].config
            /\ row.since = services[s].since /\ row.replicas = replicas /\ row.req = req
        BY <1>1 DEF Row
      <3>3. ConfigOK(services[s])'
        BY <1>1, <3>1, <3>2 DEF ConfigOK, Inv
      <3>4. ListingOK(s)'
        BY <1>1, <1>3, <3>1, <3>2 DEF ListingOK, Inv, memory, Smaller, Larger, Row
      <3>5. HullOK(s)'
        BY <1>1, <1>3, <3>1, <3>2 DEF HullOK, Inv, Smaller, Larger, Row, Config
      <3>6. MemoryOK(s)'
        BY <1>1, <1>3, <3>1, <3>2 DEF MemoryOK, Inv, memory
      <3> QED  BY <2>2, <3>3, <3>4, <3>5, <3>6 DEF Part
    <2> QED  BY <2>1, <2>2
  <1> QED  BY <1>4, <1>5 DEF Inv, Part

\* The status columns of one row.
LEMMA StatusInv ==
    ASSUME Inv, NEW s \in Service, services[s].status # "ABSENT",
           NEW status \in {"ACTIVE", "DELETING", "DELETED"},
           NEW deployment \in {"AVAILABLE", "PROGRESSING", "FAILED"},
           services' = [services EXCEPT ![s].status = status, ![s].deployment = deployment],
           UNCHANGED <<ready, load, memory, history, updates>>,
           faults' \in 0..MaxFaults
    PROVE  Inv'
  <1> DEFINE row == [services[s] EXCEPT !.status = status, !.deployment = deployment]
  <1>1. services[s] \in Row
    BY DEF Inv, TypeOK
  <1>2. /\ row \in Row /\ row.status # "ABSENT"
        /\ row.config = services[s].config /\ row.since = services[s].since
        /\ row.replicas = services[s].replicas /\ row.req = services[s].req
    BY <1>1 DEF Row
  <1>3. services' = [services EXCEPT ![s] = row]
    BY DEF Inv, TypeOK
  <1> HIDE DEF row
  <1>4. TypeOK'
    BY <1>2, <1>3 DEF Inv, TypeOK, memory, history
  <1>5. ASSUME NEW t \in Service PROVE Part(t)'
    <2>1. CASE t # s
      <3>1. Same(t)
        BY <1>3, <2>1 DEF Same, memory, history, Inv, TypeOK
      <3> QED  BY <3>1, SameKept
    <2>2. CASE t = s
      <3>1. services'[s] = row
        BY <1>3 DEF Inv, TypeOK
      <3>2. ConfigOK(services[s])' /\ HullOK(s)'
        BY <1>2, <3>1 DEF ConfigOK, HullOK, Inv, history
      <3>3. ListingOK(s)'
        BY <1>2, <3>1 DEF ListingOK, Inv, memory, history
      <3>4. MemoryOK(s)'
        BY <1>2, <3>1 DEF MemoryOK, Inv, memory, history
      <3> QED  BY <2>2, <3>2, <3>3, <3>4 DEF Part
    <2> QED  BY <2>1, <2>2
  <1> QED  BY <1>4, <1>5 DEF Inv, Part

-----------------------------------------------------------------------------
(* The loop.                                                               *)

LEMMA ListServicesInv ==
    ASSUME Inv, ListServices
    PROVE  Inv'
  <1>1. /\ snap' = services
        /\ UNCHANGED <<services, ready, load, observations, history, updates, faults>>
        /\ pc' = "services" /\ fired' = FALSE
    BY DEF ListServices
  <1>2. TypeOK'
    BY <1>1 DEF Inv, TypeOK, history
  <1>3. ASSUME NEW t \in Service PROVE Part(t)'
    <2>1. ConfigOK(services[t])' /\ HullOK(t)' /\ MemoryOK(t)'
      BY <1>1 DEF Inv, ConfigOK, HullOK, MemoryOK, history
    <2>2. ListingOK(t)'
      BY <1>1 DEF Inv, ConfigOK, HullOK, ListingOK, history
    <2> QED  BY <2>1, <2>2 DEF Part
  <1> QED  BY <1>2, <1>3 DEF Inv, Part

\* The visits that only leave the service out of the listing, and forget.
LEMMA QuietVisitInv ==
    ASSUME Inv, NEW s \in Service,
           NotActive(s) \/ NotScalable(s) \/ NoneRunning(s)
           \/ WorkloadsUnlisted(s) \/ MetricsFail(s)
    PROVE  Inv'
  <1>1. /\ snap' = [snap EXCEPT ![s] = AbsentRow]
        /\ UNCHANGED <<load, pc, fired, updates, services, ready, history>>
    BY DEF NotActive, NotScalable, NoneRunning, WorkloadsUnlisted, MetricsFail,
           Visited, NothingScaled
  <1>2. faults' \in 0..MaxFaults
    BY NumbersAssumption
       DEF Inv, TypeOK, NotActive, NotScalable, NoneRunning, WorkloadsUnlisted,
           MetricsFail, Fault
  <1>3. \A t \in Service : observations'[t] \in {observations[t], NoObservation}
    BY DEF NotActive, NotScalable, NoneRunning, WorkloadsUnlisted, MetricsFail,
           cleanupObservations
  <1>4. DOMAIN observations' = Service /\ observations' = [t \in Service |-> observations'[t]]
    BY DEF NotActive, NotScalable, NoneRunning, WorkloadsUnlisted, MetricsFail,
           cleanupObservations, Inv, TypeOK
  <1>5. AbsentRow \in Row /\ NoObservation \in Observation
    BY NumbersAssumption DEF AbsentRow, Row, NoConfig, Config, Since, Never,
                             NoObservation, Observation
  <1>6. observations' \in [Service -> Observation]
    BY <1>3, <1>4, <1>5 DEF Inv, TypeOK
  <1>7. TypeOK'
    BY <1>1, <1>2, <1>5, <1>6 DEF Inv, TypeOK, history
  <1>8. \A t \in Service : snap'[t] \in {snap[t], AbsentRow}
    BY <1>1 DEF Inv, TypeOK
  <1> QED  BY <1>1, <1>3, <1>7, <1>8, StutterInv

\* A reading: what it leaves of the other services, and of the listing.
LEMMA ReadingFacts ==
    ASSUME Inv, NEW s \in Service, Reading(s)
    PROVE  /\ snap' = [snap EXCEPT ![s] = AbsentRow]
           /\ UNCHANGED <<load, pc, fired, updates>>
           /\ Scalable(snap[s])
           /\ services[s].status # "ABSENT"
           /\ snap[s].config = services[s].config
           /\ snap[s].since = services[s].since
           /\ services[s] \in Row
           /\ snap[s].config.required \in Nat /\ snap[s].config.required >= 1
           /\ snap[s].replicas \in Nat
           /\ services[s].since # Never /\ s \notin disturbed =>
                  snap[s].replicas = services[s].replicas
           /\ snap'[s].status = "ABSENT"
           /\ \A t \in Service \ {s} : snap'[t] = snap[t]
           /\ snap' \in [Service -> Row]
  <1>1. /\ snap' = [snap EXCEPT ![s] = AbsentRow]
        /\ UNCHANGED <<load, pc, fired, updates>>
        /\ Scalable(snap[s]) /\ snap[s].status = "ACTIVE" /\ snap[s].config.enabled
    BY DEF Reading, Visited, Scalable
  <1>2. snap[s] \in Row /\ services[s] \in Row
    BY DEF Inv, TypeOK
  <1>3. ListingOK(s) /\ ConfigOK(services[s])
    BY DEF Inv
  <1>4. /\ services[s].status # "ABSENT"
        /\ snap[s].config = services[s].config
        /\ snap[s].since = services[s].since
        /\ services[s].since # Never /\ s \notin disturbed =>
               snap[s].replicas = services[s].replicas
        /\ validateAutoscaling(snap[s].config)
    BY <1>1, <1>3 DEF ListingOK, ConfigOK
  <1>5. /\ snap[s].config.required \in Nat /\ snap[s].config.required >= 1
        /\ snap[s].replicas \in Nat
    BY <1>1, <1>2, <1>4 DEF Row, Config, validateAutoscaling
  <1>6. AbsentRow \in Row
    BY DEF AbsentRow, Row, NoConfig, Config, Since, Never
  <1>7. /\ snap'[s] = AbsentRow
        /\ \A t \in Service \ {s} : snap'[t] = snap[t]
        /\ snap' \in [Service -> Row]
    BY <1>1, <1>6 DEF Inv, TypeOK
  <1> QED  BY <1>1, <1>2, <1>4, <1>5, <1>7 DEF AbsentRow

LEMMA HoldInv ==
    ASSUME Inv, NEW s \in Service, Hold(s)
    PROVE  Inv'
  <1>1. Reading(s)
    BY DEF Hold
  <1>2. /\ observations' = cleanupObservations
        /\ readings' = [readings EXCEPT ![s] = Smaller(@ + 1, snap[s].config.required)]
        /\ UNCHANGED <<services, ready, quiet, disturbed, hull, faults>>
    BY DEF Hold, Counted
  <1>3. readings[s] \in Nat /\ readings[s] <= snap[s].config.required
    BY <1>1, ReadingFacts DEF Inv, TypeOK, MemoryOK
  <1>4. /\ Smaller(readings[s] + 1, snap[s].config.required) \in Nat
        /\ Smaller(readings[s] + 1, snap[s].config.required) <= snap[s].config.required
        /\ Smaller(readings[s] + 1, snap[s].config.required) >= readings[s]
    BY <1>1, <1>3, ReadingFacts DEF Smaller
  <1>5. cleanupObservations \in [Service -> Observation]
    BY NumbersAssumption DEF cleanupObservations, Inv, TypeOK, NoObservation, Observation
  <1>6. TypeOK'
    BY <1>1, <1>2, <1>4, <1>5, ReadingFacts DEF Inv, TypeOK
  <1>7. ASSUME NEW t \in Service PROVE Part(t)'
    <2>0. observations'[t] \in {observations[t], NoObservation}
      BY <1>2, CleanedOrKept
    <2>1. CASE t # s
      <3>1. Same(t)
        BY <1>1, <1>2, <2>0, <2>1, ReadingFacts DEF Same, Inv, TypeOK
      <3> QED  BY <3>1, SameKept
    <2>2. CASE t = s
      <3>1. ConfigOK(services[s])' /\ HullOK(s)'
        BY <1>2 DEF Inv, ConfigOK, HullOK
      <3>2. ListingOK(s)'
        BY <1>1, ReadingFacts DEF ListingOK
      <3>3. readings'[s] = Smaller(readings[s] + 1, snap[s].config.required)
        BY <1>2 DEF Inv, TypeOK
      <3>4. observations[s].count \in Nat /\ observations'[s].count \in Nat
        BY <1>5, <1>2 DEF Inv, TypeOK, Observation
      <3>5. MemoryOK(s)'
        BY <1>1, <1>2, <1>3, <1>4, <2>0, <2>2, <3>3, <3>4, ReadingFacts
           DEF MemoryOK, Inv, NoObservation
      <3> QED  BY <2>2, <3>1, <3>2, <3>5 DEF Part
    <2> QED  BY <2>1, <2>2
  <1> QED  BY <1>6, <1>7 DEF Inv, Part

\* The entry a decision leaves for the service.
LEMMA DecidesFacts ==
    ASSUME Inv, NEW s \in Service, Decides(s)
    PROVE  /\ Reading(s)
           /\ Wanted(s) # snap[s].replicas /\ Wanted(s) \in Nat
           /\ observations' \in [Service -> Observation]
           /\ \A t \in Service \ {s} :
                 observations'[t] \in {observations[t], NoObservation}
           /\ snap[s].config.required <= 1 => observations'[s].count = 0
           /\ snap[s].config.required > 1 =>
                 /\ observations'[s] = Observed(cleanupObservations[s], Wanted(s),
                                                snap[s].config.required)
                 /\ observations'[s].desired = Wanted(s)
                 /\ observations'[s].count <= snap[s].config.required
                 /\ services[s].since # Never /\ s \notin disturbed =>
                       observations'[s].count <= readings[s] + 1
  <1>1. Reading(s) /\ Wanted(s) # snap[s].replicas /\ Wanted(s) \in Nat
    BY ReadingFacts, WantedBetween DEF Decides, Reading
  <1>2. cleanupObservations \in [Service -> Observation]
    BY NumbersAssumption DEF cleanupObservations, Inv, TypeOK, NoObservation, Observation
  <1> DEFINE seen == cleanupObservations[s]
             required == snap[s].config.required
             entry == Observed(seen, Wanted(s), required)
  <1>3. seen \in Observation /\ seen.count \in Nat /\ seen \in {observations[s], NoObservation}
    BY <1>2, CleanedOrKept DEF Observation
  <1>4. required \in Nat /\ required >= 1
    BY <1>1, ReadingFacts
  <1>5. seen.count <= required
    BY <1>1, <1>3, <1>4, ReadingFacts DEF Inv, MemoryOK, NoObservation
  <1>6. entry \in Observation /\ entry.desired = Wanted(s) /\ entry.count <= required
    <2> HIDE DEF seen, required
    <2> QED  BY <1>1, <1>3, <1>4, <1>5, NumbersAssumption DEF Observed, Observation
  <1>7. ASSUME services[s].since # Never, s \notin disturbed
        PROVE  entry.count <= readings[s] + 1
    <2>1. snap[s].replicas = services[s].replicas /\ readings[s] \in Nat
      BY <1>1, <1>7, ReadingFacts DEF Inv, TypeOK
    <2>2. seen.count = 0 \/ seen.desired # Wanted(s) \/ seen.count <= readings[s]
      BY <1>1, <1>3, <1>7, <2>1 DEF Inv, MemoryOK, NoObservation
    <2> HIDE DEF seen, required
    <2> QED  BY <1>3, <1>4, <2>1, <2>2 DEF Observed
  <1>8. CASE required <= 1
    <2>1. observations' = cleanupObservations
      BY <1>8 DEF Decides
    <2>2. observations[s].count = 0
      BY <1>1, <1>8, ReadingFacts DEF Inv, MemoryOK
    <2> QED  BY <1>1, <1>2, <1>3, <1>4, <1>8, <2>1, <2>2, CleanedOrKept DEF NoObservation
  <1>9. CASE required > 1
    <2>1. observations' = [cleanupObservations EXCEPT ![s] = entry]
      BY <1>2, <1>4, <1>9 DEF Decides
    <2>2. observations'[s] = entry /\ observations' \in [Service -> Observation]
      BY <1>2, <1>6, <2>1
    <2>3. \A t \in Service \ {s} : observations'[t] \in {observations[t], NoObservation}
      BY <1>2, <2>1, CleanedOrKept
    <2> QED  BY <1>1, <1>4, <1>6, <1>7, <1>9, <2>2, <2>3
  <1> QED  BY <1>4, <1>8, <1>9

LEMMA ObserveInv ==
    ASSUME Inv, NEW s \in Service, Observe(s) \/ ScaleFails(s)
    PROVE  Inv'
  <1>1. /\ Decides(s)
        /\ readings' = [readings EXCEPT ![s] = Smaller(@ + 1, snap[s].config.required)]
        /\ UNCHANGED <<services, ready, quiet, disturbed, hull>>
    BY DEF Observe, ScaleFails, Counted
  <1>2. Reading(s)
    BY <1>1, DecidesFacts
  <1>3. faults' \in 0..MaxFaults
    BY NumbersAssumption DEF Inv, TypeOK, Observe, ScaleFails, Fault
  <1>4. /\ readings[s] \in Nat /\ readings[s] <= snap[s].config.required
        /\ snap[s].config.required \in Nat /\ snap[s].config.required >= 1
        /\ snap[s].config = services[s].config
    BY <1>2, ReadingFacts DEF Inv, TypeOK, MemoryOK
  <1> DEFINE more == Smaller(readings[s] + 1, snap[s].config.required)
  <1>5. /\ more \in Nat /\ more <= snap[s].config.required
        /\ \A k \in Nat : k <= snap[s].config.required /\ k <= readings[s] + 1 => k <= more
    BY <1>4 DEF Smaller
  <1>6. readings'[s] = more
    BY <1>1 DEF Inv, TypeOK
  <1>7. TypeOK'
    BY <1>1, <1>2, <1>3, <1>5, ReadingFacts, DecidesFacts DEF Inv, TypeOK
  <1> HIDE DEF more
  <1>8. ASSUME NEW t \in Service PROVE Part(t)'
    <2>1. CASE t # s
      <3>1. Same(t)
        BY <1>1, <1>2, <2>1, ReadingFacts, DecidesFacts DEF Same, Inv, TypeOK
      <3> QED  BY <3>1, SameKept
    <2>2. CASE t = s
      <3>1. ConfigOK(services[s])' /\ HullOK(s)'
        BY <1>1 DEF Inv, ConfigOK, HullOK
      <3>2. ListingOK(s)'
        BY <1>2, ReadingFacts DEF ListingOK
      <3>3. observations'[s].count \in Nat
        BY <1>7 DEF TypeOK, Observation
      <3>4. /\ services'[s].status # "ABSENT"
            /\ services'[s].since # Never => quiet'[s] = services'[s].since
        BY <1>1, <1>2, ReadingFacts DEF Inv, MemoryOK
      <3>5. /\ services'[s].config.required <= 1 => observations'[s].count = 0
            /\ observations'[s].count <= services'[s].config.required
            /\ readings'[s] <= services'[s].config.required
        BY <1>1, <1>4, <1>5, <1>6, <3>3, DecidesFacts
      <3>6. services'[s].since # Never /\ s \notin disturbed' =>
                observations'[s].count <= readings'[s]
        BY <1>1, <1>4, <1>5, <1>6, <3>3, DecidesFacts
      <3> QED  BY <2>2, <3>1, <3>2, <3>4, <3>5, <3>6 DEF Part, MemoryOK
    <2> QED  BY <2>1, <2>2
  <1> QED  BY <1>7, <1>8 DEF Inv, Part

LEMMA ScaleInv ==
    ASSUME Inv, NEW s \in Service, Scale(s)
    PROVE  Inv'
  <1> DEFINE row == [services[s] EXCEPT !.replicas = Wanted(s), !.since = 0]
  <1>1. /\ Decides(s)
        /\ ready' \in {ready, ready \ {s}}
        /\ quiet' = [quiet EXCEPT ![s] = 0]
        /\ readings' = [readings EXCEPT ![s] = 0]
        /\ disturbed' = disturbed \ {s}
        /\ UNCHANGED <<hull, faults>>
    BY DEF Scale
  <1>2. Reading(s) /\ Wanted(s) \in Nat
    BY <1>1, DecidesFacts
  <1>3. /\ services[s] \in Row /\ services[s].status # "ABSENT"
        /\ snap[s].config = services[s].config
        /\ snap[s].config.required \in Nat
        /\ Wanted(s) \in hull[s].lo..hull[s].hi
    BY <1>2, ReadingFacts, WantedBetween
  <1>4. /\ row \in Row /\ row.status = services[s].status
        /\ row.config = services[s].config /\ row.req = services[s].req
        /\ row.replicas = Wanted(s) /\ row.since = 0
    BY <1>2, <1>3, SinceFacts DEF Row
  <1>5. services' = [services EXCEPT ![s] = row]
    BY DEF Scale, UpdateDesiredReplicas, Inv, TypeOK
  <1> HIDE DEF row
  <1>6. TypeOK'
    BY <1>1, <1>2, <1>4, <1>5, ReadingFacts, DecidesFacts, NumbersAssumption
       DEF Inv, TypeOK
  <1>7. ASSUME NEW t \in Service PROVE Part(t)'
    <2>1. CASE t # s
      <3>1. Same(t)
        BY <1>1, <1>2, <1>5, <2>1, ReadingFacts, DecidesFacts DEF Same, Inv, TypeOK
      <3> QED  BY <3>1, SameKept
    <2>2. CASE t = s
      <3>1. services'[s] = row /\ quiet'[s] = 0 /\ readings'[s] = 0
        BY <1>1, <1>5 DEF Inv, TypeOK
      <3>2. ConfigOK(services[s])' /\ HullOK(s)'
        BY <1>1, <1>3, <1>4, <3>1 DEF Inv, ConfigOK, HullOK
      <3>3. ListingOK(s)'
        BY <1>2, ReadingFacts DEF ListingOK
      <3>4. observations'[s].count \in Nat
        BY <1>6 DEF TypeOK, Observation
      <3>5. MemoryOK(s)'
        BY <1>1, <1>3, <1>4, <3>1, <3>4, DecidesFacts DEF MemoryOK
      <3> QED  BY <2>2, <3>2, <3>3, <3>5 DEF Part
    <2> QED  BY <2>1, <2>2
  <1> QED  BY <1>6, <1>7 DEF Inv, Part

LEMMA RestartInv ==
    ASSUME Inv, Restart
    PROVE  Inv'
  <1>1. AbsentRow \in Row /\ NoObservation \in Observation
    BY NumbersAssumption DEF AbsentRow, Row, NoConfig, Config, Since, Never,
                             NoObservation, Observation
  <1>2. /\ pc' = "waiting" /\ fired' = FALSE
        /\ snap' = [t \in Service |-> AbsentRow]
        /\ observations' = [t \in Service |-> NoObservation]
        /\ faults' = faults + 1 /\ faults < MaxFaults
        /\ UNCHANGED <<services, ready, load, history, updates>>
    BY DEF Restart, Fault
  <1>3. TypeOK'
    <2>1. faults' \in 0..MaxFaults
      BY <1>2, NumbersAssumption DEF Inv, TypeOK
    <2>2. snap' \in [Service -> Row] /\ observations' \in [Service -> Observation]
      BY <1>1, <1>2
    <2> QED  BY <1>2, <2>1, <2>2 DEF Inv, TypeOK, history
  <1> QED  BY <1>2, <1>3, StutterInv

LEMMA TickInv ==
    ASSUME Inv, Tick
    PROVE  Inv'
  <1>1. /\ services' = LastScaledAged(services) /\ snap' = LastScaledAged(snap)
        /\ quiet' = [t \in Service |-> Smaller(quiet[t] + 1, MaxCooldown)]
        /\ fired' = TRUE
        /\ UNCHANGED <<ready, load, pc, readings, disturbed, hull, updates, faults>>
    BY DEF Tick
  <1>2. ASSUME NEW row \in Row
        PROVE  /\ [row EXCEPT !.since = Longer(@)] \in Row
               /\ [row EXCEPT !.since = Longer(@)].since = Longer(row.since)
               /\ \A f \in {"status", "deployment", "replicas", "req", "config"} :
                     [row EXCEPT !.since = Longer(@)][f] = row[f]
    <2>1. Longer(row.since) \in Since
      BY SinceFacts DEF Row
    <2> QED  BY <2>1 DEF Row
  <1>3. ASSUME NEW t \in Service
        PROVE  /\ services'[t] = [services[t] EXCEPT !.since = Longer(@)]
               /\ snap'[t] = [snap[t] EXCEPT !.since = Longer(@)]
               /\ services[t] \in Row /\ snap[t] \in Row
    BY <1>1 DEF LastScaledAged, Inv, TypeOK
  <1>4. ASSUME NEW t \in Service
        PROVE  /\ observations'[t].desired = observations[t].desired
               /\ observations'[t].count = observations[t].count
               /\ observations'[t] \in Observation
    BY NumbersAssumption DEF Tick, Inv, TypeOK, Observation, Smaller
  <1>5. observations' \in [Service -> Observation]
    BY <1>4 DEF Tick
  <1>6. services' \in [Service -> Row] /\ snap' \in [Service -> Row]
    BY <1>1, <1>2 DEF LastScaledAged, Inv, TypeOK
  <1>7. quiet' \in [Service -> 0..MaxCooldown]
    BY <1>1, NumbersAssumption DEF Inv, TypeOK, Smaller
  <1>8. TypeOK'
    BY <1>1, <1>5, <1>6, <1>7 DEF Inv, TypeOK
  <1>9. ASSUME NEW t \in Service PROVE Part(t)'
    <2>1. /\ services'[t].status = services[t].status
          /\ services'[t].config = services[t].config
          /\ services'[t].req = services[t].req
          /\ services'[t].replicas = services[t].replicas
          /\ services'[t].since = Longer(services[t].since)
          /\ snap'[t].status = snap[t].status
          /\ snap'[t].config = snap[t].config
          /\ snap'[t].req = snap[t].req
          /\ snap'[t].replicas = snap[t].replicas
          /\ snap'[t].since = Longer(snap[t].since)
      BY <1>2, <1>3
    <2>2. Longer(services[t].since) # Never <=> services[t].since # Never
      BY <1>3, SinceFacts DEF Row
    <2>3. ConfigOK(services[t])' /\ HullOK(t)'
      BY <1>1, <2>1 DEF Inv, ConfigOK, HullOK
    <2>4. ListingOK(t)'
      BY <1>1, <2>1, <2>2 DEF Inv, ListingOK
    <2>5. services'[t].status = "ABSENT" => services'[t] = AbsentRow
      <3> SUFFICES ASSUME services'[t].status = "ABSENT" PROVE services'[t] = AbsentRow
        OBVIOUS
      <3>1. services[t] = AbsentRow
        BY <2>1 DEF Inv, MemoryOK
      <3>2. Longer(AbsentRow.since) = Never
        BY DEF Longer, AbsentRow
      <3>3. services'[t] = [AbsentRow EXCEPT !.since = Never]
        BY <1>3, <3>1, <3>2
      <3> QED  BY <3>3 DEF AbsentRow
    <2>6. services'[t].since # Never => quiet'[t] = services'[t].since
      BY <1>1, <1>3, <2>1, <2>2 DEF Inv, MemoryOK, Longer
    <2>7. MemoryOK(t)'
      BY <1>1, <1>4, <2>1, <2>2, <2>5, <2>6 DEF Inv, MemoryOK
    <2> QED  BY <2>3, <2>4, <2>7 DEF Part
  <1> QED  BY <1>8, <1>9 DEF Inv, Part

-----------------------------------------------------------------------------
(* The theorems.                                                           *)

LEMMA NextInv ==
    ASSUME Inv, [Next]_vars
    PROVE  Inv'
  <1>0. Fault => faults' \in 0..MaxFaults
    BY NumbersAssumption DEF Inv, TypeOK, Fault
  <1>1. CASE Tick
    BY <1>1, TickInv
  <1>2. CASE Restart
    BY <1>2, RestartInv
  <1>3. CASE ListServices
    BY <1>3, ListServicesInv
  <1>4. CASE CycleDone
    <2>1. TypeOK'
      BY <1>4 DEF CycleDone, Inv, TypeOK, history
    <2> QED  BY <1>4, <2>1, StutterInv DEF CycleDone
  <1>5. CASE ListFails
    <2>1. TypeOK'
      BY <1>0, <1>5 DEF ListFails, Inv, TypeOK, history
    <2> QED  BY <1>5, <2>1, StutterInv DEF ListFails
  <1>6. ASSUME NEW s \in Service, Visit(s) PROVE Inv'
    BY <1>6, QuietVisitInv, HoldInv, ObserveInv, ScaleInv DEF Visit
  <1>7. ASSUME NEW s \in Service, Client(s) PROVE Inv'
    <2>1. CASE deleteService(s)
      <3>1. services' = [services EXCEPT ![s].status = "DELETING",
                                         ![s].deployment = services[s].deployment]
        BY <2>1 DEF deleteService, Inv, TypeOK, Row
      <3>2. services[s].deployment \in {"AVAILABLE", "PROGRESSING", "FAILED"}
        BY DEF Inv, TypeOK, Row
      <3> QED  BY <2>1, <3>1, <3>2, StatusInv DEF deleteService, Inv, TypeOK
    <2> QED  BY <1>7, <2>1, createServiceInv, updateServiceInv DEF Client
  <1>8. ASSUME NEW s \in Service, NEW status \in {"AVAILABLE", "PROGRESSING", "FAILED"},
               StatusWritten(s, status), faults' \in 0..MaxFaults
        PROVE  Inv'
    <2>1. services' = [services EXCEPT ![s].status = "ACTIVE", ![s].deployment = status]
      BY <1>8 DEF StatusWritten, Inv, TypeOK, Row
    <2> QED  BY <1>8, <2>1, StatusInv DEF StatusWritten
  <1>9. ASSUME NEW s \in Service, Environment(s) PROVE Inv'
    <2>1. CASE WorkloadLost(s)
      <3>1. TypeOK'
        BY <1>0, <2>1 DEF WorkloadLost, Inv, TypeOK, memory, history
      <3> QED  BY <2>1, <3>1, StutterInv DEF WorkloadLost, memory
    <2>2. CASE DeploymentFails(s)
      BY <1>0, <1>8, <2>2 DEF DeploymentFails
    <2>3. CASE DeletionDone(s)
      <3>1. services' = [services EXCEPT ![s].status = "DELETED",
                                         ![s].deployment = services[s].deployment]
        BY <2>3 DEF DeletionDone, Inv, TypeOK, Row
      <3>2. services[s].deployment \in {"AVAILABLE", "PROGRESSING", "FAILED"}
        BY DEF Inv, TypeOK, Row
      <3> QED  BY <2>3, <3>1, <3>2, StatusInv DEF DeletionDone, Inv, TypeOK
    <2>4. ASSUME NEW l \in Loads, LoadChanges(s, l) PROVE Inv'
      <3>1. TypeOK'
        BY <2>4 DEF LoadChanges, Inv, TypeOK, memory, history
      <3> QED  BY <2>4, <3>1, StutterInv DEF LoadChanges, memory
    <2> QED  BY <1>9, <2>1, <2>2, <2>3, <2>4 DEF Environment
  <1>10. ASSUME NEW s \in Service, WorkloadsReady(s) PROVE Inv'
    <2>1. TypeOK'
      BY <1>10 DEF WorkloadsReady, Inv, TypeOK, memory, history
    <2> QED  BY <1>10, <2>1, StutterInv DEF WorkloadsReady, memory
  <1>11. ASSUME NEW s \in Service, DeploymentStatus(s) PROVE Inv'
    BY <1>8, <1>11 DEF DeploymentStatus, Inv, TypeOK
  <1>12. CASE UNCHANGED vars
    <2>1. TypeOK'
      BY <1>12 DEF vars, Inv, TypeOK, memory, history
    <2> QED  BY <1>12, <2>1, StutterInv DEF vars, memory
  <1> QED
    BY <1>1, <1>2, <1>3, <1>4, <1>5, <1>6, <1>7, <1>9, <1>10, <1>11, <1>12
       DEF Next, Loop

\* The inductive invariant is one.
LEMMA InvHolds == Spec => []Inv
  <1>1. Init => Inv
    BY InitInv
  <1>2. Inv /\ [Next]_vars => Inv'
    BY NextInv
  <1> QED  BY <1>1, <1>2, PTL DEF Spec

\* Every variable of the autoscaler keeps its type: counts stay natural
\* numbers, ages and counters within their limits.
THEOREM TypeCorrect == Spec => []TypeOK
  <1>1. Inv => TypeOK
    BY DEF Inv
  <1> QED  BY <1>1, InvHolds, PTL

\* A replica count never leaves the range of the configured bounds and of what
\* clients have asked for, whatever row limitScaleStep worked from.
THEOREM StaysBetween == Spec => []BetweenAskedAndBounds
  <1>1. Inv => BetweenAskedAndBounds
    <2> SUFFICES ASSUME Inv, NEW s \in Service, services[s].config.enabled
                 PROVE  services[s].replicas \in hull[s].lo..hull[s].hi
      BY DEF BetweenAskedAndBounds
    <2>1. services[s].status # "ABSENT"
      BY DEF Inv, MemoryOK, AbsentRow, NoConfig
    <2> QED  BY <2>1 DEF Inv, HullOK
  <1> QED  BY <1>1, InvHolds, PTL

\* A write to a row that no client has disturbed since the last one.
LEMMA SteadyStep ==
    ASSUME Inv, NEW s \in Service, Scale(s),
           services[s].since # Never, s \notin disturbed
    PROVE  /\ readings[s] + 1 >= services[s].config.required
           /\ quiet[s] >= IF services'[s].replicas > services[s].replicas
                          THEN services[s].config.up
                          ELSE services[s].config.down
  <1>1. /\ Decides(s) /\ Stable(s) /\ ~cooldownActive(snap[s], Wanted(s))
        /\ UpdateDesiredReplicas(s, Wanted(s))
    BY DEF Scale, Decides
  <1>2. Reading(s) /\ Wanted(s) # snap[s].replicas /\ Wanted(s) \in Nat
    BY <1>1, DecidesFacts
  <1>3. /\ snap[s].config = services[s].config
        /\ snap[s].since = services[s].since
        /\ snap[s].replicas = services[s].replicas /\ services[s].replicas \in Nat
        /\ services[s].config.required \in Nat
        /\ services[s] \in Row
    BY <1>2, ReadingFacts
  <1>4. readings[s] + 1 >= services[s].config.required
    <2>1. readings[s] \in Nat
      BY DEF Inv, TypeOK
    <2>2. CASE services[s].config.required <= 1
      BY <1>3, <2>1, <2>2
    <2>3. CASE services[s].config.required > 1
      <3>1. observations'[s].count >= services[s].config.required
        BY <1>1, <1>3, <2>3, DecidesFacts DEF Stable, stableObservation
      <3>2. observations'[s].count <= readings[s] + 1
        BY <1>1, <1>3, <2>3, DecidesFacts
      <3>3. observations'[s].count \in Nat
        BY <1>1, DecidesFacts DEF Observation
      <3> QED  BY <1>3, <2>1, <3>1, <3>2, <3>3
    <2> QED  BY <1>3, <2>2, <2>3
  <1>5. services'[s].replicas = Wanted(s)
    BY <1>1, <1>3 DEF UpdateDesiredReplicas, Inv, TypeOK, Row
  <1>6. quiet[s] = services[s].since /\ services[s].since \in 0..MaxCooldown
    BY <1>3 DEF Inv, MemoryOK, Row, Since
  <1>7. services[s].config.up \in Nat /\ services[s].config.down \in Nat
    BY <1>3 DEF Row, Config
  <1> QED
    BY <1>1, <1>2, <1>3, <1>4, <1>5, <1>6, <1>7, NumbersAssumption DEF cooldownActive

\* Undisturbed, UpdateDesiredReplicas is called twice for a service only with
\* the readings and the cooldown of its configuration in between.
THEOREM ScalesSteadily == Spec => SteadyScaling
  <1> DEFINE Steady(s) ==
          Scale(s) /\ services[s].since # Never /\ s \notin disturbed =>
              /\ readings[s] + 1 >= services[s].config.required
              /\ quiet[s] >= IF services'[s].replicas > services[s].replicas
                             THEN services[s].config.up
                             ELSE services[s].config.down
  <1>1. Inv => \A s \in Service : Steady(s)
    BY SteadyStep
  <1>2. Inv => [\A s \in Service : Steady(s)]_vars
    BY <1>1
  <1> QED  BY <1>2, InvHolds, PTL DEF SteadyScaling

=============================================================================
