---------------------------- MODULE MCReconciler ---------------------------
(* Small instances of Reconciler for TLC.                                  *)
EXTENDS Claims

Unit == [cpu |-> 1, mem |-> 1]

\* Room for one workload, and for two.
OneSlot == {[cpu |-> 1, mem |-> 1]}
TwoSlots == {[cpu |-> 2, mem |-> 2]}
OneOrTwoSlots == OneSlot \cup TwoSlots

UnitRequests == {Unit}

SurgeOne == {[surge |-> 1, unavailable |-> 0]}
UnavailableOne == {[surge |-> 0, unavailable |-> 1]}
AllStrategies == SurgeOne \cup UnavailableOne

\* Shares rounded to eighths.
MCFloatShares(free, cap) ==
    LET share(a, b) == (16 * a + b) \div (2 * b)
    IN  share(free.cpu, cap.cpu) + share(free.mem, cap.mem)

Symmetry == Permutations(Workload) \cup Permutations(Node)
=============================================================================
