------------------------ MODULE MCSchedulerService -------------------------
(* A small cluster for TLC: three nodes, four workloads, uneven sizes.     *)
EXTENDS SchedulerService

MCIds == <<1, 2, 3>>

MCCapacities == {[cpu |-> 2, mem |-> 3], [cpu |-> 4, mem |-> 2], [cpu |-> 3, mem |-> 3]}

\* Shares rounded to eighths.  1/3 + 1/3 and 0 + 2/3 differ then, 1/3 + 1/3 and
\* 3/4 + 0 do not.
MCFloatShares(free, cap) ==
    LET share(a, b) == (16 * a + b) \div (2 * b)
    IN  share(free.cpu, cap.cpu) + share(free.mem, cap.mem)

MCRequests == {[cpu |-> 1, mem |-> 1], [cpu |-> 2, mem |-> 1], [cpu |-> 1, mem |-> 2]}
=============================================================================
