----------------------------- MODULE Scheduler -----------------------------
(***************************************************************************)
(* internal/scheduler: which node a pending workload is placed on.         *)
(*                                                                         *)
(* The score of a node is the share of its CPU plus the share of its       *)
(* memory that stays free once the workload is placed, in float64: each    *)
(* share and their sum are rounded.  What rounding does is a parameter:    *)
(* equal sums of shares may be told apart, and unequal ones may not.       *)
(***************************************************************************)
EXTENDS Store, SequencesExt

\* FloatShares(free, cap): the float64 that free.cpu / cap.cpu + free.mem / cap.mem
\* comes to, as its place among the floats.
CONSTANT FloatShares(_, _)

\* Mutant of Schedulable: a node must have more than was asked for.
SchedulableStrict(req, node) ==
    /\ node.status = "READY"
    /\ node.cap.cpu - node.alloc.cpu > req.cpu
    /\ node.cap.mem - node.alloc.mem > req.mem

Schedulable(req, node) == node.status = "READY" /\ Fits(req, node)

\* What stays free on a node once the workload is placed.
FreeAfter(req, node) == [cpu |-> node.cap.cpu - node.alloc.cpu - req.cpu,
                         mem |-> node.cap.mem - node.alloc.mem - req.mem]

scoreNode(req, node) == FloatShares(FreeAfter(req, node), node.cap)

\* Mutant of Better: the fullest node wins.
BetterReversed(a, b) == a < b

Better(a, b) == a > b

-----------------------------------------------------------------------------
(* The algorithm of the code, on a list of the ids of nodes.               *)

FilterNodes(req, list) ==
    FoldLeft(LAMBDA kept, n : IF Schedulable(req, nodes[n]) THEN Append(kept, n) ELSE kept,
             <<>>, list)

\* Mutant of SelectBestNode: an equally good node replaces the best one.
SelectLastBestNode(req, list) ==
    FoldLeft(LAMBDA best, n :
                 IF Better(scoreNode(req, nodes[best]), scoreNode(req, nodes[n]))
                 THEN best ELSE n,
             Head(list), list)

\* Keep the first node seen, replace it by a strictly better one only.
SelectBestNode(req, list) ==
    FoldLeft(LAMBDA best, n :
                 IF Better(scoreNode(req, nodes[n]), scoreNode(req, nodes[best]))
                 THEN n ELSE best,
             Head(list), list)

\* Null when there is "no suitable node".
Schedule(req, list) ==
    LET candidates == FilterNodes(req, list)
    IN  IF candidates = <<>> THEN Null ELSE SelectBestNode(req, candidates)

-----------------------------------------------------------------------------
(* What the algorithm promises: a schedulable node no other one beats.     *)

BestNodes(req) ==
    LET candidates == {n \in Node : Schedulable(req, nodes[n])}
    IN  {n \in candidates : \A m \in candidates :
            ~Better(scoreNode(req, nodes[m]), scoreNode(req, nodes[n]))}
=============================================================================
