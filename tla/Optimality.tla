----------------------------- MODULE Optimality -----------------------------
(***************************************************************************)
(* The search next to the schedules it chooses from: first the search runs *)
(* to its end (module Search), then any path of nodes is taken from the    *)
(* same root (module NodePath), without the restrictions by which          *)
(* DefaultExpander and the cost function save work.                        *)
(***************************************************************************)
EXTENDS PathResult

CONSTANT Configurations         \* the ways to set up the mapper

VARIABLES config, queue, records, dead, pushed, oldNodes, best, status, result

Run == INSTANCE Mapper

pathVars == <<node, pending, offered, priced>>
allVars == <<pathVars, Run!searchVars>>

OptimalityInit ==
    /\ env \in Environments
    /\ config \in Configurations
    /\ node \in Run!SearchRoots
    /\ pending = <<>>
    /\ offered = {}
    /\ priced = FALSE
    /\ Run!StartWith(node)

SearchStep == Run!Next /\ UNCHANGED pathVars

(* The path to entry e, from its first cost on, has been through search    *)
(* cycles, which come before cycle -1.                                     *)
CycleOfCost(e, j) == e.node.cycle - Len(e.costs) + j
HasSearched(e) == CycleOfCost(e, 1) < -1

(* A path is followed as long as it can be shorter than the result, and if *)
(* the result is meant to be the shortest one: costs in search cycles are  *)
(* no lower bounds.                                                        *)
PathStep ==
    /\ status = "returned"
    /\ ~HasSearched(best)
    /\ node.cycle < Run!Cost(best)
    /\ Next
    /\ UNCHANGED <<config, queue, records, dead, pushed, oldNodes, best, status, result>>

OptimalityNext == SearchStep \/ PathStep

OptimalitySpec ==
    OptimalityInit /\ [][OptimalityNext]_allVars /\ Run!Fairness

-----------------------------------------------------------------------------
EndOfSchedule(n) ==
    CHOOSE end \in {0} \cup {EndOf(n.scheduled[i]) : i \in DOMAIN n.scheduled} :
        \A i \in DOMAIN n.scheduled : EndOf(n.scheduled[i]) <= end

(* The cost of the final node is the cycle in which its schedule ends.     *)
CostIsEnd ==
    status \in {"found", "returned"} => Run!Cost(best) = EndOfSchedule(best.node)

(* No other schedule of the circuit from the same root ends earlier,       *)
(* whatever swaps it starts and gates it delays, and although the filters  *)
(* have dropped nodes; without search cycles, for which costs are no lower *)
(* bounds.                                                                 *)
ResultIsShortest ==
    status = "returned" /\ IsFinal => EndOfSchedule(node) >= Run!Cost(best)

(* The cost of a node is a lower bound: no final node below it has a lower *)
(* one. The costs computed in search cycles, as if they were cycle 0, are  *)
(* not considered.                                                         *)
CostsAreLowerBounds ==
    \A i \in DOMAIN queue : LET e == queue[i] IN
        Run!IsFinalNode(e.node) =>
            \A j \in DOMAIN e.costs :
                CycleOfCost(e, j) >= 0 \/ (j = 1 /\ ~HasSearched(e)) => e.costs[j] <= Run!Cost(e)

(* No assertion of scheduleGate or pop fails while run searches, although  *)
(* earlier calls on the same child may have moved the qubits of a gate.    *)
NeverAborts == Run!NeverAborts

(* run keeps its promise: sooner or later it returns a correct result.     *)
ImplementsMapping == Run!ImplementsMapping
=============================================================================
