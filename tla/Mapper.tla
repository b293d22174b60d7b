------------------------------- MODULE Mapper -------------------------------
(***************************************************************************)
(* The search as an implementation of Mapping, and what holds of the       *)
(* search whatever the configuration.                                      *)
(***************************************************************************)
EXTENDS Search

Outcome ==
    CASE status \in {"searching", "found", "aborted"} -> Searching
      [] status = "failed" -> Failure
      [] status = "returned" -> Success(result)

Promise == INSTANCE Mapping WITH circuit <- env, outcome <- Outcome,
               swapsAllowed <- config.expander # "NoSwaps"

(* What run takes for granted and does not check: an init_qal names every  *)
(* logical qubit once and nothing else, no gate of a circuit is taken for  *)
(* a swap, and NoSwaps clears all of the root's layout.                    *)
CompleteLayouts ==
    \A e \in Environments : \A layout \in InitialLayouts(e.numLogical) :
        layout = NoLayout \/ IsCompleteLayout(e.numLogical, layout)

NoCircuitSwaps ==
    \A e \in Environments : \A g \in 1..Len(e.gates) : ~IsSwapName(e.gates[g].name)

ClearedByNoSwaps ==
    \A c \in Configurations : c.expander = "NoSwaps" =>
        /\ ~c.greedyMapper
        /\ \A e \in Environments : \A layout \in InitialLayouts(e.numLogical) :
              layout = NoLayout \/ \A x \in Physical : x >= e.numLogical => layout[x] = Unmapped

(* run keeps its promise in every configuration.                           *)
ImplementsMapping == Promise!Spec

(* No assertion fails while run searches.                                  *)
NeverAborts == status # "aborted"

(* The main loop never finds the queue empty, which makes run throw "No    *)
(* mapping found"; only NoSwaps may leave it so.                           *)
QueueNeverEmpty ==
    config.expander # "NoSwaps" /\ status = "searching" => queue # <<>>

(* Every node that is found is one of those that NodePath describes, after *)
(* any calls of any expander and layout module: its layout is one, its     *)
(* ready gates are the frontier of the circuit, no gate is forgotten, and  *)
(* gates do not overlap.                                                   *)
IsSound(n) ==
    LET scheduled == {n.scheduled[i].gate : i \in DOMAIN n.scheduled}
    IN  /\ IsLayout(n.qal, n.laq)
        /\ n.readyGates = FrontierOf(env.gates, scheduled)
        /\ n.numUnscheduledGates = Cardinality(DOMAIN env.gates \ scheduled)
        /\ HasNoOverlap(n.scheduled)

NodesAreSound == \A i \in DOMAIN queue : IsSound(queue[i].node)

(* What run returns is a correct implementation of the circuit: with swaps *)
(* that put the qubits where the gates expect them, all gates, and the     *)
(* gates of each qubit in order. If the mapper starts from a fixed layout, *)
(* gates also wait for each other, and do not overlap; otherwise one-qubit *)
(* gates on qubits without a place may.                                    *)
StartsFixed(c) == c.expander # "NoSwaps" /\ ~c.greedyMapper

ResultIsCorrect ==
    status = "returned" =>
        /\ IsFaithful(env.gates, result)
        /\ IsComplete(env.gates, result)
        /\ IsInOrder(env.gates, result)
        /\ IsOnCouplings(result)
        /\ StartsFixed(config) =>
              IsInTime(env.gates, result) /\ HasNoOverlap(result.scheduledGates)

IdsOf(entries) == {entries[i].id : i \in DOMAIN entries}

(* The filters only remember nodes that could still be found: those in the *)
(* queue, and popped ones that are retained.                               *)
RecordsAreLive ==
    config.retainPopped > 0 =>
        \A f \in FilterNames : \A key \in DOMAIN records[f] :
            IdsOf(records[f][key]) \subseteq IdsOf(queue) \cup IdsOf(oldNodes)

(* A node is only given up for another one that goes on from the same      *)
(* layout no later, and is itself in the queue.                            *)
OnlyReplacedNodesDie ==
    [][\A i \in DOMAIN queue :
            LET old == queue[i]
            IN  old.id \in dead' \ dead =>
                    \E j \in DOMAIN queue' :
                        LET new == queue'[j]
                        IN  /\ new.id > pushed
                            /\ new.id \notin dead'
                            /\ new.node.laq = old.node.laq
                            /\ new.node.cycle <= old.node.cycle]_searchVars

(* What NoSwaps finds ends as early as the circuit allows: in the cycle in *)
(* which its longest chain of gates ends.                                  *)
IdealIsReached ==
    config.expander = "NoSwaps" /\ status = "returned" =>
        LET s == result.scheduledGates
        IN  Max({0} \cup {EndOf(s[i]) : i \in DOMAIN s})
                = Max({0} \cup {env.gates[g].criticality + env.gates[g].optimisticLatency :
                                    g \in DOMAIN env.gates})

=============================================================================
