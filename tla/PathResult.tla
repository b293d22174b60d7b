----------------------------- MODULE PathResult -----------------------------
(***************************************************************************)
(* The result that run would return for any path through the search tree   *)
(* that ends in a final node.                                              *)
(***************************************************************************)
EXTENDS NodePath, Result

(* The last node of a path is final when no gate is left to schedule.      *)
IsFinal == Idle /\ node.readyGates = {}
PathResult == ResultOf(node, gates)

(* The backward walk inverts any path: replayed from the inferred layout,  *)
(* every gate of the result finds its logical qubits, and the replay ends  *)
(* in the final layout that the result reports.                            *)
ReplayIsFaithful == IsFinal => IsFaithful(gates, PathResult)

(* The inferred layout is one and has a place for every qubit the circuit  *)
(* uses, also for those that no two-qubit gate has placed; the final       *)
(* layout has a place at least for the others.                             *)
InferredLayoutIsComplete == IsFinal => IsComplete(gates, PathResult)

(* The result holds every gate of the circuit exactly once, and the gates  *)
(* on each qubit in the order of the circuit.                              *)
OrderIsPreserved == IsFinal => IsInOrder(gates, PathResult)

(* The qubits a gate of latency 1 or more occupies in the result, also the *)
(* ones the walk has chosen afterwards, are not occupied by another gate   *)
(* at the same time.                                                       *)
ResultHasNoOverlap == IsFinal => HasNoOverlap(PathResult.scheduledGates)

=============================================================================
