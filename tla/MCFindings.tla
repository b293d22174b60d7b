----------------------------- MODULE MCFindings -----------------------------
(* Circuits and latencies on which the code does something else than its   *)
(* comments say, and circuits with a gate that is called swap.             *)
EXTENDS PathResult, MCNodePath

MCSwap(c, t) == [name |-> "swap", control |-> c, target |-> t]

(* Gates called swap in the circuit: next to each other, between other     *)
(* gates, and on qubits that other gates use at the same time.             *)
MCSwapCircuits == {EnvironmentOf(p) : p \in {
    <<MCSwap(0, 1)>>,
    <<CX(0, 1), MCSwap(1, 2), RZ(2)>>,
    <<U(0), CX(1, 2), MCSwap(0, 1), MCSwap(2, 1), CX(0, 1)>> }}

(* One-qubit gates of latency 2 before a two-qubit gate.                   *)
MCSlowLatency(name, target, control) ==
    IF name = "u" THEN 2 ELSE MCLatency(name, target, control)
MCSlowCircuits == {EnvironmentOf(<<U(0), U(0), CX(0, 1)>>)}
=============================================================================
