----------------------------- MODULE GateGraph -----------------------------
(***************************************************************************)
(* The dependence graph of a circuit: GateOps, GateNodes, and the graph    *)
(* that a list of gates denotes. A gate is identified by its position in   *)
(* the gate list; NoGate stands for the null pointer.                      *)
(***************************************************************************)
EXTENDS Integers, Sequences

NoGate == 0

IsTwoQubit(v) == v.control >= 0

(* The qubits of a gate; a control of -1 means that there is none.         *)
QubitsOf(v) == {v.control, v.target} \ {-1}

(* The generated swaps, and the gates that isSwapGate takes for one.       *)
IsSwapName(name) == name \in {"swap", "SWAP"}

(* The parent and the child of a GateNode along its qubit q.               *)
ParentOn(v, q) == IF v.control = q THEN v.controlParent ELSE v.targetParent
ChildOn(v, q) == IF v.control = q THEN v.controlChild ELSE v.targetChild

-----------------------------------------------------------------------------
(* What the pointers of a GateNode have to be, for a sequence gs of gates  *)
(* (GateOps or GateNodes).                                                 *)

(* h is the closest gate before g that uses qubit q, or NoGate.            *)
IsClosestBefore(gs, g, q, h) ==
    /\ h \in 0..(g-1)
    /\ h # NoGate => q \in QubitsOf(gs[h])
    /\ \A k \in (h+1)..(g-1) : q \notin QubitsOf(gs[k])

(* h is the closest gate after g that uses qubit q, or NoGate.             *)
IsClosestAfter(gs, g, q, h) ==
    \/ /\ h = NoGate
       /\ \A k \in (g+1)..Len(gs) : q \notin QubitsOf(gs[k])
    \/ /\ h \in (g+1)..Len(gs)
       /\ q \in QubitsOf(gs[h])
       /\ \A k \in (g+1)..(h-1) : q \notin QubitsOf(gs[k])

(* h is the closest two-qubit gate after g that uses qubit q, or NoGate.   *)
IsNextCNOT(gs, g, q, h) ==
    \/ /\ h = NoGate
       /\ \A k \in (g+1)..Len(gs) : IsTwoQubit(gs[k]) => q \notin QubitsOf(gs[k])
    \/ /\ h \in (g+1)..Len(gs)
       /\ IsTwoQubit(gs[h])
       /\ q \in QubitsOf(gs[h])
       /\ \A k \in (g+1)..(h-1) : IsTwoQubit(gs[k]) => q \notin QubitsOf(gs[k])

(* The gates that no earlier gate precedes on any of their qubits.         *)
Roots(gs) ==
    {g \in 1..Len(gs) : \A q \in QubitsOf(gs[g]) :
        IsClosestBefore(gs, g, q, NoGate)}

(* The parents and children of a sequence of GateNodes are right.          *)
IsGraph(gs) ==
    \A g \in 1..Len(gs) : \A q \in QubitsOf(gs[g]) :
        /\ IsClosestBefore(gs, g, q, ParentOn(gs[g], q))
        /\ IsClosestAfter(gs, g, q, ChildOn(gs[g], q))

(* The gates not in the set done, all of whose predecessors in the circuit *)
(* on their qubits are.                                                    *)
FrontierOf(gs, done) ==
    {g \in 1..Len(gs) \ done : \A h \in 1..(g-1) :
        QubitsOf(gs[h]) \cap QubitsOf(gs[g]) # {} => h \in done}

(* The number of cycles from the end of each gate to the end of the        *)
(* longest chain of gates that depend on it, when a gate g lasts lat[g].   *)
LongestAfter(gs, lat) ==
    LET n == Len(gs)
        after[i \in 0..n-1] ==             \* the value for gate n - i
            LET g == n - i
                next == {k \in (g+1)..n :
                            QubitsOf(gs[k]) \cap QubitsOf(gs[g]) # {}}
                length(k) == lat[k] + after[n - k]
                longest == CHOOSE k \in next :
                              \A j \in next : length(j) <= length(k)
            IN  IF next = {} THEN 0 ELSE length(longest)
    IN  [g \in 1..n |-> after[n - g]]

(* The graph of a list of GateOps, when a gate g lasts lat[g].             *)
GraphOf(ops, lat) ==
    LET n == Len(ops)
        The(P(_)) == CHOOSE h \in 0..n : P(h)
        before(g, q) == LET P(h) == IsClosestBefore(ops, g, q, h) IN The(P)
        after(g, q) == LET P(h) == IsClosestAfter(ops, g, q, h) IN The(P)
        cnot(g, q) == LET P(h) == IsNextCNOT(ops, g, q, h) IN The(P)
        IfControl(g, h) == IF IsTwoQubit(ops[g]) THEN h ELSE NoGate
        crit == LongestAfter(ops, lat)
    IN  [g \in 1..n |->
          [name |-> ops[g].name, control |-> ops[g].control, target |-> ops[g].target,
           optimisticLatency |-> lat[g], criticality |-> crit[g],
           controlParent |-> IfControl(g, before(g, ops[g].control)),
           targetParent |-> before(g, ops[g].target),
           controlChild |-> IfControl(g, after(g, ops[g].control)),
           targetChild |-> after(g, ops[g].target),
           nextControlCNOT |-> IfControl(g, cnot(g, ops[g].control)),
           nextTargetCNOT |-> cnot(g, ops[g].target)]]

=============================================================================
