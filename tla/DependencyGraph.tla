-------------------------- MODULE DependencyGraph --------------------------
(***************************************************************************)
(* The start of ToqmMapper::Impl::run: buildDependencyGraph turns the      *)
(* topologically ordered gate list into a graph of GateNodes, one gate per *)
(* loop iteration, and setCriticality then walks it backwards, one visit   *)
(* of a qubit at a time, to find the length of the longest path below each *)
(* gate and the next two-qubit gate on each of its qubits.                 *)
(*                                                                         *)
(* The reference the walk is compared with is GateGraph's GraphOf.         *)
(***************************************************************************)
EXTENDS GateGraph

CONSTANTS Programs,             \* gate lists: sequences of GateOps
          MaxQubits,            \* argument num_qubits of ToqmMapper::run
          OptimisticLatency     \* [name -> latency] for unknown qubits

(* A GateOp has a type, and neither a control nor a target, only a target, *)
(* or both (a missing one is -1). No qubit number exceeds the arrays that  *)
(* run allocates for num_qubits.                                           *)
ASSUME ProgramsAssumption ==
    /\ MaxQubits \in Nat \ {0}
    /\ OptimisticLatency \in [DOMAIN OptimisticLatency -> Nat]
    /\ \A p \in Programs :
          /\ p \in Seq([name : DOMAIN OptimisticLatency,
                       control : -1..MaxQubits-1, target : -1..MaxQubits-1])
          /\ \A i \in DOMAIN p : p[i].target = -1 => p[i].control = -1

Qubits == 0..MaxQubits-1

VARIABLES program,              \* the argument gates
          phase,                \* "build", "crit", "done" or "failed"
          gates,                \* the GateNodes made so far
          lastGatePerQubit,     \* local of buildDependencyGraph
          firstGates,           \* the root gates
          firstCXPerQubit,      \* Environment::firstCXPerQubit
          numQubits,            \* number of logical qubits
          cursor,               \* local gates array of setCriticality
          visiting,             \* local x of setCriticality
          progress,             \* ~done: this sweep has met a gate
          idealCycles           \* maxCrit, the value setCriticality returns

buildVars == <<gates, lastGatePerQubit, firstGates, firstCXPerQubit, numQubits>>
critVars == <<cursor, visiting, progress, idealCycles>>
vars == <<program, phase, buildVars, critVars>>

-----------------------------------------------------------------------------
(* Operators named Faulty... are not used by the specification. Each is a  *)
(* mistake one could have made in the operator that follows it; the        *)
(* properties are known to notice it.                                      *)

FaultySetChild(gs, p, q, v) ==
    IF p = NoGate THEN gs ELSE [gs EXCEPT ![p].targetChild = v]

(* Make v the child of its parent p along qubit q.                         *)
SetChild(gs, p, q, v) ==
    IF p = NoGate THEN gs
    ELSE IF gs[p].control = q THEN [gs EXCEPT ![p].controlChild = v]
    ELSE [gs EXCEPT ![p].targetChild = v]

NewGateNode(op, controlParent, targetParent) ==
    [name |-> op.name, control |-> op.control, target |-> op.target,
     optimisticLatency |-> OptimisticLatency[op.name], criticality |-> 0,
     controlChild |-> NoGate, targetChild |-> NoGate,
     controlParent |-> controlParent, targetParent |-> targetParent,
     nextControlCNOT |-> NoGate, nextTargetCNOT |-> NoGate]

(* The gates without parents are the roots.                                *)
FaultyIsRoot(controlParent, targetParent) == targetParent = NoGate
IsRoot(controlParent, targetParent) ==
    controlParent = NoGate /\ targetParent = NoGate

(* The number of logical qubits: one more than the largest in use.         *)
FaultyCountQubits(n, op) ==
    IF op.control >= n \/ op.target >= n THEN op.control + op.target + 1 ELSE n
CountQubits(n, op) ==
    IF op.control >= n \/ op.target >= n
    THEN (IF op.control > op.target THEN op.control ELSE op.target) + 1
    ELSE n

-----------------------------------------------------------------------------
Init ==
    /\ program \in Programs
    /\ phase = "build"
    /\ gates = <<>>
    /\ lastGatePerQubit = [q \in Qubits |-> NoGate]
    /\ firstGates = {}
    /\ firstCXPerQubit = [q \in Qubits |-> NoGate]
    /\ numQubits = 0
    /\ cursor = [q \in Qubits |-> NoGate]
    /\ visiting = 0
    /\ progress = FALSE
    /\ idealCycles = 0

(* One iteration of the loop over the gate list.                           *)
AddGate ==
    LET v  == Len(gates) + 1
        op == program[v]
        cp == IF op.control >= 0 THEN lastGatePerQubit[op.control] ELSE NoGate
        tp == lastGatePerQubit[op.target]
    IN  /\ phase = "build"
        /\ Len(gates) < Len(program)
        /\ op.control # op.target
        /\ gates' = SetChild(SetChild(Append(gates, NewGateNode(op, cp, tp)),
                                      cp, op.control, v),
                             tp, op.target, v)
        /\ lastGatePerQubit' = [q \in Qubits |->
               IF q \in QubitsOf(op) THEN v ELSE lastGatePerQubit[q]]
        /\ firstGates' = IF IsRoot(cp, tp) THEN firstGates \cup {v} ELSE firstGates
        /\ firstCXPerQubit' = [q \in Qubits |->
               IF IsTwoQubit(op) /\ q \in QubitsOf(op)
                  /\ firstCXPerQubit[q] = NoGate
               THEN v ELSE firstCXPerQubit[q]]
        /\ numQubits' = CountQubits(numQubits, op)
        /\ UNCHANGED <<program, phase, critVars>>

(* "Invalid gate (control == target)": the exception leaves run.           *)
RejectGate ==
    /\ phase = "build"
    /\ Len(gates) < Len(program)
    /\ program[Len(gates) + 1].control = program[Len(gates) + 1].target
    /\ phase' = "failed"
    /\ UNCHANGED <<program, buildVars, critVars>>

(* The call of setCriticality, with its initialisation of the gates array. *)
StartCriticality ==
    /\ phase = "build"
    /\ Len(gates) = Len(program)
    /\ phase' = "crit"
    /\ cursor' = [q \in Qubits |-> IF q < numQubits THEN lastGatePerQubit[q]
                                                    ELSE NoGate]
    /\ UNCHANGED <<program, buildVars, visiting, progress, idealCycles>>

FaultyLonger(old, new) == new
Longer(old, new) == IF new > old THEN new ELSE old

FaultyInformParent(gs, p, g, crit) ==
    IF p = NoGate THEN gs
    ELSE [gs EXCEPT ![p].criticality = Longer(@, crit),
                    ![p].nextTargetCNOT = IF IsTwoQubit(gs[g]) THEN g ELSE @,
                    ![p].nextControlCNOT = IF IsTwoQubit(gs[g]) THEN g ELSE @]

(* What a visited gate g tells its parent p: a longer path below p, and    *)
(* the next two-qubit gate on every qubit they share.                      *)
InformParent(gs, p, g, crit) ==
    LET nextCX == IF IsTwoQubit(gs[g]) THEN g ELSE gs[g].nextTargetCNOT
    IN  IF p = NoGate THEN gs
        ELSE [gs EXCEPT
                ![p].criticality = Longer(@, crit),
                ![p].nextTargetCNOT =
                    IF gs[p].target \in QubitsOf(gs[g]) THEN nextCX ELSE @,
                ![p].nextControlCNOT =
                    IF gs[p].control \in QubitsOf(gs[g]) THEN nextCX ELSE @]

(* The walk goes on from visited gate v to its parent on each qubit.       *)
Behind(v) ==
    [q \in Qubits |-> IF q \in QubitsOf(v) THEN ParentOn(v, q) ELSE cursor[q]]

(* One iteration of the inner loop: visit qubit x. A two-qubit gate is     *)
(* ready when the walk has reached it on both of its qubits.               *)
VisitQubit ==
    LET g     == cursor[visiting]
        v     == gates[g]
        crit  == v.criticality + v.optimisticLatency
        ready == ~IsTwoQubit(v) \/ cursor[v.control] = cursor[v.target]
    IN  /\ phase = "crit"
        /\ visiting < numQubits
        /\ visiting' = visiting + 1
        /\ progress' = (progress \/ g # NoGate)
        /\ IF g # NoGate /\ ready
           THEN /\ gates' = InformParent(
                                InformParent(gates, v.targetParent, g, crit),
                                v.controlParent, g, crit)
                /\ cursor' = Behind(v)
                /\ idealCycles' = Longer(idealCycles, crit)
           ELSE UNCHANGED <<gates, cursor, idealCycles>>
        /\ UNCHANGED <<program, phase, lastGatePerQubit, firstGates,
                       firstCXPerQubit, numQubits>>

(* The end of a sweep over the qubits: another one, unless it met no gate. *)
EndSweep ==
    /\ phase = "crit"
    /\ visiting = numQubits
    /\ visiting' = 0
    /\ progress' = FALSE
    /\ phase' = IF progress THEN "crit" ELSE "done"
    /\ UNCHANGED <<program, buildVars, cursor, idealCycles>>

Next == AddGate \/ RejectGate \/ StartCriticality \/ VisitQubit \/ EndSweep

-----------------------------------------------------------------------------
Built == 1..Len(gates)

TypeOK ==
    /\ program \in Programs
    /\ phase \in {"build", "crit", "done", "failed"}
    /\ Len(gates) <= Len(program)
    /\ \A g \in Built :
          /\ gates[g] \in [name : DOMAIN OptimisticLatency,
                           control : -1..MaxQubits-1, target : Qubits,
                           optimisticLatency : Nat, criticality : Nat,
                           controlChild : 0..Len(gates), targetChild : 0..Len(gates),
                           controlParent : 0..Len(gates), targetParent : 0..Len(gates),
                           nextControlCNOT : 0..Len(gates),
                           nextTargetCNOT : 0..Len(gates)]
    /\ lastGatePerQubit \in [Qubits -> 0..Len(gates)]
    /\ firstGates \subseteq Built
    /\ firstCXPerQubit \in [Qubits -> 0..Len(gates)]
    /\ numQubits \in 0..MaxQubits
    /\ cursor \in [Qubits -> 0..Len(gates)]
    /\ visiting \in 0..MaxQubits
    /\ progress \in BOOLEAN
    /\ idealCycles \in Nat

(* The pointers that buildDependencyGraph sets while it appends gates are  *)
(* exactly the neighbours of a gate on each of its qubits, in both         *)
(* directions, whatever roles (control or target) the gates give them.     *)
GraphCorrect ==
    /\ \A g \in Built : QubitsOf(gates[g]) = QubitsOf(program[g])
    /\ IsGraph(gates)

(* The root gates are the gates no earlier gate precedes on any qubit, and *)
(* firstCXPerQubit is the first two-qubit gate on each qubit.              *)
RootsCorrect ==
    /\ firstGates = Roots(gates)
    /\ \A q \in Qubits :
          IsNextCNOT(gates, NoGate, q, firstCXPerQubit[q])

(* setCriticality returns the graph that the gate list denotes, although   *)
(* it visits the qubits in index order and not the gates in theirs: in the *)
(* end a gate has the longest chain below it as criticality, and a next    *)
(* two-qubit gate it was first given wrongly has been overwritten.         *)
ImplementsGraphOf ==
    phase = "done" =>
        gates = GraphOf(program, [g \in Built |-> OptimisticLatency[program[g].name]])

(* idealCycles is the length of the longest chain of the whole circuit:    *)
(* the walk has seen every gate once its cursor is empty.                  *)
IdealCyclesCorrect ==
    phase = "done" =>
        LET length(g) == gates[g].criticality + gates[g].optimisticLatency
        IN  /\ \A g \in Built : length(g) <= idealCycles
            /\ Built # {} => \E g \in Built : length(g) = idealCycles

=============================================================================
