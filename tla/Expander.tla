------------------------------ MODULE Expander ------------------------------
(***************************************************************************)
(* What the expanders have in common: the calls of scheduleGate and        *)
(* swapQubits that they make on the children of a node, and the conditions *)
(* on gates and swaps that DefaultExpander and GreedyTopK repeat.          *)
(*                                                                         *)
(* An expander turns a node into an expansion: its children, in the order  *)
(* in which it pushes them, and whether the assertions on the way have     *)
(* held. The cost functions are called in module Search.                   *)
(***************************************************************************)
EXTENDS CXCost

Expansion(children, legal) == [children |-> children, legal |-> legal]

(* What is to be scheduled on a child: a circuit gate, or the generated    *)
(* swap on a coupling.                                                     *)
GateCall(g) == [gate |-> g, coupling |-> <<>>]
SwapCall(c) == [gate |-> GeneratedSwap, coupling |-> c]

(* Couplings in the order of pairs.                                        *)
IsPairBefore(c, d) == c[1] < d[1] \/ (c[1] = d[1] /\ c[2] < d[2])
CouplingsInOrder(cs) == Listed(cs, {p \in cs \X cs : IsPairBefore(p[1], p[2])})

(* The elements of sequence s at some positions.                           *)
Picked(s, positions) ==
    LET order == InOrder(positions) IN [i \in DOMAIN order |-> s[order[i]]]

Mapped(s, Op(_)) == [i \in DOMAIN s |-> Op(s[i])]
GateCalls(gs) == Mapped(InOrder(gs), GateCall)
SwapCalls(cs) == Mapped(CouplingsInOrder(cs), SwapCall)

(* A child while calls are made on it: the node, whether all of them have  *)
(* returned true, and whether all of their assertions have held.           *)
Attempt(n) == [node |-> n, good |-> TRUE, legal |-> TRUE]

(* The children that are made of such attempts.                            *)
Succeeded(attempts) ==
    LET good == Picked(attempts, {i \in DOMAIN attempts : attempts[i].good})
    IN  Expansion([i \in DOMAIN good |-> good[i].node],
                  \A i \in DOMAIN attempts : attempts[i].legal)

Schedule(a, gates, call) ==
    LET n == a.node
        v == gates[call.gate]
        c == call.coupling
    IN  IF call.gate = GeneratedSwap
        THEN IF CanStart(n, "swap", c[1], c[2])
             THEN [a EXCEPT !.node = ScheduleSwap(n, GeneratedSwap, "swap", c[1], c[2]),
                            !.legal = @ /\ HoldsSomething(n, c[1], c[2])]
             ELSE [a EXCEPT !.good = FALSE]
        ELSE [node |-> ScheduleGate(n, gates, call.gate),
              good |-> a.good /\ CanStart(n, v.name, PhysicalControl(n, v), PhysicalTarget(n, v)),
              legal |-> a.legal /\ MayCallScheduleGate(n, v)]

Rearrange(a, call) ==
    LET c == call.coupling
    IN  IF HoldsSomething(a.node, c[2], c[1])
        THEN [a EXCEPT !.node = SwapQubits(a.node, c[2], c[1])]
        ELSE [a EXCEPT !.good = FALSE]

(* Calls are made in this order, whatever they return.                     *)
ScheduleAll(a, gates, calls) ==
    LET after[i \in 0..Len(calls)] ==
            IF i = 0 THEN a ELSE Schedule(after[i-1], gates, calls[i])
    IN  after[Len(calls)]

(* A child of n on which calls are made in this order, until one fails; in *)
(* the search cycles they only rearrange the layout.                       *)
Try(n, gates, a, call) ==
    IF ~a.good THEN a
    ELSE IF n.cycle >= -1 THEN Schedule(a, gates, call)
    ELSE Rearrange(a, call)

ChildWith(n, gates, calls) ==
    LET after[i \in 0..Len(calls)] ==
            IF i = 0 THEN Attempt(PrepChild(n)) ELSE Try(n, gates, after[i-1], calls[i])
    IN  after[Len(calls)]

(* Subset number x of a sequence of calls.                                 *)
Subset(calls, x) ==
    Picked(calls, {y \in DOMAIN calls : (x \div 2^(y-1)) % 2 = 1})

FaultySubsets(calls) ==                 \* without the empty one
    [x \in 1..2^Len(calls)-1 |-> Subset(calls, x)]

Subsets(calls) == [x \in 1..2^Len(calls) |-> Subset(calls, x-1)]

-----------------------------------------------------------------------------
(* The physical qubits of circuit gate v that are known.                   *)
PlacesOf(n, v) == {n.laq[q] : q \in QubitsOf(v)} \ {Unmapped}

(* All of places are free in the next cycle.                               *)
AreFreeNext(n, places) == \A p \in places : BusyCycles(n, p) <= 1

(* The ready gates that could start in the next cycle, if no swap comes in *)
(* between.                                                                *)
Executable(n, gates) ==
    {g \in n.readyGates :
        LET v == gates[g]
            control == IF IsTwoQubit(v) THEN n.laq[v.control] ELSE Unmapped
            target == n.laq[v.target]
        IN  /\ n.cycle >= -1
            /\ AreFreeNext(n, PlacesOf(n, v))
            /\ control # Unmapped /\ target # Unmapped => Coupled(control, target)}

(* A logical qubit is used again if a gate follows its last one; before    *)
(* its first one that is taken for granted.                                *)
IsUsedAgain(n, gates, q) ==
    LET sg == n.lastNonSwapGate[q]
        v == gates[sg.gate]
    IN  sg = Null \/ (IF v.target = q THEN v.targetChild ELSE v.controlChild) # NoGate

(* The logical qubits that a swap on coupling c moves.                     *)
HeldAt(n, c) == {n.qal[c[1]], n.qal[c[2]]} \ {Unmapped}

=============================================================================
