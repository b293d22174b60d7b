------------------------------- MODULE Result -------------------------------
(***************************************************************************)
(* The end of ToqmMapper::Impl::run: from the final node, walk the         *)
(* schedule backwards to find out what the initial layout must have been,  *)
(* choosing physical qubits for the gates that were scheduled without one, *)
(* and return the schedule, oldest gate first.                             *)
(*                                                                         *)
(* The module also defines, independently of that walk, what it means for  *)
(* a result to be a correct implementation of a circuit: its schedule is   *)
(* replayed forwards from the inferred layout.                             *)
(***************************************************************************)
EXTENDS Node, FiniteSets

(* The name of the gate of a schedule entry.                               *)
NameOf(gates, e) == IF e.gate = GeneratedSwap THEN "swap" ELSE gates[e.gate].name

-----------------------------------------------------------------------------
(* One iteration of the walk, for entry number i of the schedule.          *)

FaultyUndoSwap(w, e) ==         \* looks for the qubits after it has swapped them
    LET qal == SwapQal(w.qal, e.physicalTarget, e.physicalControl)
    IN  [w EXCEPT !.qal = qal,
                  !.laq = SwapLaq(w.laq, qal, e.physicalControl, e.physicalTarget)]

UndoSwap(w, e) ==
    [w EXCEPT !.qal = SwapQal(w.qal, e.physicalTarget, e.physicalControl),
              !.laq = SwapLaq(w.laq, w.qal, e.physicalControl, e.physicalTarget)]

FaultyChoosePlace(w, q) ==      \* always a free one
    LET free == {x \in Physical : w.qal[x] = Unmapped}
    IN  IF free = {} THEN Unmapped ELSE CHOOSE x \in free : \A y \in free : x <= y

(* The physical qubit of a one-qubit gate that has none: where its logical *)
(* qubit is by now, else the first physical qubit that holds nothing, else *)
(* still none.                                                             *)
ChoosePlace(w, q) ==
    LET free == {x \in Physical : w.qal[x] = Unmapped}
    IN  IF w.laq[q] # Unmapped THEN w.laq[q]
        ELSE IF free = {} THEN Unmapped
        ELSE CHOOSE x \in free : \A y \in free : x <= y

FaultyPlaceOneQubitGate(gates, w, i) ==        \* laq is not updated
    LET x == ChoosePlace(w, gates[w.scheduled[i].gate].target)
    IN  IF w.scheduled[i].physicalTarget # Unmapped \/ x = Unmapped THEN w
        ELSE [w EXCEPT !.scheduled = [@ EXCEPT ![i].physicalTarget = x],
                       !.qal = [@ EXCEPT ![x] = gates[w.scheduled[i].gate].target]]

PlaceOneQubitGate(gates, w, i) ==
    LET e == w.scheduled[i]
        q == gates[e.gate].target
        x == ChoosePlace(w, q)
        arbitrary == w.laq[q] = Unmapped /\ x # Unmapped
    IN  IF e.physicalTarget # Unmapped THEN w
        ELSE [w EXCEPT
                !.scheduled = [@ EXCEPT ![i].physicalTarget = x],
                !.qal = IF arbitrary THEN [@ EXCEPT ![x] = q] ELSE @,
                !.laq = IF arbitrary THEN [@ EXCEPT ![q] = x] ELSE @]

WalkBack(gates, w, i) ==
    LET e == w.scheduled[i]
        twoQubit == e.gate = GeneratedSwap \/ IsTwoQubit(gates[e.gate])
    IN  IF ~twoQubit THEN PlaceOneQubitGate(gates, w, i)
        ELSE IF IsSwapName(NameOf(gates, e)) THEN UndoSwap(w, e)
        ELSE w

(* ToqmResult for a final node: the schedule, inferredQal, inferredLaq and *)
(* laq, the final layout, which is the final node's.                       *)
ResultOf(n, gates) ==
    LET length == Len(n.scheduled)
        walk[i \in 0..length] ==
            IF i = 0 THEN [qal |-> n.qal, laq |-> n.laq, scheduled |-> n.scheduled]
            ELSE WalkBack(gates, walk[i-1], length - i + 1)
        w == walk[length]
    IN  [scheduledGates |-> w.scheduled, inferredQal |-> w.qal,
         inferredLaq |-> w.laq, laq |-> n.laq]

-----------------------------------------------------------------------------
(* Replaying a schedule.                                                   *)

(* The layout before entry i+1, starting from layout qal.                  *)
LayoutAfter(scheduled, qal) ==
    LET at[i \in 0..Len(scheduled)] ==
            IF i = 0 THEN qal
            ELSE LET e == scheduled[i]
                 IN  IF e.gate = GeneratedSwap
                     THEN SwapQal(at[i-1], e.physicalControl, e.physicalTarget)
                     ELSE at[i-1]
    IN  at

(* The backward walk inverts the forward search: replayed from the         *)
(* inferred layout, every gate of the result acts on exactly the physical  *)
(* qubits that hold its logical qubits at that moment, and the replay ends *)
(* in the final layout that the result reports.                            *)
IsFaithful(gates, r) ==
    LET at == LayoutAfter(r.scheduledGates, r.inferredQal)
    IN  /\ \A i \in DOMAIN r.scheduledGates :
              LET e == r.scheduledGates[i]
                  v == gates[e.gate]
              IN  e.gate # GeneratedSwap =>
                    /\ e.physicalTarget # Unmapped
                    /\ at[i-1][e.physicalTarget] = v.target
                    /\ IsTwoQubit(v) => at[i-1][e.physicalControl] = v.control
        /\ \A q \in Physical : r.laq[q] # Unmapped =>
              at[Len(r.scheduledGates)][r.laq[q]] = q

(* The inferred layout is one: its two halves are inverse to each other    *)
(* and it has a place for every qubit the circuit uses. The final layout   *)
(* has one for the qubits of two-qubit gates.                              *)
IsComplete(gates, r) ==
    /\ IsLayout(r.inferredQal, r.inferredLaq)
    /\ \A g \in DOMAIN gates : \A q \in QubitsOf(gates[g]) :
          /\ r.inferredLaq[q] # Unmapped
          /\ IsTwoQubit(gates[g]) => r.laq[q] # Unmapped

(* The result holds every gate of the circuit exactly once, and the gates  *)
(* on each qubit in the order of the circuit.                              *)
IsInOrder(gates, r) ==
    LET s == r.scheduledGates
        at(g) == {i \in DOMAIN s : s[i].gate = g}
    IN  /\ \A g \in DOMAIN gates : Cardinality(at(g)) = 1
        /\ \A g, h \in DOMAIN gates :
              g < h /\ QubitsOf(gates[g]) \cap QubitsOf(gates[h]) # {} =>
                \A i \in at(g), j \in at(h) : i < j

(* A gate starts only after the end of the gates it depends on; with       *)
(* latency 0 it may start together with them.                              *)
IsInTime(gates, r) ==
    \A i, j \in DOMAIN r.scheduledGates :
        LET a == r.scheduledGates[i]
            b == r.scheduledGates[j]
        IN  /\ i < j
            /\ a.gate # GeneratedSwap /\ b.gate # GeneratedSwap
            /\ QubitsOf(gates[a.gate]) \cap QubitsOf(gates[b.gate]) # {}
            => IF b.latency = 0 THEN a.cycle <= b.cycle ELSE EndOf(a) <= b.cycle

(* Two-qubit gates and swaps are on coupled qubits.                        *)
IsOnCouplings(r) ==
    \A i \in DOMAIN r.scheduledGates :
        LET e == r.scheduledGates[i]
        IN  e.physicalControl # Unmapped => Coupled(e.physicalControl, e.physicalTarget)

IsCorrect(gates, r) ==
    /\ IsFaithful(gates, r)
    /\ IsComplete(gates, r)
    /\ IsInOrder(gates, r)
    /\ IsInTime(gates, r)
    /\ IsOnCouplings(r)
    /\ HasNoOverlap(r.scheduledGates)

NumSwaps(r) == Cardinality({i \in DOMAIN r.scheduledGates :
                                r.scheduledGates[i].gate = GeneratedSwap})

-----------------------------------------------------------------------------
(* How run can end, or that it has not ended yet.                          *)
Searching == [kind |-> "searching"]
Failure == [kind |-> "failure"]
Success(r) == [kind |-> "success", result |-> r]

=============================================================================
