----------------------------- MODULE NodeProofs -----------------------------
(***************************************************************************)
(* Lemmas about the operations of class Node: which fields they change,    *)
(* and what they preserve; and about the dependence graph they work on:    *)
(* what the pointers of its gates are, and how the frontier of the graph   *)
(* moves when a gate of the frontier is scheduled.                         *)
(***************************************************************************)
EXTENDS Node, SequenceTheorems, FiniteSetTheorems, NumberProofs

(* Recording a gate changes the last gates of its physical qubits and the  *)
(* schedule, nothing else.                                                 *)
LEMMA PushScheduledFields ==
    ASSUME NEW n \in Nodes, NEW sg \in ScheduledGates
    PROVE  LET m == PushScheduled(n, sg)
           IN  /\ m \in Nodes
               /\ m.root = n.root /\ m.cycle = n.cycle
               /\ m.qal = n.qal /\ m.laq = n.laq
               /\ m.lastNonSwapGate = n.lastNonSwapGate
               /\ m.lastNonZeroLatencyGate = [p \in Physical |->
                     IF p \in QubitsOfEntry(sg) /\ sg.latency # 0
                     THEN sg ELSE n.lastNonZeroLatencyGate[p]]
               /\ m.readyGates = n.readyGates
               /\ m.numUnscheduledGates = n.numUnscheduledGates
               /\ m.scheduled = Append(n.scheduled, sg)
  <1> DEFINE m == PushScheduled(n, sg)
             last == [p \in Physical |->
                        IF p \in QubitsOfEntry(sg) THEN sg ELSE n.lastGate[p]]
             lastNZ == [p \in Physical |->
                         IF p \in QubitsOfEntry(sg) /\ sg.latency # 0
                         THEN sg ELSE n.lastNonZeroLatencyGate[p]]
             sch == Append(n.scheduled, sg)
  <1>1. /\ last \in [Physical -> ScheduledGates \cup {Null}]
        /\ lastNZ \in [Physical -> ScheduledGates \cup {Null}]
        /\ sch \in Seq(ScheduledGates)
    BY DEF Nodes
  <1>2. m = [n EXCEPT !.lastGate = last, !.lastNonZeroLatencyGate = lastNZ,
                      !.scheduled = sch]
    BY DEF PushScheduled
  <1> HIDE DEF m, last, lastNZ, sch
  <1>3. /\ m \in Nodes
        /\ m.root = n.root /\ m.cycle = n.cycle
        /\ m.qal = n.qal /\ m.laq = n.laq
        /\ m.lastNonSwapGate = n.lastNonSwapGate
        /\ m.lastNonZeroLatencyGate = lastNZ
        /\ m.readyGates = n.readyGates
        /\ m.numUnscheduledGates = n.numUnscheduledGates
        /\ m.scheduled = sch
    BY <1>1, <1>2 DEF Nodes
  <1> QED
    BY <1>3 DEF m, lastNZ, sch

(* Exchanging two physical qubits keeps qal and laq inverse to each other, *)
(* whichever of the two hold a logical qubit.                              *)
LEMMA SwapLayout ==
    ASSUME NEW qal \in [Physical -> Place], NEW laq \in [Physical -> Place],
           NEW p1 \in Physical, NEW p2 \in Physical
    PROVE  /\ SwapQal(qal, p1, p2) \in [Physical -> Place]
           /\ SwapLaq(laq, qal, p1, p2) \in [Physical -> Place]
           /\ IsLayout(qal, laq)
                => IsLayout(SwapQal(qal, p1, p2), SwapLaq(laq, qal, p1, p2))
  <1> USE NodeAssumption DEF Place, Unmapped
  <1>1. ASSUME IsLayout(qal, laq), qal[p1] # Unmapped, qal[p2] # Unmapped
        PROVE  IsLayout(SwapQal(qal, p1, p2), SwapLaq(laq, qal, p1, p2))
    <2>1. SwapLaq(laq, qal, p1, p2)
            = [laq EXCEPT ![qal[p1]] = laq[qal[p2]], ![qal[p2]] = laq[qal[p1]]]
      BY <1>1 DEF SwapLaq
    <2>2. qal[p1] \in Physical /\ qal[p2] \in Physical
      BY <1>1
    <2>3. laq[qal[p1]] = p1 /\ laq[qal[p2]] = p2
      BY <1>1 DEF IsLayout
    <2> QED BY <1>1, <2>1, <2>2, <2>3 DEF SwapQal, IsLayout
  <1>2. ASSUME IsLayout(qal, laq), qal[p1] # Unmapped, qal[p2] = Unmapped
        PROVE  IsLayout(SwapQal(qal, p1, p2), SwapLaq(laq, qal, p1, p2))
    <2>1. SwapLaq(laq, qal, p1, p2) = [laq EXCEPT ![qal[p1]] = p2]
      BY <1>2 DEF SwapLaq
    <2>2. qal[p1] \in Physical /\ p1 # p2 /\ Unmapped \notin Physical
      BY <1>2 DEF Physical
    <2>3. laq[qal[p1]] = p1
      BY <1>2 DEF IsLayout
    <2> QED BY <1>2, <2>1, <2>2, <2>3 DEF SwapQal, IsLayout
  <1>3. ASSUME IsLayout(qal, laq), qal[p1] = Unmapped, qal[p2] # Unmapped
        PROVE  IsLayout(SwapQal(qal, p1, p2), SwapLaq(laq, qal, p1, p2))
    <2>1. SwapLaq(laq, qal, p1, p2) = [laq EXCEPT ![qal[p2]] = p1]
      BY <1>3 DEF SwapLaq
    <2>2. qal[p2] \in Physical /\ p1 # p2 /\ Unmapped \notin Physical
      BY <1>3 DEF Physical
    <2>3. laq[qal[p2]] = p2
      BY <1>3 DEF IsLayout
    <2> QED BY <1>3, <2>1, <2>2, <2>3 DEF SwapQal, IsLayout
  <1>4. ASSUME IsLayout(qal, laq), qal[p1] = Unmapped, qal[p2] = Unmapped
        PROVE  IsLayout(SwapQal(qal, p1, p2), SwapLaq(laq, qal, p1, p2))
    <2>1. SwapLaq(laq, qal, p1, p2) = laq
      BY <1>4 DEF SwapLaq
    <2> QED BY <1>4, <2>1 DEF SwapQal, IsLayout
  <1>5. SwapQal(qal, p1, p2) \in [Physical -> Place]
    BY DEF SwapQal
  <1>6. SwapLaq(laq, qal, p1, p2) \in [Physical -> Place]
    BY DEF SwapLaq
  <1> QED BY <1>1, <1>2, <1>3, <1>4, <1>5, <1>6

(* swapQubits changes the layout and nothing else.                         *)
LEMMA SwapQubitsFields ==
    ASSUME NEW n \in Nodes, NEW p1 \in Physical, NEW p2 \in Physical
    PROVE  LET m == SwapQubits(n, p1, p2)
           IN  /\ m \in Nodes
               /\ m.root = n.root /\ m.cycle = n.cycle
               /\ m.qal = SwapQal(n.qal, p1, p2)
               /\ m.laq = SwapLaq(n.laq, n.qal, p1, p2)
               /\ m.lastNonSwapGate = n.lastNonSwapGate
               /\ m.lastNonZeroLatencyGate = n.lastNonZeroLatencyGate
               /\ m.readyGates = n.readyGates
               /\ m.numUnscheduledGates = n.numUnscheduledGates
               /\ m.scheduled = n.scheduled
  <1> DEFINE qal == SwapQal(n.qal, p1, p2)
             laq == SwapLaq(n.laq, n.qal, p1, p2)
  <1>1. qal \in [Physical -> Place] /\ laq \in [Physical -> Place]
    BY SwapLayout DEF Nodes
  <1>2. SwapQubits(n, p1, p2) = [n EXCEPT !.qal = qal, !.laq = laq]
    BY DEF SwapQubits
  <1> HIDE DEF qal, laq
  <1> QED BY <1>1, <1>2 DEF Nodes, qal, laq

(* What a layout becomes when two places are exchanged twice.              *)
LEMMA SwapLayoutTwice ==
    ASSUME NEW qal \in [Physical -> Place], NEW laq \in [Physical -> Place],
           IsLayout(qal, laq), NEW p1 \in Physical, NEW p2 \in Physical,
           NEW qal2, qal2 = SwapQal(qal, p1, p2),
           NEW laq2, laq2 = SwapLaq(laq, qal, p1, p2)
    PROVE  SwapQal(qal2, p1, p2) = qal /\ SwapLaq(laq2, qal2, p1, p2) = laq
  <1> USE NodeAssumption DEF Place, Unmapped
  <1>1. qal2 \in [Physical -> Place] /\ qal2[p1] = qal[p2] /\ qal2[p2] = qal[p1]
    BY DEF SwapQal
  <1>2. SwapQal(qal2, p1, p2) = qal
    BY <1>1 DEF SwapQal
  <1>3. ASSUME NEW p \in Physical, qal[p] # Unmapped
        PROVE  qal[p] \in Physical /\ laq[qal[p]] = p
    BY <1>3 DEF IsLayout
  <1>4. ASSUME qal[p1] # Unmapped, qal[p2] # Unmapped
        PROVE  SwapLaq(laq2, qal2, p1, p2) = laq
    <2>1. laq2 = [laq EXCEPT ![qal[p1]] = laq[qal[p2]], ![qal[p2]] = laq[qal[p1]]]
      BY <1>4 DEF SwapLaq
    <2>2. SwapLaq(laq2, qal2, p1, p2)
            = [laq2 EXCEPT ![qal[p2]] = laq2[qal[p1]], ![qal[p1]] = laq2[qal[p2]]]
      BY <1>1, <1>4 DEF SwapLaq
    <2>3. /\ qal[p1] \in Physical /\ qal[p2] \in Physical
          /\ laq[qal[p1]] = p1 /\ laq[qal[p2]] = p2
      BY <1>3, <1>4
    <2>4. laq2[qal[p1]] = p2 /\ laq2[qal[p2]] = p1
      BY <2>1, <2>3
    <2>5. laq2 = [laq EXCEPT ![qal[p1]] = p2, ![qal[p2]] = p1]
      BY <2>1, <2>3
    <2>6. SwapLaq(laq2, qal2, p1, p2) = [laq2 EXCEPT ![qal[p2]] = p2, ![qal[p1]] = p1]
      BY <2>2, <2>4
    <2>7. PICK a, b : a = qal[p1] /\ b = qal[p2]
      OBVIOUS
    <2>8. [laq2 EXCEPT ![b] = p2, ![a] = p1] = laq
      BY <2>3, <2>5, <2>7
    <2> QED BY <2>6, <2>7, <2>8
  <1>5. ASSUME qal[p1] # Unmapped, qal[p2] = Unmapped
        PROVE  SwapLaq(laq2, qal2, p1, p2) = laq
    <2>1. laq2 = [laq EXCEPT ![qal[p1]] = p2]
      BY <1>5 DEF SwapLaq
    <2>2. SwapLaq(laq2, qal2, p1, p2) = [laq2 EXCEPT ![qal[p1]] = p1]
      BY <1>1, <1>5 DEF SwapLaq
    <2> QED BY <1>3, <1>5, <2>1, <2>2
  <1>6. ASSUME qal[p1] = Unmapped, qal[p2] # Unmapped
        PROVE  SwapLaq(laq2, qal2, p1, p2) = laq
    <2>1. laq2 = [laq EXCEPT ![qal[p2]] = p1]
      BY <1>6 DEF SwapLaq
    <2>2. SwapLaq(laq2, qal2, p1, p2) = [laq2 EXCEPT ![qal[p2]] = p2]
      BY <1>1, <1>6 DEF SwapLaq
    <2> QED BY <1>3, <1>6, <2>1, <2>2
  <1>7. ASSUME qal[p1] = Unmapped, qal[p2] = Unmapped
        PROVE  SwapLaq(laq2, qal2, p1, p2) = laq
    BY <1>1, <1>7 DEF SwapLaq
  <1> QED BY <1>2, <1>4, <1>5, <1>6, <1>7

(* swapQubits undoes itself: GreedyTopK tries a swap on the node that it   *)
(* expands and swaps back (GreedyTopK.hpp:166-168), which leaves the node  *)
(* as it was, whichever of the two places are taken. A layout is needed:   *)
(* were two places to hold the same qubit, laq would not come back.        *)
THEOREM SwapTwice ==
    ASSUME NEW n \in Nodes, IsLayout(n.qal, n.laq),
           NEW p1 \in Physical, NEW p2 \in Physical
    PROVE  SwapQubits(SwapQubits(n, p1, p2), p1, p2) = n
  <1>1. PICK qal2, laq2 : /\ qal2 = SwapQal(n.qal, p1, p2)
                          /\ laq2 = SwapLaq(n.laq, n.qal, p1, p2)
    OBVIOUS
  <1>2. n.qal \in [Physical -> Place] /\ n.laq \in [Physical -> Place]
    BY DEF Nodes
  <1>3. SwapQal(qal2, p1, p2) = n.qal /\ SwapLaq(laq2, qal2, p1, p2) = n.laq
    BY <1>1, <1>2, SwapLayoutTwice
  <1>4. PICK m : m = [n EXCEPT !.qal = qal2, !.laq = laq2]
    OBVIOUS
  <1>5. m = SwapQubits(n, p1, p2)
    BY <1>1, <1>4 DEF SwapQubits
  <1>6. m.qal = qal2 /\ m.laq = laq2
    BY <1>4 DEF Nodes
  <1>7. SwapQubits(m, p1, p2) = [m EXCEPT !.qal = n.qal, !.laq = n.laq]
    BY <1>3, <1>6 DEF SwapQubits
  <1>8. [m EXCEPT !.qal = n.qal, !.laq = n.laq] = n
    BY <1>4 DEF Nodes
  <1> QED BY <1>5, <1>7, <1>8

(* What scheduleGate puts into the schedule.                               *)
LEMMA ScheduledGateFields ==
    ASSUME NEW n \in Nodes, n.cycle >= 0, NEW g \in Nat, NEW name \in GateNames,
           NEW pc \in Place, NEW pt \in Place
    PROVE  LET sg == ScheduledGate(n, g, name, pc, pt)
           IN  /\ sg \in ScheduledGates
               /\ sg.gate = g /\ sg.cycle = n.cycle
               /\ sg.latency = Latency(name, pt, pc)
               /\ sg.physicalControl = pc /\ sg.physicalTarget = pt
               /\ QubitsOfEntry(sg) = {pc, pt} \ {Unmapped}
  <1>1. Latency(name, pt, pc) \in Nat
    BY NodeAssumption
  <1>2. n.cycle \in Nat
    BY DEF Nodes
  <1> QED BY <1>1, <1>2 DEF ScheduledGate, ScheduledGates, QubitsOfEntry

(* Scheduling a circuit gate alone also updates the last gates of its      *)
(* logical qubits and takes it out of the ready gates.                     *)
LEMMA ScheduleAloneFields ==
    ASSUME NEW n \in Nodes, NEW gs, NEW g, EntryOf(n, gs, g) \in ScheduledGates
    PROVE  /\ ScheduleAlone(n, gs, g) \in Nodes
           /\ ScheduleAlone(n, gs, g).root = n.root
           /\ ScheduleAlone(n, gs, g).cycle = n.cycle
           /\ ScheduleAlone(n, gs, g).qal = n.qal
           /\ ScheduleAlone(n, gs, g).laq = n.laq
           /\ \A q \in Physical : ScheduleAlone(n, gs, g).lastNonSwapGate[q] =
                 IF q \in QubitsOf(gs[g]) THEN EntryOf(n, gs, g)
                 ELSE n.lastNonSwapGate[q]
           /\ ScheduleAlone(n, gs, g).lastNonZeroLatencyGate
                 = PushScheduled(n, EntryOf(n, gs, g)).lastNonZeroLatencyGate
           /\ ScheduleAlone(n, gs, g).readyGates = n.readyGates \ {g}
           /\ ScheduleAlone(n, gs, g).numUnscheduledGates = n.numUnscheduledGates - 1
           /\ ScheduleAlone(n, gs, g).scheduled = Append(n.scheduled, EntryOf(n, gs, g))
  <1> DEFINE sg == EntryOf(n, gs, g)
             p == PushScheduled(n, sg)
             last == [q \in Physical |->
                        IF q \in QubitsOf(gs[g]) THEN sg ELSE n.lastNonSwapGate[q]]
             ready == n.readyGates \ {g}
             count == n.numUnscheduledGates - 1
  <1> HIDE DEF sg
  <1>0. sg \in ScheduledGates
    BY DEF sg
  <1>1. /\ last \in [Physical -> ScheduledGates \cup {Null}]
        /\ ready \in SUBSET Nat
        /\ count \in Int
    BY <1>0 DEF Nodes
  <1>2. ScheduleAlone(n, gs, g)
          = [p EXCEPT !.lastNonSwapGate = last, !.readyGates = ready,
                      !.numUnscheduledGates = count]
    BY DEF ScheduleAlone, sg
  <1>3. /\ p \in Nodes
        /\ p.root = n.root /\ p.cycle = n.cycle
        /\ p.qal = n.qal /\ p.laq = n.laq
        /\ p.scheduled = Append(n.scheduled, sg)
    BY <1>0, PushScheduledFields
  <1> DEFINE m == ScheduleAlone(n, gs, g)
  <1> HIDE DEF p, last, ready, count, m
  <1>4. /\ m \in Nodes
        /\ m.root = n.root /\ m.cycle = n.cycle
        /\ m.qal = n.qal /\ m.laq = n.laq
        /\ m.lastNonSwapGate = last
        /\ m.lastNonZeroLatencyGate = p.lastNonZeroLatencyGate
        /\ m.readyGates = ready
        /\ m.numUnscheduledGates = count
        /\ m.scheduled = Append(n.scheduled, sg)
    BY <1>1, <1>2, <1>3 DEF Nodes, m
  <1> QED BY <1>4 DEF sg, p, last, ready, count, m

-----------------------------------------------------------------------------
(* The occupation of the physical qubits.                                  *)

(* Every entry of the schedule ends no later than the last gate recorded   *)
(* for its physical qubits.                                                *)
LastIsLatest(n) ==
    \A i \in DOMAIN n.scheduled : \A p \in Physical :
        Occupies(n.scheduled[i], p) =>
            /\ n.lastNonZeroLatencyGate[p] # Null
            /\ EndOf(n.scheduled[i]) <= EndOf(n.lastNonZeroLatencyGate[p])

(* Both together are kept by every operation on a node.                    *)
Occupation(n) == HasNoOverlap(n.scheduled) /\ LastIsLatest(n)

(* An entry of a schedule ends after its start, and is not the null        *)
(* pointer.                                                                *)
LEMMA EndOfEntry ==
    ASSUME NEW e \in ScheduledGates
    PROVE  EndOf(e) \in Nat /\ e.cycle \in Nat /\ e.cycle <= EndOf(e) /\ e # Null
  <1>1. e.gate \in Nat /\ e.cycle \in Nat /\ e.latency \in Nat
    BY DEF ScheduledGates
  <1>2. Null.gate = -1
    BY DEF Null
  <1> QED BY <1>1, <1>2 DEF EndOf

(* The last gate on a physical qubit ends within its busy cycles.          *)
LEMMA BusyCyclesBound ==
    ASSUME NEW n \in Nodes, NEW p \in Physical
    PROVE  /\ BusyCycles(n, p) \in Nat
           /\ n.lastNonZeroLatencyGate[p] # Null =>
                 EndOf(n.lastNonZeroLatencyGate[p]) <= n.cycle + BusyCycles(n, p)
  <1>1. n.lastNonZeroLatencyGate[p] \in ScheduledGates \cup {Null} /\ n.cycle \in Int
    BY DEF Nodes
  <1>2. EndOf(n.lastNonZeroLatencyGate[p]) \in Int
    BY <1>1 DEF EndOf, ScheduledGates, Null
  <1> QED BY <1>1, <1>2 DEF BusyCycles

(* Recording a gate that starts now on qubits that are free, or that takes *)
(* no time, keeps the occupation of the physical qubits in order.          *)
LEMMA PushKeepsOccupation ==
    ASSUME NEW n \in Nodes, Occupation(n), NEW sg \in ScheduledGates,
           sg.cycle = n.cycle,
           sg.latency # 0 =>
               \A p \in QubitsOfEntry(sg) : BusyCycles(n, p) = 0
    PROVE  Occupation(PushScheduled(n, sg))
  <1> DEFINE m == PushScheduled(n, sg)
             s == n.scheduled
             k == Len(s) + 1
  <1>1. s \in Seq(ScheduledGates) /\ Len(s) \in Nat
    BY DEF Nodes
  <1>2. /\ m.scheduled = Append(s, sg)
        /\ m.lastNonZeroLatencyGate = [p \in Physical |->
              IF p \in QubitsOfEntry(sg) /\ sg.latency # 0
              THEN sg ELSE n.lastNonZeroLatencyGate[p]]
    BY PushScheduledFields
  <1>3. /\ DOMAIN m.scheduled = 1..k
        /\ m.scheduled[k] = sg
        /\ \A i \in 1..k : i # k => i \in DOMAIN s /\ m.scheduled[i] = s[i]
    <2> DEFINE t == Append(s, sg)
    <2>1. DOMAIN t = 1..k /\ t[k] = sg
      BY <1>1
    <2>2. \A i \in 1..k : i # k => i \in DOMAIN s /\ t[i] = s[i]
      BY <1>1
    <2> HIDE DEF t
    <2>3. m.scheduled = t
      BY <1>2 DEF t
    <2> QED BY <2>1, <2>2, <2>3
  <1> HIDE DEF m
  <1>4. \A i \in DOMAIN s : /\ s[i] \in ScheduledGates
                            /\ EndOf(s[i]) \in Nat
    <2>1. \A i \in DOMAIN s : s[i] \in ScheduledGates
      BY <1>1
    <2> QED BY <2>1, EndOfEntry
  <1>5. sg # Null /\ EndOf(sg) >= sg.cycle /\ EndOf(sg) \in Nat /\ sg.cycle \in Nat
    BY EndOfEntry
  <1>6. ASSUME NEW i \in DOMAIN s, NEW p \in Physical,
               Occupies(s[i], p), Occupies(sg, p)
        PROVE  EndOf(s[i]) <= sg.cycle
    <2>1. /\ n.lastNonZeroLatencyGate[p] # Null
          /\ EndOf(s[i]) <= EndOf(n.lastNonZeroLatencyGate[p])
      BY <1>6 DEF Occupation, LastIsLatest
    <2>2. BusyCycles(n, p) = 0
      BY <1>6 DEF Occupies
    <2>3. n.cycle \in Int /\ n.cycle + 0 = n.cycle
      BY DEF Nodes
    <2>5. EndOf(n.lastNonZeroLatencyGate[p]) <= n.cycle
      BY <2>1, <2>2, <2>3, BusyCyclesBound
    <2>4. EndOf(n.lastNonZeroLatencyGate[p]) \in Int
      <3>1. n.lastNonZeroLatencyGate[p] \in ScheduledGates
        BY <2>1 DEF Nodes
      <3> QED BY <3>1 DEF EndOf, ScheduledGates
    <2> QED BY <1>4, <2>1, <2>3, <2>4, <2>5
  <1>7. HasNoOverlap(m.scheduled)
    <2> SUFFICES ASSUME NEW i \in 1..k, NEW j \in 1..k, NEW p \in Physical, i < j,
                        Occupies(m.scheduled[i], p), Occupies(m.scheduled[j], p)
                 PROVE  EndOf(m.scheduled[i]) <= m.scheduled[j].cycle
      BY <1>3 DEF HasNoOverlap
    <2>1. i # k
      BY <1>1
    <2>2. CASE j = k
      BY <1>3, <1>6, <2>1, <2>2
    <2>3. CASE j # k
      BY <1>3, <2>1, <2>3 DEF Occupation, HasNoOverlap
    <2> QED BY <2>2, <2>3
  <1>8. LastIsLatest(m)
    <2> SUFFICES ASSUME NEW i \in 1..k, NEW p \in Physical, Occupies(m.scheduled[i], p)
                 PROVE  /\ m.lastNonZeroLatencyGate[p] # Null
                        /\ EndOf(m.scheduled[i]) <= EndOf(m.lastNonZeroLatencyGate[p])
      BY <1>3 DEF LastIsLatest
    <2>1. CASE Occupies(sg, p)
      <3>1. m.lastNonZeroLatencyGate[p] = sg
        BY <1>2, <2>1 DEF Occupies
      <3>2. CASE i = k
        BY <1>3, <1>5, <3>1, <3>2
      <3>3. CASE i # k
        <4>1. i \in DOMAIN s /\ m.scheduled[i] = s[i]
          BY <1>3, <3>3
        <4>2. EndOf(s[i]) <= sg.cycle
          BY <1>6, <2>1, <4>1
        <4> QED BY <1>4, <1>5, <3>1, <4>1, <4>2
      <3> QED BY <3>2, <3>3
    <2>2. CASE ~Occupies(sg, p)
      <3>1. m.lastNonZeroLatencyGate[p] = n.lastNonZeroLatencyGate[p]
        BY <1>2, <2>2 DEF Occupies
      <3>2. i # k
        BY <1>3, <2>2
      <3> QED BY <1>3, <3>1, <3>2 DEF Occupation, LastIsLatest
    <2> QED BY <2>1, <2>2
  <1> QED BY <1>7, <1>8 DEF Occupation, m

(* Occupation only looks at the schedule and the last gates.               *)
LEMMA OccupationDependsOn ==
    ASSUME NEW n, NEW m, Occupation(n), m.scheduled = n.scheduled,
           m.lastNonZeroLatencyGate = n.lastNonZeroLatencyGate
    PROVE  Occupation(m)
  BY DEF Occupation, HasNoOverlap, LastIsLatest

-----------------------------------------------------------------------------
(* The dependence graph.                                                   *)

(* The fields of a gate, read off IsEnvironment.                           *)
LEMMA GateFields ==
    ASSUME NEW e, IsEnvironment(e), NEW g \in 1..Len(e.gates)
    PROVE  LET v == e.gates[g]
           IN  /\ v.name \in GateNames
               /\ v.target \in Physical /\ v.control \in Place
               /\ v.control # v.target
               /\ IsTwoQubit(v) => v.control \in Physical
               /\ ~IsTwoQubit(v) => v.control = -1
               /\ QubitsOf(v) = IF IsTwoQubit(v) THEN {v.control, v.target} ELSE {v.target}
               /\ QubitsOf(v) \subseteq Physical /\ v.target \in QubitsOf(v)
               /\ v.controlChild \in Nat /\ v.targetChild \in Nat
               /\ v.controlParent \in Nat /\ v.targetParent \in Nat
               /\ ~IsTwoQubit(v) => v.controlParent = NoGate /\ v.controlChild = NoGate
  <1> DEFINE v == e.gates[g]
  <1>1. e.numLogical \in 0..NumPhysical /\ NumPhysical \in Nat
    BY NodeAssumption DEF IsEnvironment
  <1>2. v \in GateNodes(e.numLogical)
    BY DEF IsEnvironment
  <1>3. v.control # v.target
        /\ (~IsTwoQubit(v) => v.controlParent = NoGate /\ v.controlChild = NoGate)
    BY DEF IsEnvironment
  <1> HIDE DEF v
  <1>4. /\ v.name \in GateNames
        /\ v.control \in -1..e.numLogical-1 /\ v.target \in 0..e.numLogical-1
        /\ v.controlChild \in Nat /\ v.targetChild \in Nat
        /\ v.controlParent \in Nat /\ v.targetParent \in Nat
    BY <1>2 DEF GateNodes
  <1>5. /\ v.target \in Physical /\ v.control \in Place
        /\ IsTwoQubit(v) => v.control \in Physical
        /\ ~IsTwoQubit(v) => v.control = -1
    BY <1>1, <1>4 DEF Place, Physical, Unmapped, IsTwoQubit
  <1>6. \A q \in Physical : q # -1
    BY <1>1 DEF Physical
  <1>7. QubitsOf(v) = IF IsTwoQubit(v) THEN {v.control, v.target} ELSE {v.target}
    BY <1>5, <1>6 DEF QubitsOf
  <1> QED BY <1>3, <1>4, <1>5, <1>7 DEF v

(* The parent of gate g along one of its qubits q.                         *)
LEMMA ParentFacts ==
    ASSUME NEW e, IsEnvironment(e), NEW g \in 1..Len(e.gates),
           NEW q \in QubitsOf(e.gates[g])
    PROVE  /\ ParentOn(e.gates[g], q) \in 0..g-1
           /\ ParentOn(e.gates[g], q) # NoGate =>
                 q \in QubitsOf(e.gates[ParentOn(e.gates[g], q)])
           /\ \A k \in 1..g-1 : q \in QubitsOf(e.gates[k]) => k <= ParentOn(e.gates[g], q)
  <1> DEFINE p == ParentOn(e.gates[g], q)
  <1>1. Len(e.gates) \in Nat
    BY DEF IsEnvironment
  <1>2. IsClosestBefore(e.gates, g, q, p)
    BY DEF IsEnvironment, IsGraph
  <1> HIDE DEF p
  <1>3. /\ p \in 0..g-1
        /\ p # NoGate => q \in QubitsOf(e.gates[p])
        /\ \A k \in 1..g-1 : q \in QubitsOf(e.gates[k]) => k <= p
    BY <1>1, <1>2 DEF IsClosestBefore
  <1> QED BY <1>3 DEF p

(* The child of gate g along one of its qubits q.                          *)
LEMMA ChildFacts ==
    ASSUME NEW e, IsEnvironment(e), NEW g \in 1..Len(e.gates),
           NEW q \in QubitsOf(e.gates[g])
    PROVE  LET c == ChildOn(e.gates[g], q)
           IN  /\ c = NoGate \/ c \in g+1..Len(e.gates)
               /\ c # NoGate => q \in QubitsOf(e.gates[c])
               /\ c # NoGate => \A k \in g+1..Len(e.gates) :
                                    q \in QubitsOf(e.gates[k]) => c <= k
               /\ c = NoGate => \A k \in g+1..Len(e.gates) :
                                    q \notin QubitsOf(e.gates[k])
  <1> DEFINE c == ChildOn(e.gates[g], q)
  <1>1. Len(e.gates) \in Nat
    BY DEF IsEnvironment
  <1>2. IsClosestAfter(e.gates, g, q, c)
    BY DEF IsEnvironment, IsGraph
  <1> HIDE DEF c
  <1>3. /\ c = NoGate \/ c \in g+1..Len(e.gates)
        /\ c # NoGate => q \in QubitsOf(e.gates[c])
        /\ c # NoGate => \A k \in g+1..Len(e.gates) :
                             q \in QubitsOf(e.gates[k]) => c <= k
        /\ c = NoGate => \A k \in g+1..Len(e.gates) :
                             q \notin QubitsOf(e.gates[k])
    BY <1>1, <1>2 DEF IsClosestAfter, NoGate
  <1> QED BY <1>3 DEF c

(* Parents and children are inverse to each other along a qubit.           *)
LEMMA ChildOfParent ==
    ASSUME NEW e, IsEnvironment(e), NEW g \in 1..Len(e.gates),
           NEW c \in 1..Len(e.gates), NEW q \in QubitsOf(e.gates[g]),
           q \in QubitsOf(e.gates[c]), ParentOn(e.gates[c], q) = g
    PROVE  ChildOn(e.gates[g], q) = c
  <1> DEFINE d == ChildOn(e.gates[g], q)
  <1>1. Len(e.gates) \in Nat
    BY DEF IsEnvironment
  <1>2. /\ g \in 0..c-1
        /\ \A k \in 1..c-1 : q \in QubitsOf(e.gates[k]) => k <= g
    BY ParentFacts
  <1>3. /\ d = NoGate \/ d \in g+1..Len(e.gates)
        /\ d # NoGate => q \in QubitsOf(e.gates[d])
        /\ d # NoGate => \A k \in g+1..Len(e.gates) :
                             q \in QubitsOf(e.gates[k]) => d <= k
        /\ d = NoGate => \A k \in g+1..Len(e.gates) :
                             q \notin QubitsOf(e.gates[k])
    BY ChildFacts
  <1> HIDE DEF d
  <1>4. c \in g+1..Len(e.gates)
    BY <1>1, <1>2
  <1>5. d # NoGate /\ d <= c /\ d \in g+1..Len(e.gates) /\ q \in QubitsOf(e.gates[d])
    BY <1>3, <1>4
  <1>6. d < c => d <= g
    BY <1>1, <1>2, <1>4, <1>5
  <1>7. d = c
    BY <1>1, <1>4, <1>5, <1>6
  <1> QED BY <1>7 DEF d

(* And the other way round: a gate is the parent of its child along each   *)
(* qubit.                                                                  *)
LEMMA ParentOfChild ==
    ASSUME NEW e, IsEnvironment(e), NEW g \in 1..Len(e.gates),
           NEW c \in 1..Len(e.gates), NEW q \in QubitsOf(e.gates[g]),
           q \in QubitsOf(e.gates[c]), ChildOn(e.gates[g], q) = c
    PROVE  ParentOn(e.gates[c], q) = g
  <1> DEFINE p == ParentOn(e.gates[c], q)
  <1>1. Len(e.gates) \in Nat
    BY DEF IsEnvironment
  <1>2. /\ p \in 0..c-1
        /\ p # NoGate => q \in QubitsOf(e.gates[p])
        /\ \A k \in 1..c-1 : q \in QubitsOf(e.gates[k]) => k <= p
    BY ParentFacts
  <1>3. /\ c \in g+1..Len(e.gates)
        /\ \A k \in g+1..Len(e.gates) : q \in QubitsOf(e.gates[k]) => c <= k
    <2> DEFINE d == ChildOn(e.gates[g], q)
    <2>1. /\ d = NoGate \/ d \in g+1..Len(e.gates)
          /\ d # NoGate => \A k \in g+1..Len(e.gates) :
                               q \in QubitsOf(e.gates[k]) => d <= k
      BY ChildFacts
    <2>2. d = c
      OBVIOUS
    <2> HIDE DEF d
    <2> QED BY <1>1, <2>1, <2>2 DEF NoGate
  <1> HIDE DEF p
  <1>4. g <= p /\ p \in 1..c-1
    BY <1>1, <1>2, <1>3
  <1>5. q \in QubitsOf(e.gates[p])
    BY <1>1, <1>2, <1>4 DEF NoGate
  <1>6. p # g => p \in g+1..Len(e.gates)
    BY <1>1, <1>3, <1>4
  <1>7. p # g => c <= p
    BY <1>3, <1>5, <1>6
  <1>8. p = g
    BY <1>1, <1>3, <1>4, <1>7
  <1> QED BY <1>8 DEF p

(* What follows for a child that is a gate.                                *)
LEMMA ChildIsNext ==
    ASSUME NEW e, IsEnvironment(e), NEW g \in 1..Len(e.gates),
           NEW q \in QubitsOf(e.gates[g]), NEW c \in 1..Len(e.gates),
           ChildOn(e.gates[g], q) = c
    PROVE  q \in QubitsOf(e.gates[c]) /\ g < c /\ ParentOn(e.gates[c], q) = g
  <1>1. /\ c = NoGate \/ c \in g+1..Len(e.gates)
        /\ c # NoGate => q \in QubitsOf(e.gates[c])
    BY ChildFacts
  <1>2. Len(e.gates) \in Nat
    BY DEF IsEnvironment
  <1>3. q \in QubitsOf(e.gates[c]) /\ g < c
    BY <1>1, <1>2 DEF NoGate
  <1>4. ParentOn(e.gates[c], q) = g
    BY <1>3, ParentOfChild, Zenon
  <1> QED BY <1>3, <1>4

-----------------------------------------------------------------------------
(* last[q] is the last of the gates in done that uses qubit q (-1: none),  *)
(* and the gates in done are closed under predecessors.                    *)
AreLast(gs, done, last) ==
    \A q \in Physical :
        /\ last[q] = -1 \/ (last[q] \in 1..Len(gs) /\ q \in QubitsOf(gs[last[q]]))
        /\ \A g \in 1..Len(gs) :
              q \in QubitsOf(gs[g]) => (g \in done <=> g <= last[q])

(* What last has to be on qubit q for gate g to come next there.           *)
Before(gs, g, q) ==
    IF ParentOn(gs[g], q) = NoGate THEN -1 ELSE ParentOn(gs[g], q)

(* A gate is on the frontier if and only if it comes next on each of its   *)
(* qubits.                                                                 *)
LEMMA FrontierByLast ==
    ASSUME NEW e, IsEnvironment(e), NEW done, NEW last,
           AreLast(e.gates, done, last), NEW g \in 1..Len(e.gates)
    PROVE  g \in FrontierOf(e.gates, done)
              <=> \A q \in QubitsOf(e.gates[g]) : last[q] = Before(e.gates, g, q)
  <1> DEFINE Q(k) == QubitsOf(e.gates[k])
  <1>1. Len(e.gates) \in Nat /\ \A k \in 1..Len(e.gates) : Q(k) \subseteq Physical
    <2>1. \A k \in 1..Len(e.gates) : Q(k) \subseteq Physical
      BY GateFields
    <2>2. Len(e.gates) \in Nat
      BY DEF IsEnvironment
    <2> QED BY <2>1, <2>2
  <1>2. \A q \in Q(g) :
           LET p == ParentOn(e.gates[g], q)
           IN  /\ p \in 0..g-1
               /\ p # NoGate => q \in Q(p)
               /\ \A k \in 1..g-1 : q \in Q(k) => k <= p
    BY ParentFacts
  <1>3. \A q \in Physical :
           /\ last[q] = -1 \/ (last[q] \in 1..Len(e.gates) /\ q \in Q(last[q]))
           /\ \A k \in 1..Len(e.gates) : q \in Q(k) => (k \in done <=> k <= last[q])
    BY DEF AreLast
  <1>4. e.gates[g].target \in Q(g)
    BY GateFields
  <1>5. g \in FrontierOf(e.gates, done) <=>
           g \notin done /\ \A k \in 1..g-1 : (\E q \in Q(k) : q \in Q(g)) => k \in done
    BY DEF FrontierOf
  <1> HIDE DEF Q
  <1>6. ASSUME g \in FrontierOf(e.gates, done), NEW q \in Q(g)
        PROVE  last[q] = Before(e.gates, g, q)
    <2> DEFINE p == ParentOn(e.gates[g], q)
    <2>1. q \in Physical
      BY <1>1
    <2>2. ~(g <= last[q])
      BY <1>3, <1>5, <1>6, <2>1
    <2>3. CASE last[q] = -1
      <3>1. p # NoGate => p \in done /\ p \in 1..Len(e.gates)
        BY <1>1, <1>2, <1>5, <1>6 DEF NoGate
      <3>2. p # NoGate => p <= last[q]
        BY <1>2, <1>3, <2>1, <3>1
      <3>3. p = NoGate
        BY <1>2, <2>3, <3>1, <3>2
      <3> QED BY <2>3, <3>3 DEF Before
    <2>4. CASE last[q] \in 1..Len(e.gates) /\ q \in Q(last[q])
      <3>1. last[q] \in 1..g-1
        BY <1>1, <2>2, <2>4
      <3>2. last[q] <= p /\ p # NoGate
        BY <1>2, <2>4, <3>1 DEF NoGate
      <3>3. p \in done /\ p \in 1..Len(e.gates)
        BY <1>1, <1>2, <1>5, <1>6, <3>2 DEF NoGate
      <3>4. p <= last[q]
        BY <1>2, <1>3, <2>1, <3>2, <3>3
      <3> QED BY <1>2, <3>1, <3>2, <3>4 DEF Before
    <2> QED BY <1>3, <2>1, <2>3, <2>4
  <1>7. ASSUME \A q \in Q(g) : last[q] = Before(e.gates, g, q)
        PROVE  g \in FrontierOf(e.gates, done)
    <2>1. \A q \in Q(g) : last[q] \in Int /\ last[q] < g
      BY <1>2, <1>7 DEF Before, NoGate
    <2>2. g \notin done
      BY <1>1, <1>3, <1>4, <2>1
    <2>3. ASSUME NEW k \in 1..g-1, NEW q \in Q(k), q \in Q(g)
          PROVE  k \in done
      <3>1. k <= ParentOn(e.gates[g], q)
        BY <1>2, <2>3
      <3>2. last[q] = ParentOn(e.gates[g], q)
        BY <1>2, <1>7, <2>3, <3>1 DEF Before, NoGate
      <3>3. q \in Physical /\ k \in 1..Len(e.gates)
        BY <1>1, <2>3
      <3> QED BY <1>3, <2>3, <3>1, <3>2, <3>3
    <2> QED BY <1>5, <2>2, <2>3
  <1> QED BY <1>6, <1>7 DEF Q

(* Scheduling a gate g of the frontier makes it the last one on its qubits.*)
NowLast(gs, last, g) ==
    [q \in Physical |-> IF q \in QubitsOf(gs[g]) THEN g ELSE last[q]]

(* The new last gates are right, too.                                      *)
LEMMA AreLastStep ==
    ASSUME NEW e, IsEnvironment(e), NEW done, NEW last,
           AreLast(e.gates, done, last), NEW g \in 1..Len(e.gates), g \in FrontierOf(e.gates, done)
    PROVE  AreLast(e.gates, done \cup {g}, NowLast(e.gates, last, g))
  <1> DEFINE Q(k) == QubitsOf(e.gates[k])
             new == NowLast(e.gates, last, g)
  <1>1. Len(e.gates) \in Nat /\ g \in 1..Len(e.gates)
    BY DEF IsEnvironment, FrontierOf
  <1>2. \A q \in Physical :
           /\ last[q] = -1 \/ (last[q] \in 1..Len(e.gates) /\ q \in Q(last[q]))
           /\ \A k \in 1..Len(e.gates) : q \in Q(k) => (k \in done <=> k <= last[q])
    BY DEF AreLast
  <1>3. g \notin done /\ \A k \in 1..g-1 : (\E q \in Q(k) : q \in Q(g)) => k \in done
    BY DEF FrontierOf
  <1> HIDE DEF Q
  <1> SUFFICES ASSUME NEW q \in Physical
               PROVE  /\ new[q] = -1 \/ (new[q] \in 1..Len(e.gates) /\ q \in Q(new[q]))
                      /\ \A k \in 1..Len(e.gates) :
                            q \in Q(k) => (k \in done \cup {g} <=> k <= new[q])
    BY DEF AreLast, Q
  <1>4. CASE q \in Q(g)
    <2>1. new[q] = g
      BY <1>4 DEF Q, NowLast
    <2>2. last[q] < g
      BY <1>1, <1>2, <1>3, <1>4
    <2>3. ASSUME NEW k \in 1..Len(e.gates), q \in Q(k)
          PROVE  k \in done \cup {g} <=> k <= g
      <3>1. k \in 1..g-1 => k \in done
        BY <1>3, <1>4, <2>3
      <3>2. k \in done => k <= last[q]
        BY <1>2, <2>3
      <3>3. last[q] \in Int
        BY <1>2
      <3> QED BY <1>1, <2>2, <3>1, <3>2, <3>3
    <2> QED BY <1>1, <1>4, <2>1, <2>3
  <1>5. CASE q \notin Q(g)
    <2>1. new[q] = last[q]
      BY <1>5 DEF Q, NowLast
    <2> QED BY <1>2, <1>5, <2>1
  <1> QED BY <1>4, <1>5

(* When gate g of the frontier is scheduled, it leaves the frontier, and   *)
(* all that joins it shares a qubit with g.                                *)
LEMMA FrontierStep ==
    ASSUME NEW e, IsEnvironment(e), NEW done, NEW last,
           AreLast(e.gates, done, last), NEW g \in 1..Len(e.gates), g \in FrontierOf(e.gates, done),
           NEW c \in 1..Len(e.gates)
    PROVE  IF QubitsOf(e.gates[c]) \cap QubitsOf(e.gates[g]) = {}
           THEN /\ c # g
                /\ c \in FrontierOf(e.gates, done \cup {g})
                      <=> c \in FrontierOf(e.gates, done)
           ELSE c # g => c \notin FrontierOf(e.gates, done)
  <1>1. Len(e.gates) \in Nat /\ g \in 1..Len(e.gates)
    BY DEF IsEnvironment, FrontierOf
  <1>2. CASE QubitsOf(e.gates[c]) \cap QubitsOf(e.gates[g]) = {}
    <2>1. e.gates[g].target \in QubitsOf(e.gates[g])
      BY <1>1, GateFields
    <2>2. c # g
      BY <1>2, <2>1
    <2>3. \A k \in 1..c-1 : QubitsOf(e.gates[k]) \cap QubitsOf(e.gates[c]) # {} => k # g
      BY <1>2
    <2> QED BY <1>2, <2>2, <2>3 DEF FrontierOf
  <1>3. ASSUME QubitsOf(e.gates[c]) \cap QubitsOf(e.gates[g]) # {}, c # g
        PROVE  c \notin FrontierOf(e.gates, done)
    <2>1. CASE c < g
      BY <1>1, <1>3, <2>1 DEF FrontierOf
    <2>2. CASE g < c
      <3>1. g \in 1..c-1 /\ g \notin done
        BY <1>1, <2>2 DEF FrontierOf
      <3> QED BY <1>3, <3>1 DEF FrontierOf
    <2> QED BY <1>1, <1>3, <2>1, <2>2
  <1> QED BY <1>2, <1>3

-----------------------------------------------------------------------------
(* The children of a gate by its qubits.                                   *)
LEMMA ChildOfQubit ==
    ASSUME NEW e, IsEnvironment(e), NEW g \in 1..Len(e.gates)
    PROVE  LET v == e.gates[g]
           IN  /\ ChildOn(v, v.target) = v.targetChild
               /\ ParentOn(v, v.target) = v.targetParent
               /\ ChildOn(v, v.control) = v.controlChild
               /\ ParentOn(v, v.control) = v.controlParent
  BY GateFields DEF ChildOn, ParentOn

(* The test that scheduleGate applies to a child c of the gate g it has    *)
(* scheduled, along their common qubit q, if g has no other child c along  *)
(* its other qubit: it looks at the other parent of c only, and compares   *)
(* that with the last gate on one qubit. This finds out whether c comes    *)
(* next on both of its qubits.                                             *)
LEMMA UnblockedIffNext ==
    ASSUME NEW e, IsEnvironment(e), NEW done, NEW last, NEW n,
           AreLast(e.gates, done, last),
           \A r \in Physical : last[r] = n.lastNonSwapGate[r].gate,
           NEW g \in 1..Len(e.gates), g \in FrontierOf(e.gates, done),
           NEW q \in QubitsOf(e.gates[g]), NEW c \in 1..Len(e.gates),
           ChildOn(e.gates[g], q) = c,
           e.gates[g].controlChild # e.gates[g].targetChild
    PROVE  IsUnblocked(n, e.gates, g, c) <=> c \in FrontierOf(e.gates, done \cup {g})
  <1> DEFINE Q(k) == QubitsOf(e.gates[k])
             v == e.gates[c]
             new == NowLast(e.gates, last, g)
  <1>1. Len(e.gates) \in Nat /\ g \in 1..Len(e.gates) /\ g \notin done
    BY DEF IsEnvironment, FrontierOf
  <1>2. q \in Q(c) /\ g < c /\ ParentOn(e.gates[c], q) = g
    BY <1>1, ChildIsNext
  <1>3. ParentOn(v, q) = g
    BY <1>2
  <1>4. AreLast(e.gates, done \cup {g}, new)
    BY AreLastStep
  <1>5. c \in FrontierOf(e.gates, done \cup {g})
           <=> \A r \in Q(c) : new[r] = Before(e.gates, c, r)
    BY <1>4, FrontierByLast
  <1>6. q \in Physical /\ Q(c) \subseteq Physical /\ Q(g) \subseteq Physical
    BY <1>1, GateFields
  <1>7. new[q] = Before(e.gates, c, q)
    BY <1>1, <1>3, <1>6 DEF Before, NoGate, NowLast
  <1>8. \A r \in Q(g) : /\ last[r] = Before(e.gates, g, r)
                         /\ ParentOn(e.gates[g], r) \in 0..g-1
    BY FrontierByLast, ParentFacts
  <1>9. /\ ParentOn(v, v.target) = v.targetParent
        /\ ParentOn(v, v.control) = v.controlParent
        /\ Q(c) = IF IsTwoQubit(v) THEN {v.control, v.target} ELSE {v.target}
        /\ v.control # v.target
    BY ChildOfQubit, GateFields
  <1>10. CASE ~IsTwoQubit(v)
    <2>1. Q(c) = {q}
      BY <1>2, <1>9, <1>10
    <2> QED BY <1>5, <1>7, <1>10, <2>1 DEF IsUnblocked
  <1>11. CASE IsTwoQubit(v)
    <2>1. PICK r \in Q(c) : r # q /\ Q(c) = {q, r}
      <3>1. Q(c) = {v.control, v.target} /\ Q(c) = {v.target, v.control}
        BY <1>9, <1>11
      <3> QED BY <1>2, <1>9, <3>1, Zenon
    <2> DEFINE p == ParentOn(v, r)
    <2>2. p # g
      <3>1. SUFFICES ASSUME p = g PROVE FALSE
        OBVIOUS
      <3>2. r \in QubitsOf(e.gates[g])
        <4>1. p # NoGate => r \in QubitsOf(e.gates[p])
          BY ParentFacts
        <4> QED BY <1>1, <3>1, <4>1 DEF NoGate
      <3>3. ChildOn(e.gates[g], r) = c
        BY <3>1, <3>2, ChildOfParent
      <3>4. Q(g) \subseteq {e.gates[g].control, e.gates[g].target}
        BY DEF QubitsOf
      <3>5. /\ ChildOn(e.gates[g], e.gates[g].target) = e.gates[g].targetChild
            /\ ChildOn(e.gates[g], e.gates[g].control) = e.gates[g].controlChild
        BY <1>1, ChildOfQubit
      <3> QED BY <2>1, <3>2, <3>3, <3>4, <3>5
    <2>3. IsUnblocked(n, e.gates, g, c) <=> p = NoGate \/ last[r] = p
      <3>1. CASE v.controlParent = g
        <4>1. v.target = r /\ v.targetParent = p
          BY <1>9, <1>11, <2>1, <2>2, <3>1
        <4> QED BY <1>6, <1>11, <3>1, <4>1 DEF IsUnblocked
      <3>2. CASE v.controlParent # g
        <4>1. v.control = r /\ v.controlParent = p
          BY <1>3, <1>9, <1>11, <2>1, <3>2
        <4> QED BY <1>6, <1>11, <3>2, <4>1 DEF IsUnblocked
      <3> QED BY <3>1, <3>2
    <2>4. c \in FrontierOf(e.gates, done \cup {g}) <=> new[r] = Before(e.gates, c, r)
      BY <1>5, <1>7, <2>1
    <2>5. /\ p \in 0..c-1
          /\ \A k \in 1..c-1 : r \in Q(k) => k <= p
      BY ParentFacts
    <2>6. last[r] = -1 \/ (last[r] \in 1..Len(e.gates) /\ r \in Q(last[r]))
      BY <1>6 DEF AreLast
    <2>7. CASE r \in Q(g)
      <3>1. g <= p
        BY <1>1, <1>2, <2>5, <2>7
      <3>2. last[r] = Before(e.gates, g, r) /\ ParentOn(e.gates[g], r) \in 0..g-1
        BY <1>8, <2>7
      <3>3. last[r] # p /\ p # NoGate
        BY <1>1, <2>2, <2>5, <3>1, <3>2 DEF Before, NoGate
      <3>4. new[r] = g /\ Before(e.gates, c, r) # g
        BY <1>6, <2>1, <2>2, <2>7, <3>3 DEF Before, NowLast
      <3> QED BY <2>3, <2>4, <3>3, <3>4
    <2>8. CASE r \notin Q(g)
      <3>1. new[r] = last[r]
        BY <1>6, <2>1, <2>8 DEF NowLast
      <3>2. last[q] < g
        <4>1. last[q] = Before(e.gates, g, q) /\ ParentOn(e.gates[g], q) \in 0..g-1
          BY <1>8
        <4> QED BY <1>1, <4>1 DEF Before, NoGate
      <3>3. last[r] < c
        <4>1. last[q] \in Int /\ last[r] \in Int
          BY <1>6, <2>6 DEF AreLast
        <4>2. c \notin done
          BY <1>1, <1>2, <1>6, <3>2, <4>1 DEF AreLast
        <4> QED BY <1>6, <2>1, <4>1, <4>2 DEF AreLast
      <3>4. p = NoGate => last[r] = -1
        <4>1. last[r] # -1 => last[r] \in 1..c-1 /\ r \in Q(last[r])
          BY <1>1, <2>6, <3>3
        <4> QED BY <2>5, <4>1 DEF NoGate
      <3> QED BY <2>3, <2>4, <3>1, <3>4 DEF Before
    <2> QED BY <2>7, <2>8
  <1> QED BY <1>10, <1>11

(* Only a child of g can come next because g has been scheduled.           *)
LEMMA NextIsChild ==
    ASSUME NEW e, IsEnvironment(e), NEW done, NEW last,
           AreLast(e.gates, done, last),
           NEW g \in 1..Len(e.gates), g \in FrontierOf(e.gates, done),
           NEW c \in 1..Len(e.gates), c \in FrontierOf(e.gates, done \cup {g}),
           QubitsOf(e.gates[c]) \cap QubitsOf(e.gates[g]) # {}
    PROVE  c \in {e.gates[g].controlChild, e.gates[g].targetChild}
  <1>1. PICK q \in QubitsOf(e.gates[g]) : q \in QubitsOf(e.gates[c])
    OBVIOUS
  <1>2. AreLast(e.gates, done \cup {g}, NowLast(e.gates, last, g))
    BY AreLastStep
  <1>3. \A r \in QubitsOf(e.gates[c]) :
            NowLast(e.gates, last, g)[r] = Before(e.gates, c, r)
    BY <1>2, FrontierByLast
  <1>4. NowLast(e.gates, last, g)[q] = g
    <2>1. q \in Physical
      BY GateFields
    <2> QED BY <2>1 DEF NowLast
  <1>5. Before(e.gates, c, q) = g
    BY <1>1, <1>3, <1>4
  <1>6. ParentOn(e.gates[c], q) = g
    BY <1>5 DEF Before, NoGate
  <1>7. ChildOn(e.gates[g], q) = c
    BY <1>1, <1>6, ChildOfParent
  <1>8. q \in {e.gates[g].control, e.gates[g].target}
    BY DEF QubitsOf
  <1> QED BY <1>7, <1>8, ChildOfQubit

(* If a gate is the child of g along both of g's qubits, it has no other   *)
(* qubits, so it comes next.                                               *)
LEMMA OnlyChildIsNext ==
    ASSUME NEW e, IsEnvironment(e), NEW done, NEW last,
           AreLast(e.gates, done, last),
           NEW g \in 1..Len(e.gates), g \in FrontierOf(e.gates, done),
           NEW c \in 1..Len(e.gates),
           e.gates[g].controlChild = c, e.gates[g].targetChild = c
    PROVE  c \in FrontierOf(e.gates, done \cup {g})
  <1> DEFINE v == e.gates[g]
             w == e.gates[c]
  <1>1. /\ IsTwoQubit(v)
        /\ QubitsOf(v) = {v.control, v.target} /\ v.control # v.target
        /\ QubitsOf(v) \subseteq Physical
    <2>1. v.controlChild # NoGate
      BY DEF NoGate
    <2>2. ~IsTwoQubit(v) => v.controlChild = NoGate
      BY GateFields
    <2>3. /\ QubitsOf(v) = IF IsTwoQubit(v) THEN {v.control, v.target} ELSE {v.target}
          /\ v.control # v.target
          /\ QubitsOf(v) \subseteq Physical
      BY GateFields
    <2> QED BY <2>1, <2>2, <2>3
  <1>2. ChildOn(v, v.control) = c /\ ChildOn(v, v.target) = c
    BY ChildOfQubit
  <1>3. \A q \in QubitsOf(v) : ChildOn(v, q) = c
    BY <1>1, <1>2
  <1>4. \A q \in QubitsOf(v) : q \in QubitsOf(w) /\ ParentOn(w, q) = g
    BY <1>3, ChildIsNext
  <1>5. QubitsOf(w) = {v.control, v.target}
    <2>1. QubitsOf(w) = IF IsTwoQubit(w) THEN {w.control, w.target} ELSE {w.target}
      BY GateFields
    <2>2. v.control \in QubitsOf(w) /\ v.target \in QubitsOf(w)
      BY <1>1, <1>4
    <2> QED BY <1>1, <2>1, <2>2
  <1>6. \A q \in QubitsOf(w) :
            NowLast(e.gates, last, g)[q] = g /\ Before(e.gates, c, q) = g
    BY <1>1, <1>4, <1>5 DEF NowLast, Before, NoGate
  <1>7. AreLast(e.gates, done \cup {g}, NowLast(e.gates, last, g))
    BY AreLastStep
  <1>8. \A q \in QubitsOf(w) : NowLast(e.gates, last, g)[q] = Before(e.gates, c, q)
    BY <1>6
  <1> HIDE DEF v, w
  <1>9. \A q \in QubitsOf(e.gates[c]) : NowLast(e.gates, last, g)[q] = Before(e.gates, c, q)
    BY <1>8 DEF w
  <1> QED BY <1>7, <1>9, FrontierByLast

(* The concatenation of two sequences of at most one element.              *)
LEMMA PairSequence ==
    ASSUME NEW S, NEW a \in S, NEW b \in S, a # b, NEW u, u = <<a>> \o <<b>>
    PROVE  /\ u \in Seq(S)
           /\ \A i, j \in DOMAIN u : u[i] = u[j] => i = j
           /\ DOMAIN u = {1, 2} /\ u[1] = a /\ u[2] = b
  <1>1. /\ <<a>> \in Seq(S) /\ Len(<<a>>) = 1 /\ <<a>>[1] = a
        /\ <<b>> \in Seq(S) /\ Len(<<b>>) = 1 /\ <<b>>[1] = b
    OBVIOUS
  <1>2. /\ <<a>> \o <<b>> \in Seq(S)
        /\ Len(<<a>> \o <<b>>) = Len(<<a>>) + Len(<<b>>)
        /\ \A i \in 1..Len(<<a>>) + Len(<<b>>) : (<<a>> \o <<b>>)[i] =
              IF i <= Len(<<a>>) THEN <<a>>[i] ELSE <<b>>[i - Len(<<a>>)]
    BY <1>1, ConcatProperties
  <1>3. /\ u \in Seq(S) /\ Len(u) = 2
        /\ \A i \in 1..2 : u[i] = IF i <= 1 THEN <<a>>[i] ELSE <<b>>[i - 1]
    BY <1>1, <1>2
  <1>4. u[1] = a /\ u[2] = b
    BY <1>1, <1>3
  <1>5. DOMAIN u = {1, 2}
    BY <1>3
  <1>6. \A i, j \in DOMAIN u : u[i] = u[j] => i = j
    BY <1>4, <1>5
  <1> QED BY <1>3, <1>4, <1>5, <1>6

(* If only one of them has an element.                                     *)
LEMMA SingletonSequence ==
    ASSUME NEW S, NEW a \in S, NEW u,
           u = <<a>> \o <<>> \/ u = <<>> \o <<a>>
    PROVE  /\ u \in Seq(S)
           /\ \A i, j \in DOMAIN u : u[i] = u[j] => i = j
           /\ \A c : (\E i \in DOMAIN u : u[i] = c) <=> c = a
  <1>1. <<a>> \o <<>> = <<a>> /\ <<>> \o <<a>> = <<a>>
    OBVIOUS
  <1>2. u = <<a>>
    BY <1>1
  <1> QED BY <1>2

(* If none of them has.                                                    *)
LEMMA EmptySequence ==
    ASSUME NEW S, NEW u, u = <<>> \o <<>>
    PROVE  /\ u \in Seq(S)
           /\ \A i, j \in DOMAIN u : u[i] = u[j] => i = j
           /\ \A c : ~(\E i \in DOMAIN u : u[i] = c)
  <1>1. <<>> \o <<>> = <<>>
    OBVIOUS
  <1>2. u = <<>>
    BY <1>1
  <1> QED BY <1>2

(* The children of a gate are gates.                                       *)
LEMMA ChildrenAreGates ==
    ASSUME NEW e, IsEnvironment(e), NEW g \in 1..Len(e.gates)
    PROVE  /\ e.gates[g].controlChild # NoGate => e.gates[g].controlChild \in 1..Len(e.gates)
           /\ e.gates[g].targetChild # NoGate => e.gates[g].targetChild \in 1..Len(e.gates)
  <1> DEFINE v == e.gates[g]
  <1>1. Len(e.gates) \in Nat
    BY DEF IsEnvironment
  <1>2. \A q \in QubitsOf(v) : ChildOn(v, q) # NoGate => ChildOn(v, q) \in 1..Len(e.gates)
    <2>1. \A q \in QubitsOf(v) : ChildOn(v, q) = NoGate
                                   \/ ChildOn(v, q) \in g+1..Len(e.gates)
      BY ChildFacts
    <2> QED BY <1>1, <2>1
  <1>3. v.target \in QubitsOf(v) /\ (v.controlChild # NoGate => v.control \in QubitsOf(v))
    BY GateFields
  <1>4. ChildOn(v, v.target) = v.targetChild /\ ChildOn(v, v.control) = v.controlChild
    BY ChildOfQubit
  <1> HIDE DEF v
  <1>5. /\ v.controlChild # NoGate => v.controlChild \in 1..Len(e.gates)
        /\ v.targetChild # NoGate => v.targetChild \in 1..Len(e.gates)
    BY <1>2, <1>3, <1>4
  <1> QED BY <1>5 DEF v

(* The gates found unblocked are gates.                                    *)
LEMMA UnblockedType ==
    ASSUME NEW e, IsEnvironment(e), NEW n, NEW g \in 1..Len(e.gates)
    PROVE  Unblocked(n, e.gates, g) \in Seq(1..Len(e.gates))
  <1> DEFINE S == 1..Len(e.gates)
             Child(c) == IF c # NoGate /\ IsUnblocked(n, e.gates, g, c) THEN <<c>> ELSE <<>>
             cc == e.gates[g].controlChild
             tc == e.gates[g].targetChild
  <1>1. (cc # NoGate => cc \in S) /\ (tc # NoGate => tc \in S)
    BY ChildrenAreGates
  <1>2. CASE cc = tc
    <2>1. Unblocked(n, e.gates, g) = IF cc = NoGate THEN <<>> ELSE <<cc>>
      BY <1>2 DEF Unblocked
    <2> HIDE DEF S, cc
    <2>2. Unblocked(n, e.gates, g) \in Seq(S)
      BY <1>1, <2>1
    <2> QED BY <2>2 DEF S
  <1>3. CASE cc # tc
    <2>1. Unblocked(n, e.gates, g) = Child(cc) \o Child(tc)
      BY <1>3 DEF Unblocked
    <2> HIDE DEF S, cc, tc
    <2>2. Child(cc) \in Seq(S) /\ Child(tc) \in Seq(S)
      BY <1>1
    <2>3. Unblocked(n, e.gates, g) \in Seq(S)
      <3> HIDE DEF Child
      <3> QED BY <2>1, <2>2, ConcatProperties
    <2> QED BY <2>3 DEF S
  <1> QED BY <1>2, <1>3

(* The gates that scheduleGate finds unblocked after g are exactly the     *)
(* ones that join the frontier, each found once.                           *)
UnblockedAre(gs, n, done, g) ==
    LET u == Unblocked(n, gs, g)
    IN  /\ u \in Seq(1..Len(gs))
        /\ \A i, j \in DOMAIN u : u[i] = u[j] => i = j
        /\ \A c \in 1..Len(gs) :
              (\E i \in DOMAIN u : u[i] = c)
                <=> /\ c \in FrontierOf(gs, done \cup {g})
                    /\ QubitsOf(gs[c]) \cap QubitsOf(gs[g]) # {}

(* This is so if the last gates on the qubits of the circuit are known.    *)
LEMMA UnblockedExact ==
    ASSUME NEW e, IsEnvironment(e), NEW done, NEW last, NEW n,
           AreLast(e.gates, done, last),
           \A r \in Physical : last[r] = n.lastNonSwapGate[r].gate,
           NEW g \in 1..Len(e.gates), g \in FrontierOf(e.gates, done)
    PROVE  UnblockedAre(e.gates, n, done, g)
  <1> DEFINE gs == e.gates
             cc == gs[g].controlChild
             tc == gs[g].targetChild
             Joins(c) == /\ c \in FrontierOf(gs, done \cup {g})
                         /\ QubitsOf(gs[c]) \cap QubitsOf(gs[g]) # {}
             Child(c) == IF c # NoGate /\ IsUnblocked(n, gs, g, c) THEN <<c>> ELSE <<>>
  <1>1. \A c \in 1..Len(gs) : Joins(c) => c = cc \/ c = tc
    <2> SUFFICES ASSUME NEW c \in 1..Len(gs), Joins(c)
                 PROVE  c \in {cc, tc}
      OBVIOUS
    <2> QED BY NextIsChild
  <1>2. \E q \in QubitsOf(gs[g]) : ChildOn(gs[g], q) = tc
    <2>1. gs[g].target \in QubitsOf(gs[g])
      BY GateFields
    <2>2. ChildOn(gs[g], gs[g].target) = tc
      BY ChildOfQubit
    <2> QED BY <2>1, <2>2
  <1>3. cc # NoGate => \E q \in QubitsOf(gs[g]) : ChildOn(gs[g], q) = cc
    <2>1. cc # NoGate => gs[g].control \in QubitsOf(gs[g])
      BY GateFields
    <2>2. ChildOn(gs[g], gs[g].control) = cc
      BY ChildOfQubit
    <2> QED BY <2>1, <2>2
  <1>4. ASSUME NEW c, c # NoGate, NEW q \in QubitsOf(gs[g]), ChildOn(gs[g], q) = c
        PROVE  /\ c \in 1..Len(gs)
               /\ QubitsOf(gs[c]) \cap QubitsOf(gs[g]) # {}
    <2>1. /\ ChildOn(gs[g], q) = NoGate \/ ChildOn(gs[g], q) \in g+1..Len(gs)
          /\ ChildOn(gs[g], q) # NoGate => q \in QubitsOf(gs[ChildOn(gs[g], q)])
      BY ChildFacts
    <2>2. Len(gs) \in Nat
      BY DEF IsEnvironment
    <2>3. c \in 1..Len(gs)
      BY <1>4, <2>1, <2>2
    <2> QED BY <1>4, <2>1, <2>3
  <1>5. /\ cc # NoGate => cc \in 1..Len(gs) /\ QubitsOf(gs[cc]) \cap QubitsOf(gs[g]) # {}
        /\ tc # NoGate => tc \in 1..Len(gs) /\ QubitsOf(gs[tc]) \cap QubitsOf(gs[g]) # {}
    BY <1>2, <1>3, <1>4
  <1> DEFINE u == Unblocked(n, gs, g)
             A == cc # NoGate /\ cc # tc /\ IsUnblocked(n, gs, g, cc)
             B == tc # NoGate /\ (cc = tc \/ IsUnblocked(n, gs, g, tc))
  <1>6. u = (IF A THEN <<cc>> ELSE <<>>) \o (IF B THEN <<tc>> ELSE <<>>)
    <2>1. CASE cc = tc
      <3>1. u = IF tc = NoGate THEN <<>> ELSE <<tc>>
        BY <2>1 DEF Unblocked
      <3>2. <<>> \o <<>> = <<>> /\ <<>> \o <<tc>> = <<tc>>
        OBVIOUS
      <3> HIDE DEF u, cc, tc
      <3> QED BY <2>1, <3>1, <3>2
    <2>2. CASE cc # tc
      <3>1. u = Child(cc) \o Child(tc)
        BY <2>2 DEF Unblocked
      <3>2. (A <=> cc # NoGate /\ IsUnblocked(n, gs, g, cc))
            /\ (B <=> tc # NoGate /\ IsUnblocked(n, gs, g, tc))
        BY <2>2
      <3> HIDE DEF u, cc, tc, A, B
      <3> QED BY <3>1, <3>2
    <2> QED BY <2>1, <2>2
  <1>7. \A c \in 1..Len(gs) : Joins(c) <=> (A /\ c = cc) \/ (B /\ c = tc)
    <2>1. CASE cc = tc
      <3>1. tc # NoGate => Joins(tc)
        BY <1>5, <2>1, OnlyChildIsNext
      <3>2. \A c \in 1..Len(gs) : c # NoGate
        BY DEF NoGate
      <3> HIDE DEF gs, cc, tc, Joins
      <3> QED BY <1>1, <2>1, <3>1, <3>2
    <2>2. CASE cc # tc
      <3>1. cc # NoGate => (IsUnblocked(n, gs, g, cc) <=> Joins(cc))
        BY <1>3, <1>5, <2>2, UnblockedIffNext
      <3>2. tc # NoGate => (IsUnblocked(n, gs, g, tc) <=> Joins(tc))
        BY <1>2, <1>5, <2>2, UnblockedIffNext
      <3>3. \A c \in 1..Len(gs) : c # NoGate
        BY DEF NoGate
      <3> HIDE DEF gs, cc, tc, Joins
      <3> QED BY <1>1, <2>2, <3>1, <3>2, <3>3
    <2> QED BY <2>1, <2>2
  <1>8. (A => cc \in 1..Len(gs)) /\ (B => tc \in 1..Len(gs)) /\ (A /\ B => cc # tc)
    BY <1>5
  <1> DEFINE S == 1..Len(gs)
  <1>9. (A => cc \in S) /\ (B => tc \in S) /\ (A /\ B => cc # tc)
    BY <1>8
  <1> HIDE DEF u, A, B, cc, tc, S
  <1>10. /\ u \in Seq(S)
         /\ \A i, j \in DOMAIN u : u[i] = u[j] => i = j
         /\ \A c : (\E i \in DOMAIN u : u[i] = c) <=> (A /\ c = cc) \/ (B /\ c = tc)
    <2>1. CASE A /\ B
      <3>1. u = <<cc>> \o <<tc>>
        BY <1>6, <2>1
      <3>2. cc \in S /\ tc \in S /\ cc # tc
        BY <1>9, <2>1
      <3>3. u \in Seq(S)
        BY <3>1, <3>2, PairSequence
      <3>4. \A i, j \in DOMAIN u : u[i] = u[j] => i = j
        BY <3>1, <3>2, PairSequence
      <3>5. \A c : (\E i \in DOMAIN u : u[i] = c) <=> c = cc \/ c = tc
        <4>1. DOMAIN u = {1, 2} /\ u[1] = cc /\ u[2] = tc
          BY <3>1, <3>2, PairSequence
        <4> QED BY <4>1
      <3> QED BY <2>1, <3>3, <3>4, <3>5
    <2>2. CASE A /\ ~B
      <3>1. u = <<cc>> \o <<>>
        BY <1>6, <2>2
      <3> QED BY <1>9, <2>2, <3>1, SingletonSequence
    <2>3. CASE ~A /\ B
      <3>1. u = <<>> \o <<tc>>
        BY <1>6, <2>3
      <3> QED BY <1>9, <2>3, <3>1, SingletonSequence
    <2>4. CASE ~A /\ ~B
      <3>1. u = <<>> \o <<>>
        BY <1>6, <2>4
      <3> QED BY <2>4, <3>1, EmptySequence
    <2> QED BY <2>1, <2>2, <2>3, <2>4
  <1> QED BY <1>7, <1>10 DEF u, S, UnblockedAre

-----------------------------------------------------------------------------
(* The qubits of a gate are logical ones.                                  *)
LEMMA LogicalQubits ==
    ASSUME NEW e, IsEnvironment(e), NEW g \in 1..Len(e.gates)
    PROVE  /\ e.gates[g].target \in 0..e.numLogical-1
           /\ IsTwoQubit(e.gates[g]) => e.gates[g].control \in 0..e.numLogical-1
           /\ QubitsOf(e.gates[g]) \subseteq 0..e.numLogical-1
  <1> DEFINE v == e.gates[g]
  <1>1. v \in GateNodes(e.numLogical) /\ e.numLogical \in Int
    BY NodeAssumption DEF IsEnvironment
  <1> HIDE DEF v
  <1>2. v.control \in -1..e.numLogical-1 /\ v.target \in 0..e.numLogical-1
    BY <1>1 DEF GateNodes
  <1> QED BY <1>1, <1>2 DEF v, IsTwoQubit, QubitsOf

(* The entry that scheduleGate makes for a gate of the circuit.            *)
LEMMA EntryOfFields ==
    ASSUME NEW e, IsEnvironment(e), NEW n \in Nodes, n.cycle >= 0,
           NEW g \in 1..Len(e.gates)
    PROVE  /\ PhysicalControl(n, e.gates[g]) \in Place
           /\ PhysicalTarget(n, e.gates[g]) \in Place
           /\ EntryOf(n, e.gates, g) \in ScheduledGates
           /\ EntryOf(n, e.gates, g).gate = g
           /\ EntryOf(n, e.gates, g).cycle = n.cycle
           /\ EntryOf(n, e.gates, g).latency = Latency(e.gates[g].name,
                 PhysicalTarget(n, e.gates[g]), PhysicalControl(n, e.gates[g]))
           /\ EntryOf(n, e.gates, g).physicalControl = PhysicalControl(n, e.gates[g])
           /\ EntryOf(n, e.gates, g).physicalTarget = PhysicalTarget(n, e.gates[g])
           /\ QubitsOfEntry(EntryOf(n, e.gates, g))
                 = {PhysicalControl(n, e.gates[g]), PhysicalTarget(n, e.gates[g])}
                      \ {Unmapped}
  <1> DEFINE v == e.gates[g]
  <1>1. /\ v.name \in GateNames /\ v.target \in Physical /\ v.control \in Place
        /\ v.control = -1 \/ v.control \in Physical
    BY GateFields DEF IsTwoQubit
  <1>2. n.laq \in [Physical -> Place]
    BY DEF Nodes
  <1> HIDE DEF v
  <1>3. PhysicalControl(n, v) \in Place /\ PhysicalTarget(n, v) \in Place
    BY <1>1, <1>2 DEF PhysicalControl, PhysicalTarget, Place, Unmapped
  <1>4. g \in Nat
    BY DEF IsEnvironment
  <1> QED BY <1>1, <1>3, <1>4, ScheduledGateFields DEF EntryOf, v

-----------------------------------------------------------------------------

(* Type correctness.                                                       *)

(* The part of TypeOK that concerns the node of a path.                    *)
TypedNode(e, n) ==
    /\ n \in Nodes
    /\ n.readyGates \subseteq 1..Len(e.gates)
    /\ \A i \in DOMAIN n.scheduled : n.scheduled[i].gate \in 0..Len(e.gates)

(* An entry of a gate of the circuit, or of a generated swap, may be       *)
(* appended to a schedule of such entries.                                 *)
LEMMA AppendTyped ==
    ASSUME NEW s \in Seq(ScheduledGates), NEW N \in Nat,
           \A i \in DOMAIN s : s[i].gate \in 0..N,
           NEW sg \in ScheduledGates, sg.gate \in 0..N
    PROVE  \A i \in DOMAIN Append(s, sg) : Append(s, sg)[i].gate \in 0..N
  <1>1. \A i \in DOMAIN Append(s, sg) :
            Append(s, sg)[i] = sg \/ (i \in DOMAIN s /\ Append(s, sg)[i] = s[i])
    OBVIOUS
  <1> QED BY <1>1

(* Scheduling a gate of the circuit alone keeps the node typed.            *)
LEMMA ScheduleAloneTyped ==
    ASSUME NEW e, IsEnvironment(e), NEW n \in Nodes, TypedNode(e, n), n.cycle >= 0,
           NEW g \in 1..Len(e.gates)
    PROVE  /\ TypedNode(e, ScheduleAlone(n, e.gates, g))
           /\ ScheduleAlone(n, e.gates, g).cycle = n.cycle
  <1> DEFINE m == ScheduleAlone(n, e.gates, g)
             sg == EntryOf(n, e.gates, g)
  <1>1. n \in Nodes /\ g \in Nat /\ Len(e.gates) \in Nat
    BY DEF TypedNode, IsEnvironment
  <1>2. sg \in ScheduledGates /\ sg.gate = g
    BY <1>1, EntryOfFields
  <1>3. /\ m \in Nodes /\ m.cycle = n.cycle
        /\ m.readyGates = n.readyGates \ {g}
        /\ m.scheduled = Append(n.scheduled, sg)
    BY <1>1, <1>2, ScheduleAloneFields
  <1>4. n.scheduled \in Seq(ScheduledGates)
    BY <1>1 DEF Nodes
  <1> HIDE DEF m, sg
  <1>5. \A i \in DOMAIN m.scheduled : m.scheduled[i].gate \in 0..Len(e.gates)
    BY <1>1, <1>2, <1>3, <1>4, AppendTyped DEF TypedNode
  <1> QED BY <1>3, <1>5 DEF TypedNode, m

(* So does scheduling a swap, generated or of the circuit.                 *)
LEMMA ScheduleSwapTyped ==
    ASSUME NEW e, IsEnvironment(e), NEW n \in Nodes, TypedNode(e, n), n.cycle >= 0,
           NEW g \in 0..Len(e.gates), NEW name \in GateNames,
           NEW pc \in Physical, NEW pt \in Physical
    PROVE  /\ TypedNode(e, ScheduleSwap(n, g, name, pc, pt))
           /\ ScheduleSwap(n, g, name, pc, pt).cycle = n.cycle
  <1> DEFINE sg == ScheduledGate(n, g, name, pc, pt)
             m == PushScheduled(n, sg)
             r == ScheduleSwap(n, g, name, pc, pt)
  <1>1. n \in Nodes /\ g \in Nat /\ Len(e.gates) \in Nat /\ pc \in Place /\ pt \in Place
    BY DEF TypedNode, IsEnvironment, Place
  <1>2. sg \in ScheduledGates /\ sg.gate = g
    BY <1>1, ScheduledGateFields
  <1>3. /\ m \in Nodes /\ m.cycle = n.cycle /\ m.readyGates = n.readyGates
        /\ m.scheduled = Append(n.scheduled, sg)
    BY <1>1, <1>2, PushScheduledFields
  <1>4. r = SwapQubits(m, pc, pt)
    BY DEF ScheduleSwap
  <1>5. n.scheduled \in Seq(ScheduledGates)
    BY <1>1 DEF Nodes
  <1> HIDE DEF m, sg, r
  <1>6. /\ r \in Nodes /\ r.cycle = m.cycle /\ r.readyGates = m.readyGates
        /\ r.scheduled = m.scheduled
    BY <1>3, <1>4, SwapQubitsFields
  <1>7. \A i \in DOMAIN r.scheduled : r.scheduled[i].gate \in 0..Len(e.gates)
    BY <1>1, <1>2, <1>3, <1>5, <1>6, AppendTyped DEF TypedNode
  <1> QED BY <1>3, <1>6, <1>7 DEF TypedNode, r

(* Making an unblocked gate ready.                                         *)
MakeReady(n, g) == [n EXCEPT !.readyGates = @ \cup {g}]

(* Only readyGates changes.                                                *)
LEMMA MakeReadyFields ==
    ASSUME NEW n \in Nodes, NEW g, g \in Nat
    PROVE  /\ MakeReady(n, g) \in Nodes
           /\ MakeReady(n, g).cycle = n.cycle
           /\ MakeReady(n, g).qal = n.qal /\ MakeReady(n, g).laq = n.laq
           /\ MakeReady(n, g).lastNonSwapGate = n.lastNonSwapGate
           /\ MakeReady(n, g).lastNonZeroLatencyGate = n.lastNonZeroLatencyGate
           /\ MakeReady(n, g).readyGates = n.readyGates \cup {g}
           /\ MakeReady(n, g).numUnscheduledGates = n.numUnscheduledGates
           /\ MakeReady(n, g).scheduled = n.scheduled
  BY DEF MakeReady, Nodes

(* What one iteration of the loop over unblocked gates does.               *)
LEMMA VisitCases ==
    ASSUME NEW n, NEW gs, NEW p
    PROVE  LET c == Head(p)
               m == MakeReady(n, c)
               call == VisitUnblocked(n, gs, p)
           IN  \/ /\ IsPlaceable(m, gs[c])
                  /\ CanStart(m, gs[c].name, PhysicalControl(m, gs[c]),
                              PhysicalTarget(m, gs[c]))
                  /\ call.node = ScheduleAlone(m, gs, c)
                  /\ call.pending = Unblocked(m, gs, c) \o Tail(p)
               \/ call.node = m /\ call.pending = Tail(p)
  BY DEF VisitUnblocked, MakeReady, Call

(* The root node is typed.                                                 *)
LEMMA RootTyped ==
    ASSUME NEW e, IsEnvironment(e), NEW c \in Nat,
           NEW layout \in [Physical -> Place] \cup {NoLayout}
    PROVE  TypedNode(e, Root(e, layout, c))
  <1>1. IsEnvironment(e) /\ Len(e.gates) \in Nat
    BY DEF IsEnvironment
  <1>2. layout = NoLayout \/ layout \in [Physical -> Place]
    OBVIOUS
  <1>3. e.numLogical \in 0..NumPhysical /\ NumPhysical \in Nat
    BY <1>1, NodeAssumption DEF IsEnvironment
  <1>4. IdentityLayout(e.numLogical) \in [Physical -> Place]
    BY <1>3 DEF IdentityLayout, Place, Physical, Unmapped
  <1>5. layout \in [Physical -> Place] => LaqOf(layout, e.numLogical) \in [Physical -> Place]
    <2> SUFFICES ASSUME layout \in [Physical -> Place], NEW q \in Physical
                 PROVE  LaqOf(layout, e.numLogical)[q] \in Place
      BY DEF LaqOf
    <2> DEFINE at == {x \in Physical : layout[x] = q}
    <2>1. CASE at = {}
      BY <1>4, <2>1 DEF LaqOf
    <2>2. CASE at # {}
      <3>1. NumPhysical - 1 \in Nat /\ at \in SUBSET (0..NumPhysical - 1)
        BY NodeAssumption DEF Physical
      <3>2. \E x \in at : \A y \in at : y <= x
        <4> HIDE DEF at
        <4> QED BY <2>2, <3>1, Greatest
      <3>3. LaqOf(layout, e.numLogical)[q] = CHOOSE x \in at : \A y \in at : y <= x
        BY <2>2 DEF LaqOf
      <3>4. (CHOOSE x \in at : \A y \in at : y <= x) \in at
        <4> HIDE DEF at
        <4> QED BY <3>2
      <3> QED BY <3>3, <3>4 DEF Place
    <2> QED BY <2>1, <2>2
  <1>6. e.firstGates \subseteq 1..Len(e.gates)
    BY <1>1 DEF IsEnvironment, Roots
  <1>7. /\ [q \in Physical |-> Null] \in [Physical -> ScheduledGates \cup {Null}]
        /\ <<>> \in Seq(ScheduledGates)
        /\ -1 - c \in Int
        /\ e.firstGates \in SUBSET Nat
    BY <1>6
  <1> QED BY <1>1, <1>2, <1>4, <1>5, <1>6, <1>7 DEF TypedNode, Nodes, Root

(* A node of the next cycle.                                               *)
LEMMA PrepChildFields ==
    ASSUME NEW n \in Nodes
    PROVE  /\ PrepChild(n) \in Nodes
           /\ PrepChild(n).cycle = n.cycle + 1
           /\ PrepChild(n).qal = n.qal /\ PrepChild(n).laq = n.laq
           /\ PrepChild(n).lastNonSwapGate = n.lastNonSwapGate
           /\ PrepChild(n).lastNonZeroLatencyGate = n.lastNonZeroLatencyGate
           /\ PrepChild(n).readyGates = n.readyGates
           /\ PrepChild(n).numUnscheduledGates = n.numUnscheduledGates
           /\ PrepChild(n).scheduled = n.scheduled
  <1> DEFINE m == PrepChild(n)
             cycle == n.cycle + 1
  <1>1. cycle \in Int
    BY DEF Nodes
  <1>2. m = [n EXCEPT !.root = FALSE, !.cycle = cycle]
    BY DEF PrepChild
  <1> HIDE DEF m, cycle
  <1>3. /\ m \in Nodes /\ m.cycle = cycle
        /\ m.qal = n.qal /\ m.laq = n.laq
        /\ m.lastNonSwapGate = n.lastNonSwapGate
        /\ m.lastNonZeroLatencyGate = n.lastNonZeroLatencyGate
        /\ m.readyGates = n.readyGates
        /\ m.numUnscheduledGates = n.numUnscheduledGates
        /\ m.scheduled = n.scheduled
    BY <1>1, <1>2 DEF Nodes
  <1> QED BY <1>3 DEF m, cycle

(* A node with two logical qubits placed by a layout module.               *)
LEMMA PlaceOnFields ==
    ASSUME NEW n \in Nodes, NEW q1 \in Physical, NEW q2 \in Physical,
           NEW p1 \in Physical, NEW p2 \in Physical
    PROVE  /\ PlaceOn(n, q1, q2, p1, p2) \in Nodes
           /\ PlaceOn(n, q1, q2, p1, p2).cycle = n.cycle
           /\ PlaceOn(n, q1, q2, p1, p2).lastNonSwapGate = n.lastNonSwapGate
           /\ PlaceOn(n, q1, q2, p1, p2).lastNonZeroLatencyGate = n.lastNonZeroLatencyGate
           /\ PlaceOn(n, q1, q2, p1, p2).readyGates = n.readyGates
           /\ PlaceOn(n, q1, q2, p1, p2).numUnscheduledGates = n.numUnscheduledGates
           /\ PlaceOn(n, q1, q2, p1, p2).scheduled = n.scheduled
  <1> DEFINE laq == [n.laq EXCEPT ![q1] = p1, ![q2] = p2]
             qal == [n.qal EXCEPT ![p1] = q1, ![p2] = q2]
             m == PlaceOn(n, q1, q2, p1, p2)
  <1>1. laq \in [Physical -> Place] /\ qal \in [Physical -> Place]
    BY DEF Nodes, Place
  <1>2. m = [n EXCEPT !.laq = laq, !.qal = qal]
    BY DEF PlaceOn
  <1> HIDE DEF laq, qal, m
  <1>3. /\ m \in Nodes /\ m.cycle = n.cycle
        /\ m.laq = laq /\ m.qal = qal
        /\ m.lastNonSwapGate = n.lastNonSwapGate
        /\ m.lastNonZeroLatencyGate = n.lastNonZeroLatencyGate
        /\ m.readyGates = n.readyGates
        /\ m.numUnscheduledGates = n.numUnscheduledGates
        /\ m.scheduled = n.scheduled
    BY <1>1, <1>2 DEF Nodes
  <1> QED BY <1>3 DEF m, laq, qal

(* Its layout.                                                             *)
LEMMA PlaceOnLayout ==
    ASSUME NEW n \in Nodes, NEW q1, NEW q2, NEW p1, NEW p2, NEW x \in Physical
    PROVE  /\ PlaceOn(n, q1, q2, p1, p2).laq[x]
                 = IF x = q2 THEN p2 ELSE IF x = q1 THEN p1 ELSE n.laq[x]
           /\ PlaceOn(n, q1, q2, p1, p2).qal[x]
                 = IF x = p2 THEN q2 ELSE IF x = p1 THEN q1 ELSE n.qal[x]
  BY DEF PlaceOn, Nodes

(* All of these keep the node typed.                                       *)
LEMMA OthersTyped ==
    ASSUME NEW e, IsEnvironment(e), NEW n \in Nodes, TypedNode(e, n)
    PROVE  /\ TypedNode(e, PrepChild(n))
           /\ \A p1, p2 \in Physical : TypedNode(e, SwapQubits(n, p1, p2))
           /\ \A g \in 1..Len(e.gates) :
                 TypedNode(e, MakeReady(n, g)) /\ MakeReady(n, g).cycle = n.cycle
           /\ \A g \in 1..Len(e.gates) : \A pc, pt \in Physical :
                 IsTwoQubit(e.gates[g]) =>
                    TypedNode(e, PlaceOn(n, e.gates[g].control, e.gates[g].target, pc, pt))
  <1>1. TypedNode(e, PrepChild(n))
    BY PrepChildFields DEF TypedNode
  <1>2. ASSUME NEW p1 \in Physical, NEW p2 \in Physical
        PROVE  TypedNode(e, SwapQubits(n, p1, p2))
    BY SwapQubitsFields DEF TypedNode
  <1>3. ASSUME NEW g \in 1..Len(e.gates)
        PROVE  TypedNode(e, MakeReady(n, g)) /\ MakeReady(n, g).cycle = n.cycle
    <2>1. g \in Nat
      BY DEF IsEnvironment
    <2> QED BY <2>1, MakeReadyFields DEF TypedNode
  <1>4. ASSUME NEW g \in 1..Len(e.gates), NEW pc \in Physical, NEW pt \in Physical,
               IsTwoQubit(e.gates[g])
        PROVE  TypedNode(e, PlaceOn(n, e.gates[g].control, e.gates[g].target, pc, pt))
    <2>1. e.gates[g].control \in Physical /\ e.gates[g].target \in Physical
      BY <1>4, GateFields
    <2>2. \A q1, q2 \in Physical : TypedNode(e, PlaceOn(n, q1, q2, pc, pt))
      <3> SUFFICES ASSUME NEW q1 \in Physical, NEW q2 \in Physical
                   PROVE  TypedNode(e, PlaceOn(n, q1, q2, pc, pt))
        OBVIOUS
      <3> DEFINE m == PlaceOn(n, q1, q2, pc, pt)
      <3>1. m \in Nodes
        BY PlaceOnFields
      <3>2. m.readyGates = n.readyGates /\ m.scheduled = n.scheduled
        BY PlaceOnFields
      <3> HIDE DEF m
      <3>3. TypedNode(e, m)
        BY <3>1, <3>2 DEF TypedNode
      <3> QED BY <3>3 DEF m
    <2> QED BY <2>1, <2>2
  <1> QED BY <1>1, <1>2, <1>3, <1>4

(* One iteration of the loop over unblocked gates keeps the node typed.    *)
LEMMA VisitTyped ==
    ASSUME NEW e, IsEnvironment(e), NEW n \in Nodes, TypedNode(e, n), n.cycle >= 0,
           NEW p \in Seq(1..Len(e.gates)), p # <<>>
    PROVE  /\ TypedNode(e, VisitUnblocked(n, e.gates, p).node)
           /\ VisitUnblocked(n, e.gates, p).node.cycle = n.cycle
           /\ VisitUnblocked(n, e.gates, p).pending \in Seq(1..Len(e.gates))
  <1> DEFINE c == Head(p)
             m == MakeReady(n, c)
             call == VisitUnblocked(n, e.gates, p)
  <1>1. c \in 1..Len(e.gates) /\ Tail(p) \in Seq(1..Len(e.gates))
    OBVIOUS
  <1>2. TypedNode(e, m) /\ m.cycle = n.cycle
    BY <1>1, OthersTyped
  <1>3. m \in Nodes /\ m.cycle >= 0
    BY <1>2 DEF TypedNode
  <1> HIDE DEF m, c
  <1>4. TypedNode(e, ScheduleAlone(m, e.gates, c))
        /\ ScheduleAlone(m, e.gates, c).cycle = m.cycle
    BY <1>1, <1>2, <1>3, ScheduleAloneTyped
  <1>5. Unblocked(m, e.gates, c) \o Tail(p) \in Seq(1..Len(e.gates))
    <2>1. Unblocked(m, e.gates, c) \in Seq(1..Len(e.gates))
      BY <1>1, UnblockedType
    <2> QED BY <1>1, <2>1, ConcatProperties
  <1>6. \/ /\ call.node = ScheduleAlone(m, e.gates, c)
           /\ call.pending = Unblocked(m, e.gates, c) \o Tail(p)
        \/ call.node = m /\ call.pending = Tail(p)
    BY VisitCases DEF m, c
  <1> HIDE DEF call
  <1>7. TypedNode(e, call.node) /\ call.node.cycle = n.cycle
        /\ call.pending \in Seq(1..Len(e.gates))
    BY <1>1, <1>2, <1>4, <1>5, <1>6
  <1> QED BY <1>7 DEF call

(* The couplings are between physical qubits.                              *)
LEMMA CouplingFacts ==
    ASSUME NEW c \in Couplings
    PROVE  c[1] \in Physical /\ c[2] \in Physical /\ c[1] # c[2]
  BY NodeAssumption

-----------------------------------------------------------------------------

(* The ways in which a step changes the node.                              *)

(* A gate of the circuit that can start now is scheduled on the node, or   *)
(* on the node in which it has just become ready.                          *)
GateStep(e, n, m, g) ==
    /\ n.cycle >= 0
    /\ CanStart(n, e.gates[g].name, PhysicalControl(n, e.gates[g]),
                PhysicalTarget(n, e.gates[g]))
    /\ m = ScheduleAlone(n, e.gates, g)

(* A swap of physical qubits that are coupled and free is scheduled.       *)
SwapStep(n, m, g, name, pc, pt) ==
    /\ n.cycle >= 0
    /\ IsSwapName(name)
    /\ CanStart(n, name, pc, pt)
    /\ m = ScheduleSwap(n, g, name, pc, pt)

(* Logical qubit q may be placed on p: it is there, or both are free.      *)
MayPlace(n, q, p) ==
    IF n.laq[q] # Unmapped THEN p = n.laq[q] ELSE n.qal[p] = Unmapped

(* Two logical qubits are placed on two physical qubits.                   *)
PlaceStep(n, m, q1, q2, p1, p2) ==
    /\ q1 # q2 /\ p1 # p2
    /\ MayPlace(n, q1, p1) /\ MayPlace(n, q2, p2)
    /\ m = PlaceOn(n, q1, q2, p1, p2)

(* The change from node n to node m in one step.                           *)
NodeStep(e, n, m) ==
    \/ m = n
    \/ m = PrepChild(n)
    \/ \E p1, p2 \in Physical : n.cycle < 0 /\ m = SwapQubits(n, p1, p2)
    \/ \E g \in 0..Len(e.gates) : \E name \in GateNames : \E pc, pt \in Physical :
          /\ g = 0 \/ IsSwapName(e.gates[g].name)
          /\ SwapStep(n, m, g, name, pc, pt)
    \/ \E g \in 1..Len(e.gates) :
          \/ GateStep(e, n, m, g)
          \/ m = MakeReady(n, g)
          \/ GateStep(e, MakeReady(n, g), m, g)
    \/ \E q1, q2, p1, p2 \in Physical :
          /\ q1 \in 0..e.numLogical-1 /\ q2 \in 0..e.numLogical-1
          /\ PlaceStep(n, m, q1, q2, p1, p2)

(* The same, with the assertions of scheduleGate: a gate of two qubits or  *)
(* a swap is on a coupling.                                                *)
LegalGateStep(e, n, m, g) ==
    /\ GateStep(e, n, m, g)
    /\ IsTwoQubit(e.gates[g]) =>
          Coupled(PhysicalControl(n, e.gates[g]), PhysicalTarget(n, e.gates[g]))

LegalSwapStep(n, m, g, name, pc, pt) ==
    SwapStep(n, m, g, name, pc, pt) /\ Coupled(pc, pt)

LegalStep(e, n, m) ==
    \/ m = n
    \/ m = PrepChild(n)
    \/ \E p1, p2 \in Physical : n.cycle < 0 /\ m = SwapQubits(n, p1, p2)
    \/ \E g \in 0..Len(e.gates) : \E name \in GateNames : \E pc, pt \in Physical :
          /\ g = 0 \/ IsSwapName(e.gates[g].name)
          /\ LegalSwapStep(n, m, g, name, pc, pt)
    \/ \E g \in 1..Len(e.gates) :
          \/ LegalGateStep(e, n, m, g)
          \/ m = MakeReady(n, g)
          \/ LegalGateStep(e, MakeReady(n, g), m, g)
    \/ \E q1, q2, p1, p2 \in Physical :
          /\ q1 \in 0..e.numLogical-1 /\ q2 \in 0..e.numLogical-1
          /\ PlaceStep(n, m, q1, q2, p1, p2)

(* Such a step is a step.                                                  *)
LEMMA LegalIsStep ==
    ASSUME NEW e, NEW n, NEW m, LegalStep(e, n, m)
    PROVE  NodeStep(e, n, m)
  BY DEF LegalStep, NodeStep, LegalGateStep, LegalSwapStep

-----------------------------------------------------------------------------

(* No physical qubit is used by two gates at once.                         *)

(* Scheduling a gate of the circuit keeps the occupation in order.         *)
LEMMA GateStepOccupation ==
    ASSUME NEW e, IsEnvironment(e), NEW n \in Nodes, Occupation(n),
           NEW g \in 1..Len(e.gates), NEW m, GateStep(e, n, m, g)
    PROVE  Occupation(m)
  <1> DEFINE v == e.gates[g]
             sg == EntryOf(n, e.gates, g)
             r == PushScheduled(n, sg)
  <1>0. n.cycle >= 0
    BY DEF GateStep
  <1>1. /\ m = ScheduleAlone(n, e.gates, g)
        /\ CanStart(n, v.name, PhysicalControl(n, v), PhysicalTarget(n, v))
    BY DEF GateStep
  <1>2. /\ sg \in ScheduledGates /\ sg.cycle = n.cycle
        /\ sg.latency = Latency(v.name, PhysicalTarget(n, v), PhysicalControl(n, v))
        /\ QubitsOfEntry(sg) = {PhysicalControl(n, v), PhysicalTarget(n, v)} \ {Unmapped}
    <2>1. sg \in ScheduledGates /\ sg.cycle = n.cycle
      BY <1>0, EntryOfFields
    <2>2. sg.latency = Latency(v.name, PhysicalTarget(n, v), PhysicalControl(n, v))
      BY <1>0, EntryOfFields
    <2>3. /\ sg.physicalControl = PhysicalControl(n, v)
          /\ sg.physicalTarget = PhysicalTarget(n, v)
      BY <1>0, EntryOfFields
    <2> QED BY <2>1, <2>2, <2>3 DEF QubitsOfEntry
  <1>3. sg.latency # 0 => \A p \in QubitsOfEntry(sg) : BusyCycles(n, p) = 0
    BY <1>1, <1>2 DEF CanStart
  <1>4. /\ m.scheduled = Append(n.scheduled, sg)
        /\ m.lastNonZeroLatencyGate = r.lastNonZeroLatencyGate
    BY <1>1, <1>2, ScheduleAloneFields
  <1> HIDE DEF sg
  <1>5. r.scheduled = Append(n.scheduled, sg)
    BY <1>2, PushScheduledFields
  <1>6. Occupation(r)
    BY <1>2, <1>3, PushKeepsOccupation
  <1> HIDE DEF r
  <1> QED BY <1>4, <1>5, <1>6, OccupationDependsOn

(* So does scheduling a swap.                                              *)
LEMMA SwapStepOccupation ==
    ASSUME NEW n \in Nodes, Occupation(n), NEW g \in Nat, NEW name \in GateNames,
           NEW pc \in Physical, NEW pt \in Physical, NEW m,
           SwapStep(n, m, g, name, pc, pt)
    PROVE  Occupation(m)
  <1> DEFINE sg == ScheduledGate(n, g, name, pc, pt)
             r == PushScheduled(n, sg)
  <1>0. n.cycle >= 0
    BY DEF SwapStep
  <1>1. m = SwapQubits(r, pc, pt) /\ CanStart(n, name, pc, pt)
    BY DEF SwapStep, ScheduleSwap
  <1>2. pc \in Place /\ pt \in Place
    BY DEF Place
  <1>3. /\ sg \in ScheduledGates /\ sg.cycle = n.cycle
        /\ sg.latency = Latency(name, pt, pc)
        /\ QubitsOfEntry(sg) = {pc, pt} \ {Unmapped}
    BY <1>0, <1>2, ScheduledGateFields
  <1>4. sg.latency # 0 => \A p \in QubitsOfEntry(sg) : BusyCycles(n, p) = 0
    BY <1>1, <1>3 DEF CanStart
  <1> HIDE DEF sg
  <1>5. Occupation(r) /\ r \in Nodes
    BY <1>3, <1>4, PushKeepsOccupation, PushScheduledFields
  <1> HIDE DEF r
  <1>6. /\ m.scheduled = r.scheduled
        /\ m.lastNonZeroLatencyGate = r.lastNonZeroLatencyGate
    BY <1>1, <1>5, SwapQubitsFields
  <1> QED BY <1>5, <1>6, OccupationDependsOn

(* So does every step.                                                     *)
LEMMA StepOccupation ==
    ASSUME NEW e, IsEnvironment(e), NEW n \in Nodes, Occupation(n),
           NEW m, NodeStep(e, n, m)
    PROVE  Occupation(m)
  <1>1. CASE m = n
    BY <1>1
  <1>2. CASE m = PrepChild(n)
    BY <1>2, PrepChildFields, OccupationDependsOn
  <1>3. ASSUME NEW p1 \in Physical, NEW p2 \in Physical, m = SwapQubits(n, p1, p2)
        PROVE  Occupation(m)
    BY <1>3, SwapQubitsFields, OccupationDependsOn
  <1>4. ASSUME NEW g \in 0..Len(e.gates), NEW name \in GateNames,
               NEW pc \in Physical, NEW pt \in Physical,
               SwapStep(n, m, g, name, pc, pt)
        PROVE  Occupation(m)
    <2>1. g \in Nat
      BY DEF IsEnvironment
    <2> QED BY <1>4, <2>1, SwapStepOccupation
  <1>5. ASSUME NEW g \in 1..Len(e.gates), GateStep(e, n, m, g)
        PROVE  Occupation(m)
    BY <1>5, GateStepOccupation
  <1>6. ASSUME NEW g \in 1..Len(e.gates)
        PROVE  MakeReady(n, g) \in Nodes /\ Occupation(MakeReady(n, g))
    <2>1. g \in Nat
      BY DEF IsEnvironment
    <2>2. /\ MakeReady(n, g) \in Nodes
          /\ MakeReady(n, g).scheduled = n.scheduled
          /\ MakeReady(n, g).lastNonZeroLatencyGate = n.lastNonZeroLatencyGate
      BY <2>1, MakeReadyFields
    <2> QED BY <2>2, OccupationDependsOn
  <1>7. ASSUME NEW g \in 1..Len(e.gates), GateStep(e, MakeReady(n, g), m, g)
        PROVE  Occupation(m)
    BY <1>6, <1>7, GateStepOccupation
  <1>8. ASSUME NEW q1 \in Physical, NEW q2 \in Physical,
               NEW p1 \in Physical, NEW p2 \in Physical, PlaceStep(n, m, q1, q2, p1, p2)
        PROVE  Occupation(m)
    <2>1. m = PlaceOn(n, q1, q2, p1, p2)
      BY <1>8 DEF PlaceStep
    <2> QED BY <2>1, PlaceOnFields, OccupationDependsOn
  <1> QED BY <1>1, <1>2, <1>3, <1>4, <1>5, <1>6, <1>7, <1>8 DEF NodeStep

-----------------------------------------------------------------------------

(* Gates of two qubits and swaps are on coupled qubits.                    *)

(* The entries of schedule s that have two physical qubits.                *)
OnCoupling(s) ==
    \A i \in DOMAIN s : s[i].physicalControl # Unmapped =>
        Coupled(s[i].physicalControl, s[i].physicalTarget)

(* An entry on coupled qubits may be appended.                             *)
LEMMA AppendOnCoupling ==
    ASSUME NEW s \in Seq(ScheduledGates), OnCoupling(s), NEW sg \in ScheduledGates,
           sg.physicalControl # Unmapped =>
               Coupled(sg.physicalControl, sg.physicalTarget)
    PROVE  OnCoupling(Append(s, sg))
  <1>1. \A i \in DOMAIN Append(s, sg) :
            Append(s, sg)[i] = sg \/ (i \in DOMAIN s /\ Append(s, sg)[i] = s[i])
    OBVIOUS
  <1> QED BY <1>1 DEF OnCoupling

(* Every step keeps the entries on coupled qubits.                         *)
LEMMA StepOnCoupling ==
    ASSUME NEW e, IsEnvironment(e), NEW n \in Nodes, OnCoupling(n.scheduled),
           NEW m, LegalStep(e, n, m)
    PROVE  OnCoupling(m.scheduled)
  <1>1. CASE m = n
    BY <1>1
  <1>2. CASE m = PrepChild(n)
    BY <1>2, PrepChildFields
  <1>3. ASSUME NEW p1 \in Physical, NEW p2 \in Physical, m = SwapQubits(n, p1, p2)
        PROVE  OnCoupling(m.scheduled)
    BY <1>3, SwapQubitsFields
  <1>4. ASSUME NEW g \in 0..Len(e.gates), NEW name \in GateNames,
               NEW pc \in Physical, NEW pt \in Physical,
               LegalSwapStep(n, m, g, name, pc, pt)
        PROVE  OnCoupling(m.scheduled)
    <2> DEFINE sg == ScheduledGate(n, g, name, pc, pt)
               r == PushScheduled(n, sg)
    <2>1. m = SwapQubits(r, pc, pt) /\ n.cycle >= 0 /\ Coupled(pc, pt)
      BY <1>4 DEF LegalSwapStep, SwapStep, ScheduleSwap
    <2>2. /\ sg \in ScheduledGates
          /\ sg.physicalControl = pc /\ sg.physicalTarget = pt
      <3>1. g \in Nat /\ pc \in Place /\ pt \in Place
        BY DEF IsEnvironment, Place
      <3>2. n.cycle >= 0
        BY <2>1
      <3>3. sg \in ScheduledGates
        BY <3>1, <3>2, ScheduledGateFields
      <3>4. sg.physicalControl = pc /\ sg.physicalTarget = pt
        BY DEF ScheduledGate
      <3> QED BY <3>3, <3>4
    <2> HIDE DEF sg
    <2>3. r \in Nodes /\ r.scheduled = Append(n.scheduled, sg)
      BY <2>2, PushScheduledFields
    <2> HIDE DEF r
    <2>4. m.scheduled = Append(n.scheduled, sg)
      BY <2>1, <2>3, SwapQubitsFields
    <2>5. n.scheduled \in Seq(ScheduledGates)
      BY DEF Nodes
    <2> QED BY <2>1, <2>2, <2>4, <2>5, AppendOnCoupling
  <1>5. ASSUME NEW r \in Nodes, r.scheduled = n.scheduled,
               NEW g \in 1..Len(e.gates), LegalGateStep(e, r, m, g)
        PROVE  OnCoupling(m.scheduled)
    <2> DEFINE sg == EntryOf(r, e.gates, g)
               v == e.gates[g]
    <2>1. /\ m = ScheduleAlone(r, e.gates, g) /\ r.cycle >= 0
          /\ IsTwoQubit(v) => Coupled(PhysicalControl(r, v), PhysicalTarget(r, v))
      BY <1>5 DEF LegalGateStep, GateStep
    <2>2. /\ sg \in ScheduledGates
          /\ sg.physicalControl = PhysicalControl(r, v)
          /\ sg.physicalTarget = PhysicalTarget(r, v)
      BY <2>1, EntryOfFields
    <2>3. ~IsTwoQubit(v) => PhysicalControl(r, v) = Unmapped
      <3>1. ~IsTwoQubit(v) => v.control = -1
        BY GateFields
      <3> QED BY <3>1 DEF PhysicalControl, Unmapped
    <2>4. m.scheduled = Append(n.scheduled, sg)
      BY <1>5, <2>1, <2>2, ScheduleAloneFields
    <2>5. n.scheduled \in Seq(ScheduledGates)
      BY DEF Nodes
    <2> HIDE DEF sg, v
    <2> QED BY <2>1, <2>2, <2>3, <2>4, <2>5, AppendOnCoupling
  <1>6. ASSUME NEW g \in 1..Len(e.gates)
        PROVE  MakeReady(n, g) \in Nodes /\ MakeReady(n, g).scheduled = n.scheduled
    <2>1. g \in Nat
      BY DEF IsEnvironment
    <2> QED BY <2>1, MakeReadyFields
  <1>7. ASSUME NEW g \in 1..Len(e.gates),
               LegalGateStep(e, n, m, g) \/ m = MakeReady(n, g)
                 \/ LegalGateStep(e, MakeReady(n, g), m, g)
        PROVE  OnCoupling(m.scheduled)
    <2> DEFINE r == MakeReady(n, g)
    <2>1. r \in Nodes /\ r.scheduled = n.scheduled
      BY <1>6
    <2>2. LegalGateStep(e, n, m, g) \/ m = r \/ LegalGateStep(e, r, m, g)
      BY <1>7
    <2> HIDE DEF r
    <2>3. LegalGateStep(e, r, m, g) => OnCoupling(m.scheduled)
      BY <1>5, <2>1
    <2>4. LegalGateStep(e, n, m, g) => OnCoupling(m.scheduled)
      BY <1>5
    <2>5. m = r => OnCoupling(m.scheduled)
      BY <2>1
    <2> QED BY <2>2, <2>3, <2>4, <2>5
  <1>8. ASSUME NEW q1 \in Physical, NEW q2 \in Physical,
               NEW p1 \in Physical, NEW p2 \in Physical, PlaceStep(n, m, q1, q2, p1, p2)
        PROVE  OnCoupling(m.scheduled)
    <2> DEFINE r == PlaceOn(n, q1, q2, p1, p2)
    <2>1. m = r
      BY <1>8 DEF PlaceStep
    <2>2. r.scheduled = n.scheduled
      BY PlaceOnFields
    <2> HIDE DEF r
    <2> QED BY <2>1, <2>2
  <1> QED BY <1>1, <1>2, <1>3, <1>4, <1>7, <1>8 DEF LegalStep

-----------------------------------------------------------------------------

(* The layout.                                                             *)

(* Placing two logical qubits that are on no physical qubit yet, or stay   *)
(* where they are, keeps qal and laq inverse to each other.                *)
LEMMA PlaceKeepsLayout ==
    ASSUME NEW n \in Nodes, IsLayout(n.qal, n.laq),
           NEW q1 \in Physical, NEW q2 \in Physical,
           NEW p1 \in Physical, NEW p2 \in Physical,
           NEW m, PlaceStep(n, m, q1, q2, p1, p2)
    PROVE  IsLayout(m.qal, m.laq)
  <1> DEFINE qal == n.qal
             laq == n.laq
  <1>1. /\ q1 # q2 /\ p1 # p2
        /\ IF laq[q1] # Unmapped THEN p1 = laq[q1] ELSE qal[p1] = Unmapped
        /\ IF laq[q2] # Unmapped THEN p2 = laq[q2] ELSE qal[p2] = Unmapped
    BY DEF PlaceStep, MayPlace
  <1>2. \A x \in Physical :
            /\ m.laq[x] = IF x = q2 THEN p2 ELSE IF x = q1 THEN p1 ELSE laq[x]
            /\ m.qal[x] = IF x = p2 THEN q2 ELSE IF x = p1 THEN q1 ELSE qal[x]
    BY PlaceOnLayout DEF PlaceStep
  <1>3. qal \in [Physical -> Place] /\ laq \in [Physical -> Place]
    BY DEF Nodes
  <1>4. \A x \in Physical :
            /\ qal[x] # Unmapped => laq[qal[x]] = x
            /\ laq[x] # Unmapped => qal[laq[x]] = x
    BY DEF IsLayout
  <1>5. \A x \in Physical :
            /\ qal[x] # Unmapped => qal[x] \in Physical
            /\ laq[x] # Unmapped => laq[x] \in Physical
    BY <1>3 DEF Place
  <1> HIDE DEF qal, laq
  <1>6. ASSUME NEW x \in Physical, m.qal[x] # Unmapped
        PROVE  m.laq[m.qal[x]] = x
    <2>1. CASE x = p1
      BY <1>1, <1>2, <1>3, <2>1
    <2>2. CASE x = p2
      BY <1>1, <1>2, <1>3, <2>2
    <2>3. CASE x # p1 /\ x # p2
      <3>1. m.qal[x] = qal[x] /\ qal[x] \in Physical
        BY <1>2, <1>3, <1>5, <1>6, <2>3
      <3>2. laq[qal[x]] = x
        BY <1>4, <1>6, <3>1
      <3>3. x # Unmapped
        BY NodeAssumption DEF Physical, Unmapped
      <3>4. qal[x] # q1 /\ qal[x] # q2
        BY <1>1, <2>3, <3>2, <3>3
      <3> QED BY <1>2, <1>3, <3>1, <3>2, <3>4
    <2> QED BY <2>1, <2>2, <2>3
  <1>7. ASSUME NEW x \in Physical, m.laq[x] # Unmapped
        PROVE  m.qal[m.laq[x]] = x
    <2>1. CASE x = q1
      BY <1>1, <1>2, <1>3, <2>1
    <2>2. CASE x = q2
      BY <1>1, <1>2, <1>3, <2>2
    <2>3. CASE x # q1 /\ x # q2
      <3>1. m.laq[x] = laq[x] /\ laq[x] \in Physical
        BY <1>2, <1>3, <1>5, <1>7, <2>3
      <3>2. qal[laq[x]] = x
        BY <1>4, <1>7, <3>1
      <3>3. x # Unmapped
        BY NodeAssumption DEF Physical, Unmapped
      <3>4. laq[x] # p1 /\ laq[x] # p2
        BY <1>1, <1>4, <2>3, <3>2, <3>3
      <3> QED BY <1>2, <1>3, <3>1, <3>2, <3>4
    <2> QED BY <2>1, <2>2, <2>3
  <1> QED BY <1>6, <1>7 DEF IsLayout

(* Every step keeps qal and laq inverse to each other.                     *)
LEMMA StepLayout ==
    ASSUME NEW e, IsEnvironment(e), NEW n \in Nodes, IsLayout(n.qal, n.laq),
           NEW m, NodeStep(e, n, m)
    PROVE  IsLayout(m.qal, m.laq)
  <1>0. n.qal \in [Physical -> Place] /\ n.laq \in [Physical -> Place]
    BY DEF Nodes
  <1>1. CASE m = n
    BY <1>1
  <1>2. CASE m = PrepChild(n)
    BY <1>2, PrepChildFields
  <1>3. ASSUME NEW r \in Nodes, r.qal = n.qal, r.laq = n.laq,
               NEW p1 \in Physical, NEW p2 \in Physical
        PROVE  IsLayout(SwapQubits(r, p1, p2).qal, SwapQubits(r, p1, p2).laq)
    <2>1. /\ SwapQubits(r, p1, p2).qal = SwapQal(n.qal, p1, p2)
          /\ SwapQubits(r, p1, p2).laq = SwapLaq(n.laq, n.qal, p1, p2)
      BY <1>3, SwapQubitsFields
    <2>2. IsLayout(SwapQal(n.qal, p1, p2), SwapLaq(n.laq, n.qal, p1, p2))
      BY <1>0, SwapLayout
    <2> DEFINE x == SwapQubits(r, p1, p2)
    <2> HIDE DEF x
    <2>3. IsLayout(x.qal, x.laq)
      BY <2>1, <2>2 DEF x
    <2> QED BY <2>3 DEF x
  <1>4. ASSUME NEW p1 \in Physical, NEW p2 \in Physical, m = SwapQubits(n, p1, p2)
        PROVE  IsLayout(m.qal, m.laq)
    BY <1>3, <1>4
  <1>5. ASSUME NEW g \in 0..Len(e.gates), NEW name \in GateNames,
               NEW pc \in Physical, NEW pt \in Physical,
               SwapStep(n, m, g, name, pc, pt)
        PROVE  IsLayout(m.qal, m.laq)
    <2> DEFINE sg == ScheduledGate(n, g, name, pc, pt)
               r == PushScheduled(n, sg)
    <2>1. m = SwapQubits(r, pc, pt) /\ n.cycle >= 0
      BY <1>5 DEF SwapStep, ScheduleSwap
    <2>2. sg \in ScheduledGates
      <3>1. g \in Nat /\ pc \in Place /\ pt \in Place
        BY DEF IsEnvironment, Place
      <3> QED BY <2>1, <3>1, ScheduledGateFields
    <2> HIDE DEF sg
    <2>3. r \in Nodes /\ r.qal = n.qal /\ r.laq = n.laq
      BY <2>2, PushScheduledFields
    <2> HIDE DEF r
    <2> QED BY <1>3, <2>1, <2>3
  <1>6. ASSUME NEW r \in Nodes, r.qal = n.qal, r.laq = n.laq,
               NEW g \in 1..Len(e.gates), GateStep(e, r, m, g)
        PROVE  IsLayout(m.qal, m.laq)
    <2>1. m = ScheduleAlone(r, e.gates, g) /\ r.cycle >= 0
      BY <1>6 DEF GateStep
    <2>2. EntryOf(r, e.gates, g) \in ScheduledGates
      BY <2>1, EntryOfFields
    <2>3. m.qal = r.qal /\ m.laq = r.laq
      BY <2>1, <2>2, ScheduleAloneFields
    <2> QED BY <1>6, <2>3
  <1>7. ASSUME NEW g \in 1..Len(e.gates)
        PROVE  /\ MakeReady(n, g) \in Nodes
               /\ MakeReady(n, g).qal = n.qal /\ MakeReady(n, g).laq = n.laq
    <2>1. g \in Nat
      BY DEF IsEnvironment
    <2> QED BY <2>1, MakeReadyFields
  <1>8. ASSUME NEW g \in 1..Len(e.gates),
               GateStep(e, n, m, g) \/ m = MakeReady(n, g)
                 \/ GateStep(e, MakeReady(n, g), m, g)
        PROVE  IsLayout(m.qal, m.laq)
    <2>1. CASE GateStep(e, n, m, g)
      BY <1>6, <2>1
    <2>2. CASE m = MakeReady(n, g)
      BY <1>7, <2>2
    <2>3. CASE GateStep(e, MakeReady(n, g), m, g)
      <3> DEFINE r == MakeReady(n, g)
      <3>1. r \in Nodes /\ r.qal = n.qal /\ r.laq = n.laq /\ GateStep(e, r, m, g)
        BY <1>7, <2>3
      <3> HIDE DEF r
      <3> QED BY <1>6, <3>1
    <2> QED BY <1>8, <2>1, <2>2, <2>3
  <1>9. ASSUME NEW q1 \in Physical, NEW q2 \in Physical,
               NEW p1 \in Physical, NEW p2 \in Physical, PlaceStep(n, m, q1, q2, p1, p2)
        PROVE  IsLayout(m.qal, m.laq)
    BY <1>9, PlaceKeepsLayout
  <1> QED BY <1>1, <1>2, <1>4, <1>5, <1>8, <1>9 DEF NodeStep

(* The layouts with which a search starts are consistent: laq is computed  *)
(* from qal, or from the order of the qubits.                              *)
LEMMA IdentityConsistent ==
    ASSUME NEW N \in 0..NumPhysical
    PROVE  IsLayout(IdentityLayout(N), IdentityLayout(N))
  <1>1. \A x \in Physical : x \in Nat
    BY NodeAssumption DEF Physical
  <1> QED BY <1>1 DEF IsLayout, IdentityLayout, Unmapped

(* So does a complete layout given by the caller.                          *)
LEMMA CompleteConsistent ==
    ASSUME NEW N \in 0..NumPhysical, NEW layout, IsCompleteLayout(N, layout)
    PROVE  IsLayout(layout, LaqOf(layout, N))
  <1> DEFINE at(q) == {x \in Physical : layout[x] = q}
             laq == LaqOf(layout, N)
  <1>1. /\ NumPhysical \in Nat /\ N \in Nat
        /\ \A x \in Physical : x \in Nat /\ layout[x] \in -1..N-1
        /\ 0..N-1 \subseteq Physical
    BY NodeAssumption DEF IsCompleteLayout, Physical
  <1>2. \A q \in 0..N-1 : \E x \in Physical : layout[x] = q
    BY DEF IsCompleteLayout
  <1>3. \A x, y \in Physical : layout[x] = layout[y] /\ layout[x] # Unmapped => x = y
    BY DEF IsCompleteLayout
  <1>4. ASSUME NEW q \in 0..N-1
        PROVE  laq[q] \in Physical /\ layout[laq[q]] = q
    <2>1. PICK z \in Physical : layout[z] = q
      BY <1>2
    <2>2. \A x \in at(q) : x = z
      BY <1>1, <1>3, <2>1 DEF Unmapped
    <2>3. z \in at(q) /\ \A y \in at(q) : y <= z
      BY <1>1, <2>1, <2>2
    <2>4. laq[q] = CHOOSE x \in at(q) : \A y \in at(q) : y <= x
      BY <1>1, <2>3 DEF LaqOf
    <2> HIDE DEF at, laq
    <2>5. laq[q] \in at(q)
      BY <2>3, <2>4
    <2> QED BY <2>1, <2>2, <2>5
  <1>5. ASSUME NEW q \in Physical, q \notin 0..N-1
        PROVE  laq[q] = Unmapped
    <2>1. at(q) = {} /\ ~(q < N)
      BY <1>1, <1>5
    <2> QED BY <2>1 DEF LaqOf, IdentityLayout
  <1> HIDE DEF laq
  <1>6. ASSUME NEW x \in Physical, layout[x] # Unmapped
        PROVE  laq[layout[x]] = x
    <2>1. layout[x] \in 0..N-1
      BY <1>1, <1>6 DEF Unmapped
    <2> QED BY <1>3, <1>4, <1>6, <2>1
  <1>7. ASSUME NEW x \in Physical, laq[x] # Unmapped
        PROVE  layout[laq[x]] = x
    BY <1>4, <1>5, <1>7
  <1> QED BY <1>6, <1>7 DEF IsLayout, laq

(* So does the layout that holds nothing.                                  *)
LEMMA NothingConsistent == IsLayout(NothingMapped, NothingMapped)
  BY DEF IsLayout, NothingMapped

=============================================================================
