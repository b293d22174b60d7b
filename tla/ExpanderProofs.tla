--------------------------- MODULE ExpanderProofs ---------------------------
(***************************************************************************)
(* What expanders and layout modules do to a node: whatever subsets of     *)
(* gates and swaps they try, and in whatever order, the children of a      *)
(* sound node are sound. A lemma about every operator of Expander,         *)
(* DefaultExpander, GreedyTopK, NoSwaps and GreedyMapper, from the single  *)
(* call of scheduleGate or swapQubits up to the whole of expand.           *)
(***************************************************************************)
EXTENDS DefaultExpander, GreedyTopK, NoSwaps, GreedyMapper, ScheduleProofs

-----------------------------------------------------------------------------
(* Sound nodes.                                                            *)

(* What holds of a node n of the search whatever is called on it, while    *)
(* scheduleGate has the gates in p still to visit.                         *)
Sound(e, n, p) ==
    /\ TypedNode(e, n)
    /\ p \in Seq(1..Len(e.gates))
    /\ p # <<>> => n.cycle >= 0
    /\ n.cycle < 0 => n.scheduled = <<>>
    /\ IsLayout(n.qal, n.laq) /\ IsOfCircuit(e, n.qal)
    /\ Progress(e, n, p)
    /\ Occupation(n)
    /\ KeepsOrder(e, n.scheduled)

(* Every logical qubit has a place, and had one when its gates have been   *)
(* scheduled.                                                              *)
HoldsAll(e, qal) == \A q \in 0..e.numLogical-1 : \E x \in Physical : qal[x] = q
ArePlaced(s) == \A i \in DOMAIN s : s[i].physicalTarget # Unmapped
AllPlaced(e, n) == HoldsAll(e, n.qal) /\ ArePlaced(n.scheduled)

(* And what holds of it if all assertions on the way have held. Parameter  *)
(* fixed says whether every logical qubit has had a place from the start:  *)
(* with NoSwaps and GreedyMapper it has not, and one-qubit gates may be    *)
(* scheduled without a place.                                              *)
Lawful(e, fixed, n) ==
    /\ Timing(e, n) /\ OnCoupling(n.scheduled) /\ Remembers(e, n)
    /\ fixed => AllPlaced(e, n)

(* Swapping two physical qubits, or placing a logical one, leaves the      *)
(* others in the layout.                                                   *)
LEMMA SwapHoldsAll ==
    ASSUME NEW e, NEW qal \in [Physical -> Place], HoldsAll(e, qal),
           NEW p1 \in Physical, NEW p2 \in Physical
    PROVE  HoldsAll(e, SwapQal(qal, p1, p2))
  <1> SUFFICES ASSUME NEW q \in 0..e.numLogical-1
               PROVE  \E x \in Physical : SwapQal(qal, p1, p2)[x] = q
    BY DEF HoldsAll
  <1>1. PICK x \in Physical : qal[x] = q
    BY DEF HoldsAll
  <1>2. \A y \in Physical : SwapQal(qal, p1, p2)[y] =
            IF y = p1 THEN qal[p2] ELSE IF y = p2 THEN qal[p1] ELSE qal[y]
    BY SwapQalAt
  <1>3. CASE x = p1
    BY <1>1, <1>2, <1>3
  <1>4. CASE x = p2
    BY <1>1, <1>2, <1>4
  <1>5. CASE x # p1 /\ x # p2
    BY <1>1, <1>2, <1>5
  <1> QED BY <1>3, <1>4, <1>5

(* A gate that is on a physical qubit may be scheduled.                    *)
LEMMA AppendPlaced ==
    ASSUME NEW s \in Seq(ScheduledGates), ArePlaced(s),
           NEW sg \in ScheduledGates, sg.physicalTarget # Unmapped
    PROVE  ArePlaced(Append(s, sg))
  <1> SUFFICES ASSUME NEW i \in DOMAIN Append(s, sg)
               PROVE  Append(s, sg)[i].physicalTarget # Unmapped
    BY DEF ArePlaced
  <1>1. CASE i \in DOMAIN s
    BY <1>1 DEF ArePlaced
  <1>2. CASE i = Len(s) + 1
    BY <1>2
  <1> QED BY <1>1, <1>2

(* Steps keep all logical qubits in the layout, and schedule gates only on *)
(* physical qubits.                                                        *)
LEMMA StepPlaced ==
    ASSUME NEW e, IsEnvironment(e), HasNoSwapGates(e), NEW n \in Nodes,
           IsLayout(n.qal, n.laq), AllPlaced(e, n), NEW m, NodeStep(e, n, m)
    PROVE  AllPlaced(e, m)
  <1>1. /\ n.qal \in [Physical -> Place] /\ n.laq \in [Physical -> Place]
        /\ n.scheduled \in Seq(ScheduledGates)
        /\ HoldsAll(e, n.qal) /\ ArePlaced(n.scheduled)
    BY DEF Nodes, AllPlaced
  <1>2. CASE m = n
    BY <1>2
  <1>3. CASE m = PrepChild(n)
    BY <1>1, <1>3, PrepChildFields DEF AllPlaced
  <1>4. ASSUME NEW p1 \in Physical, NEW p2 \in Physical, m = SwapQubits(n, p1, p2)
        PROVE  AllPlaced(e, m)
    <2>1. m.qal = SwapQal(n.qal, p1, p2) /\ m.scheduled = n.scheduled
      BY <1>4, SwapQubitsFields
    <2>2. HoldsAll(e, m.qal)
      BY <1>1, <2>1, SwapHoldsAll
    <2> QED BY <1>1, <2>1, <2>2 DEF AllPlaced
  <1>5. ASSUME NEW g \in 0..Len(e.gates), NEW name \in GateNames,
               NEW pc \in Physical, NEW pt \in Physical,
               SwapStep(n, m, g, name, pc, pt)
        PROVE  AllPlaced(e, m)
    <2> DEFINE sg == ScheduledGate(n, g, name, pc, pt)
               r == PushScheduled(n, sg)
    <2>1. m = SwapQubits(r, pc, pt) /\ n.cycle >= 0
      BY <1>5 DEF SwapStep, ScheduleSwap
    <2>2. sg \in ScheduledGates /\ sg.physicalTarget # Unmapped
      <3>1. g \in Nat /\ pc \in Place /\ pt \in Place
        BY DEF IsEnvironment, Place
      <3>2. sg \in ScheduledGates
        BY <2>1, <3>1, ScheduledGateFields
      <3>3. sg.physicalTarget = pt
        BY DEF ScheduledGate
      <3>4. pt # Unmapped
        BY NodeAssumption DEF Physical, Unmapped
      <3> QED BY <3>2, <3>3, <3>4
    <2> HIDE DEF sg
    <2>3. r \in Nodes /\ r.scheduled = Append(n.scheduled, sg) /\ r.qal = n.qal
      BY <2>2, PushScheduledFields
    <2> HIDE DEF r
    <2>4. m.scheduled = Append(n.scheduled, sg) /\ m.qal = SwapQal(n.qal, pc, pt)
      BY <2>1, <2>3, SwapQubitsFields
    <2>5. HoldsAll(e, m.qal)
      BY <1>1, <2>4, SwapHoldsAll
    <2>6. ArePlaced(m.scheduled)
      BY <1>1, <2>2, <2>4, AppendPlaced
    <2> QED BY <2>5, <2>6 DEF AllPlaced
  <1>6. ASSUME NEW r \in Nodes, r.scheduled = n.scheduled, r.qal = n.qal, r.laq = n.laq,
               NEW g \in 1..Len(e.gates), GateStep(e, r, m, g)
        PROVE  AllPlaced(e, m)
    <2> DEFINE sg == EntryOf(r, e.gates, g)
               v == e.gates[g]
               q == v.target
    <2>1. m = ScheduleAlone(r, e.gates, g) /\ r.cycle >= 0
      BY <1>6 DEF GateStep
    <2>2. sg \in ScheduledGates /\ sg.physicalTarget = PhysicalTarget(r, v)
      BY <2>1, EntryOfFields
    <2>3. m.scheduled = Append(n.scheduled, sg) /\ m.qal = n.qal
      BY <1>6, <2>1, <2>2, ScheduleAloneFields
    <2>4. PhysicalTarget(r, v) = n.laq[q]
      BY <1>6 DEF PhysicalTarget, HasNoSwapGates
    <2>5. q \in 0..e.numLogical-1
      BY LogicalQubits
    <2> HIDE DEF sg, v, q
    <2>6. PICK x \in Physical : n.qal[x] = q
      BY <1>1, <2>5 DEF HoldsAll
    <2>7. n.laq[q] = x
      <3>1. q # Unmapped
        BY <2>5, NodeAssumption DEF IsEnvironment, Unmapped
      <3> QED BY <2>6, <3>1 DEF IsLayout
    <2>8. x # Unmapped
      BY NodeAssumption DEF Physical, Unmapped
    <2>9. ArePlaced(m.scheduled)
      BY <1>1, <2>2, <2>3, <2>4, <2>7, <2>8, AppendPlaced
    <2> QED BY <1>1, <2>3, <2>9 DEF AllPlaced
  <1>7. ASSUME NEW g \in 1..Len(e.gates),
               GateStep(e, n, m, g) \/ m = MakeReady(n, g) \/ GateStep(e, MakeReady(n, g), m, g)
        PROVE  AllPlaced(e, m)
    <2> DEFINE r == MakeReady(n, g)
    <2>1. g \in Nat
      BY DEF IsEnvironment
    <2>2. r \in Nodes /\ r.scheduled = n.scheduled /\ r.qal = n.qal /\ r.laq = n.laq
      BY <2>1, MakeReadyFields
    <2>3. GateStep(e, n, m, g) \/ m = r \/ GateStep(e, r, m, g)
      BY <1>7
    <2> HIDE DEF r
    <2>4. GateStep(e, r, m, g) => AllPlaced(e, m)
      BY <1>6, <2>2
    <2>5. GateStep(e, n, m, g) => AllPlaced(e, m)
      BY <1>6
    <2>6. m = r => AllPlaced(e, m)
      BY <1>1, <2>2 DEF AllPlaced
    <2> QED BY <2>3, <2>4, <2>5, <2>6
  <1>8. ASSUME NEW q1 \in Physical, NEW q2 \in Physical,
               NEW p1 \in Physical, NEW p2 \in Physical, PlaceStep(n, m, q1, q2, p1, p2)
        PROVE  AllPlaced(e, m)
    <2> DEFINE r == PlaceOn(n, q1, q2, p1, p2)
    <2>1. m = r /\ MayPlace(n, q1, p1) /\ MayPlace(n, q2, p2) /\ p1 # p2
      BY <1>8 DEF PlaceStep
    <2>2. r.scheduled = n.scheduled
      BY PlaceOnFields
    <2>3. \A x \in Physical :
              r.qal[x] = IF x = p2 THEN q2 ELSE IF x = p1 THEN q1 ELSE n.qal[x]
      BY PlaceOnLayout
    <2> HIDE DEF r
    <2>4. ASSUME NEW q \in Physical, NEW p \in Physical, MayPlace(n, q, p)
          PROVE  n.qal[p] = Unmapped \/ n.qal[p] = q
      <3>1. CASE n.laq[q] = Unmapped
        BY <2>4, <3>1 DEF MayPlace
      <3>2. CASE n.laq[q] # Unmapped
        BY <2>4, <3>2 DEF MayPlace, IsLayout
      <3> QED BY <3>1, <3>2
    <2>5. HoldsAll(e, r.qal)
      <3> SUFFICES ASSUME NEW q \in 0..e.numLogical-1
                   PROVE  \E x \in Physical : r.qal[x] = q
        BY DEF HoldsAll
      <3>1. PICK x \in Physical : n.qal[x] = q
        BY <1>1 DEF HoldsAll
      <3>2. q # Unmapped
        BY NodeAssumption DEF IsEnvironment, Unmapped
      <3>3. r.qal[x] = q
        BY <2>1, <2>3, <2>4, <3>1, <3>2
      <3> QED BY <3>3
    <2> QED BY <1>1, <2>1, <2>2, <2>5 DEF AllPlaced
  <1> QED BY <1>2, <1>3, <1>4, <1>5, <1>7, <1>8 DEF NodeStep

(* No step puts something other than a logical qubit of the circuit in the *)
(* layout.                                                                 *)
LEMMA StepOfCircuit ==
    ASSUME NEW e, IsEnvironment(e), NEW n \in Nodes, IsOfCircuit(e, n.qal),
           NEW m, NodeStep(e, n, m)
    PROVE  IsOfCircuit(e, m.qal)
  <1>1. n.qal \in [Physical -> Place]
    BY DEF Nodes
  <1>2. ASSUME NEW k \in Nodes, IsOfCircuit(e, k.qal), k.cycle >= 0,
               NEW g \in 1..Len(e.gates), m = ScheduleAlone(k, e.gates, g)
        PROVE  IsOfCircuit(e, m.qal)
    <2>1. EntryOf(k, e.gates, g) \in ScheduledGates
      BY <1>2, EntryOfFields
    <2> QED BY <1>2, <2>1, ScheduleAloneFields DEF IsOfCircuit
  <1>3. CASE m = n
    BY <1>3
  <1>4. CASE m = PrepChild(n)
    BY <1>4, PrepChildFields DEF IsOfCircuit
  <1>5. ASSUME NEW k \in Nodes, IsOfCircuit(e, k.qal),
               NEW p1 \in Physical, NEW p2 \in Physical, m = SwapQubits(k, p1, p2)
        PROVE  IsOfCircuit(e, m.qal)
    <2>1. k.qal \in [Physical -> Place]
      BY DEF Nodes
    <2>2. m.qal = SwapQal(k.qal, p1, p2)
      BY <1>5, SwapQubitsFields
    <2> QED BY <1>5, <2>1, <2>2, SwapOfCircuit
  <1>6. ASSUME NEW g \in 0..Len(e.gates), NEW name \in GateNames,
               NEW pc \in Physical, NEW pt \in Physical,
               SwapStep(n, m, g, name, pc, pt)
        PROVE  IsOfCircuit(e, m.qal)
    <2> DEFINE sg == ScheduledGate(n, g, name, pc, pt)
               k == PushScheduled(n, sg)
    <2>1. sg \in ScheduledGates
      BY <1>6, ScheduledGateFields DEF SwapStep, Place
    <2>2. k \in Nodes /\ k.qal = n.qal
      BY <2>1, PushScheduledFields
    <2>3. m = SwapQubits(k, pc, pt)
      BY <1>6 DEF SwapStep, ScheduleSwap
    <2> HIDE DEF k
    <2> QED BY <1>5, <2>2, <2>3
  <1>7. ASSUME NEW g \in 1..Len(e.gates),
               \/ GateStep(e, n, m, g)
               \/ m = MakeReady(n, g)
               \/ GateStep(e, MakeReady(n, g), m, g)
        PROVE  IsOfCircuit(e, m.qal)
    <2>1. g \in Nat
      BY DEF IsEnvironment
    <2>2. MakeReady(n, g) \in Nodes /\ MakeReady(n, g).qal = n.qal
      BY <2>1, MakeReadyFields
    <2>3. IsOfCircuit(e, MakeReady(n, g).qal)
      BY <2>2
    <2> QED BY <1>2, <1>7, <2>2, <2>3 DEF GateStep
  <1>8. ASSUME NEW q1 \in Physical, NEW q2 \in Physical,
               NEW p1 \in Physical, NEW p2 \in Physical,
               q1 \in 0..e.numLogical-1, q2 \in 0..e.numLogical-1,
               PlaceStep(n, m, q1, q2, p1, p2)
        PROVE  IsOfCircuit(e, m.qal)
    <2>1. m = PlaceOn(n, q1, q2, p1, p2)
      BY <1>8 DEF PlaceStep
    <2>2. \A x \in Physical :
              m.qal[x] = IF x = p2 THEN q2 ELSE IF x = p1 THEN q1 ELSE n.qal[x]
      BY <2>1, PlaceOnLayout
    <2>3. q1 \in -1..e.numLogical-1 /\ q2 \in -1..e.numLogical-1
      BY <1>8 DEF IsEnvironment
    <2> QED BY <2>2, <2>3 DEF IsOfCircuit
  <1> QED BY <1>3, <1>4, <1>5, <1>6, <1>7, <1>8 DEF NodeStep

(* A node stays sound, if the step keeps the account of its gates.         *)
LEMMA SoundStep ==
    ASSUME NEW e, IsEnvironment(e), HasNoSwapGates(e), NEW n, NEW p, Sound(e, n, p),
           NEW m, NodeStep(e, n, m), TypedNode(e, m),
           NEW p2 \in Seq(1..Len(e.gates)), Progress(e, m, p2),
           p2 # <<>> => m.cycle >= 0,
           m.cycle < 0 => m.scheduled = <<>>
    PROVE  Sound(e, m, p2)
  <1>1. n \in Nodes /\ Progress(e, n, p)
    BY DEF Sound, TypedNode
  <1>2. IsLayout(m.qal, m.laq)
    BY <1>1, StepLayout DEF Sound
  <1>3. IsOfCircuit(e, m.qal)
    BY <1>1, StepOfCircuit DEF Sound
  <1>4. Occupation(m)
    BY <1>1, StepOccupation DEF Sound
  <1>5. KeepsOrder(e, m.scheduled)
    <2>1. KeepsOrder(e, n.scheduled)
      BY DEF Sound
    <2>2. CASE m.scheduled = n.scheduled
      BY <2>1, <2>2
    <2>3. ASSUME NEW sg, Appends(e, n, m, sg) PROVE KeepsOrder(e, m.scheduled)
      <3>1. sg.gate # GeneratedSwap => sg.gate \in FrontierOf(e.gates, DoneOf(n))
        BY <1>1, <2>3, AppendsFromFrontier
      <3> QED BY <1>1, <2>1, <2>3, <3>1, AppendInOrder
    <2> QED BY <1>1, <2>2, <2>3, StepAppends
  <1> QED BY <1>2, <1>3, <1>4, <1>5 DEF Sound

(* A legal step keeps a node lawful.                                       *)
LEMMA LawfulStep ==
    ASSUME NEW e, NEW fixed, IsEnvironment(e), HasNoSwapGates(e), NEW n, NEW p, Sound(e, n, p),
           Lawful(e, fixed, n), NEW m, LegalStep(e, n, m)
    PROVE  Lawful(e, fixed, m)
  <1>1. n \in Nodes /\ IsLayout(n.qal, n.laq)
    BY DEF Sound, TypedNode
  <1>2. Timing(e, n) /\ OnCoupling(n.scheduled) /\ Remembers(e, n)
    BY Zenon DEF Lawful
  <1>3. Timing(e, m)
    BY <1>1, <1>2, StepTiming DEF HasNoSwapGates
  <1>4. OnCoupling(m.scheduled)
    BY <1>1, <1>2, StepOnCoupling
  <1>5. Remembers(e, m)
    BY <1>1, <1>2, StepRemembers
  <1>6. AllPlaced(e, n) => AllPlaced(e, m)
    BY <1>1, LegalIsStep, StepPlaced
  <1>7. fixed => AllPlaced(e, m)
    BY <1>6, Zenon DEF Lawful
  <1> QED BY <1>3, <1>4, <1>5, <1>7 DEF Lawful

(* prepChild, and swapQubits in the search cycles.                         *)
LEMMA PrepSound ==
    ASSUME NEW e, NEW fixed, IsEnvironment(e), HasNoSwapGates(e), NEW n, Sound(e, n, <<>>)
    PROVE  /\ Sound(e, PrepChild(n), <<>>)
           /\ PrepChild(n).cycle = n.cycle + 1 /\ PrepChild(n).root = FALSE
           /\ PrepChild(n).readyGates = n.readyGates
           /\ PrepChild(n).scheduled = n.scheduled
           /\ Lawful(e, fixed, n) => Lawful(e, fixed, PrepChild(n))
  <1> DEFINE m == PrepChild(n)
  <1>1. n \in Nodes /\ n.cycle \in Int /\ Progress(e, n, <<>>) /\ TypedNode(e, n)
        /\ (n.cycle < 0 => n.scheduled = <<>>)
    BY DEF Sound, TypedNode, Nodes
  <1>2. /\ m.cycle = n.cycle + 1 /\ m.scheduled = n.scheduled
        /\ m.readyGates = n.readyGates
        /\ m.lastNonSwapGate = n.lastNonSwapGate
        /\ m.numUnscheduledGates = n.numUnscheduledGates
    BY <1>1, PrepChildFields
  <1>3. TypedNode(e, m)
    BY <1>1, OthersTyped
  <1>4. m.root = FALSE
    BY <1>1 DEF PrepChild, Nodes
  <1> HIDE DEF m
  <1>5. Progress(e, m, <<>>)
    BY <1>1, <1>2, ProgressDependsOn
  <1>6. m.cycle < 0 => m.scheduled = <<>>
    BY <1>1, <1>2
  <1>7. NodeStep(e, n, m) /\ LegalStep(e, n, m)
    BY DEF m, NodeStep, LegalStep
  <1>8. <<>> \in Seq(1..Len(e.gates))
    OBVIOUS
  <1>9. Sound(e, m, <<>>)
    BY <1>3, <1>5, <1>6, <1>7, <1>8, SoundStep
  <1>10. Lawful(e, fixed, n) => Lawful(e, fixed, m)
    BY <1>7, LawfulStep
  <1> QED BY <1>2, <1>4, <1>9, <1>10 DEF m

(* swapQubits in the search cycles, in which nothing is scheduled yet.     *)
LEMMA RearrangeSound ==
    ASSUME NEW e, NEW fixed, IsEnvironment(e), HasNoSwapGates(e), NEW n, Sound(e, n, <<>>),
           n.cycle < 0, NEW p1 \in Physical, NEW p2 \in Physical
    PROVE  /\ Sound(e, SwapQubits(n, p1, p2), <<>>)
           /\ SwapQubits(n, p1, p2).cycle = n.cycle
           /\ SwapQubits(n, p1, p2).root = n.root
           /\ SwapQubits(n, p1, p2).readyGates = n.readyGates
           /\ Lawful(e, fixed, n) => Lawful(e, fixed, SwapQubits(n, p1, p2))
  <1> DEFINE m == SwapQubits(n, p1, p2)
  <1>1. n \in Nodes /\ n.cycle \in Int /\ Progress(e, n, <<>>) /\ TypedNode(e, n)
        /\ (n.cycle < 0 => n.scheduled = <<>>)
    BY DEF Sound, TypedNode, Nodes
  <1>2. /\ m.cycle = n.cycle /\ m.scheduled = n.scheduled /\ m.root = n.root
        /\ m.readyGates = n.readyGates
        /\ m.lastNonSwapGate = n.lastNonSwapGate
        /\ m.numUnscheduledGates = n.numUnscheduledGates
    BY <1>1, SwapQubitsFields
  <1>3. TypedNode(e, m)
    BY <1>1, OthersTyped
  <1>4. NodeStep(e, n, m) /\ LegalStep(e, n, m)
    BY DEF NodeStep, LegalStep
  <1> HIDE DEF m
  <1>5. Progress(e, m, <<>>)
    BY <1>1, <1>2, ProgressDependsOn
  <1>6. m.cycle < 0 => m.scheduled = <<>>
    BY <1>1, <1>2
  <1>8. <<>> \in Seq(1..Len(e.gates))
    OBVIOUS
  <1>9. Sound(e, m, <<>>)
    BY <1>3, <1>5, <1>6, <1>4, <1>8, SoundStep
  <1>10. Lawful(e, fixed, n) => Lawful(e, fixed, m)
    BY <1>4, LawfulStep
  <1> QED BY <1>2, <1>9, <1>10 DEF m

(* Node m is n after a swap.                                               *)
IsAfterSwap(e, fixed, n, m) ==
    /\ Sound(e, m, <<>>)
    /\ m.cycle = n.cycle /\ m.root = n.root /\ m.readyGates = n.readyGates
    /\ Lawful(e, fixed, n) => Lawful(e, fixed, m)

(* scheduleGate of a generated swap.                                       *)
LEMMA GeneratedSwapSound ==
    ASSUME NEW e, NEW fixed, IsEnvironment(e), HasNoSwapGates(e), NEW n, Sound(e, n, <<>>),
           n.cycle >= 0, NEW c \in Couplings, CanStart(n, "swap", c[1], c[2]),
           NEW m, m = ScheduleSwap(n, GeneratedSwap, "swap", c[1], c[2])
    PROVE  IsAfterSwap(e, fixed, n, m)
  <1> DEFINE sg == ScheduledGate(n, GeneratedSwap, "swap", c[1], c[2])
             k == PushScheduled(n, sg)
  <1>1. n \in Nodes /\ n.cycle \in Int /\ Progress(e, n, <<>>) /\ TypedNode(e, n)
    BY DEF Sound, TypedNode, Nodes
  <1>2. c[1] \in Physical /\ c[2] \in Physical /\ Coupled(c[1], c[2])
    <2>1. c = <<c[1], c[2]>>
      BY NodeAssumption
    <2> QED BY <2>1, CouplingFacts DEF Coupled
  <1>3. "swap" \in GateNames /\ IsSwapName("swap") /\ 0 \in 0..Len(e.gates)
    BY NodeAssumption DEF IsSwapName, IsEnvironment
  <1>4. sg \in ScheduledGates /\ sg.gate = 0
    BY <1>1, <1>2, <1>3, ScheduledGateFields DEF Place, GeneratedSwap
  <1>5. /\ k \in Nodes /\ k.cycle = n.cycle /\ k.root = n.root
        /\ k.readyGates = n.readyGates /\ k.scheduled = Append(n.scheduled, sg)
        /\ k.lastNonSwapGate = n.lastNonSwapGate
        /\ k.numUnscheduledGates = n.numUnscheduledGates
    BY <1>1, <1>4, PushScheduledFields
  <1>6. m = SwapQubits(k, c[1], c[2])
    BY DEF ScheduleSwap
  <1> HIDE DEF k, sg
  <1>7. /\ m.cycle = n.cycle /\ m.root = n.root
        /\ m.readyGates = n.readyGates /\ m.scheduled = Append(n.scheduled, sg)
        /\ m.lastNonSwapGate = n.lastNonSwapGate
        /\ m.numUnscheduledGates = n.numUnscheduledGates
    BY <1>2, <1>5, <1>6, SwapQubitsFields
  <1>8. TypedNode(e, m)
    BY <1>1, <1>2, <1>3, ScheduleSwapTyped DEF GeneratedSwap
  <1>9. Progress(e, m, <<>>)
    BY <1>1, <1>4, <1>7, SwapProgress
  <1>10. LegalSwapStep(n, m, GeneratedSwap, "swap", c[1], c[2])
    BY <1>1, <1>2, <1>3 DEF LegalSwapStep, SwapStep
  <1>11. LegalStep(e, n, m)
    BY <1>2, <1>3, <1>10 DEF LegalStep, GeneratedSwap
  <1>12. NodeStep(e, n, m)
    BY <1>11, LegalIsStep
  <1>13. Sound(e, m, <<>>)
    <2>1. <<>> \in Seq(1..Len(e.gates)) /\ ~(m.cycle < 0)
      BY <1>1, <1>7
    <2> QED BY <1>8, <1>9, <1>12, <2>1, SoundStep
  <1>14. Lawful(e, fixed, n) => Lawful(e, fixed, m)
    BY <1>11, LawfulStep
  <1> QED BY <1>7, <1>13, <1>14 DEF IsAfterSwap

(* Node m is n after gate g has been scheduled, with p still to visit.      *)
IsAfterGate(e, fixed, n, g, m, p) ==
    /\ Sound(e, m, p)
    /\ m.cycle = n.cycle /\ m.root = n.root
    /\ m.readyGates = n.readyGates \ {g}
    /\ DoneOf(m) = DoneOf(n) \cup {g}
    /\ Lawful(e, fixed, n) /\ MayCallScheduleGate(n, e.gates[g]) => Lawful(e, fixed, m)

(* The part of scheduleGate that schedules gate g itself.                  *)
LEMMA AloneSound ==
    ASSUME NEW e, NEW fixed, IsEnvironment(e), HasNoSwapGates(e), NEW n, NEW p, Sound(e, n, p),
           n.cycle >= 0, NEW g \in n.readyGates,
           CanStart(n, e.gates[g].name, PhysicalControl(n, e.gates[g]),
                    PhysicalTarget(n, e.gates[g])),
           NEW m, m = ScheduleAlone(n, e.gates, g),
           NEW p2, p2 = Unblocked(n, e.gates, g) \o p
    PROVE  IsAfterGate(e, fixed, n, g, m, p2)
  <1>1. /\ n \in Nodes /\ n.cycle \in Int /\ Progress(e, n, p) /\ TypedNode(e, n)
        /\ p \in Seq(1..Len(e.gates)) /\ g \in 1..Len(e.gates)
    BY DEF Sound, TypedNode, Nodes
  <1>2. EntryOf(n, e.gates, g) \in ScheduledGates /\ EntryOf(n, e.gates, g).gate = g
    BY <1>1, EntryOfFields
  <1>3. /\ m \in Nodes /\ m.cycle = n.cycle /\ m.root = n.root
        /\ m.readyGates = n.readyGates \ {g}
        /\ m.scheduled = Append(n.scheduled, EntryOf(n, e.gates, g))
    BY <1>1, <1>2, ScheduleAloneFields
  <1>4. TypedNode(e, m)
    BY <1>1, ScheduleAloneTyped
  <1>5. Progress(e, m, p2)
    BY <1>1, GateProgress
  <1>6. p2 \in Seq(1..Len(e.gates))
    <2>1. Unblocked(n, e.gates, g) \in Seq(1..Len(e.gates))
      BY <1>1, UnblockedType
    <2> QED BY <1>1, <2>1
  <1>7. GateStep(e, n, m, g)
    BY DEF GateStep
  <1>8. Sound(e, m, p2)
    <2>1. NodeStep(e, n, m)
      BY <1>1, <1>7 DEF NodeStep
    <2>2. m.cycle >= 0 /\ ~(m.cycle < 0)
      BY <1>1, <1>3
    <2> QED BY <1>4, <1>5, <1>6, <2>1, <2>2, SoundStep
  <1>9. DoneOf(m) = DoneOf(n) \cup {g}
    <2> DEFINE sg == EntryOf(n, e.gates, g)
    <2>1. sg \in ScheduledGates /\ sg.gate = g /\ m.scheduled = Append(n.scheduled, sg)
      BY <1>2, <1>3
    <2> HIDE DEF sg
    <2>2. DoneOf(m) = DoneOf(n) \cup {sg.gate}
      BY <1>1, <2>1, DoneAppend
    <2> QED BY <2>1, <2>2
  <1>10. Lawful(e, fixed, n) /\ MayCallScheduleGate(n, e.gates[g]) => Lawful(e, fixed, m)
    <2> SUFFICES ASSUME Lawful(e, fixed, n), MayCallScheduleGate(n, e.gates[g])
                 PROVE  Lawful(e, fixed, m)
      OBVIOUS
    <2>1. LegalGateStep(e, n, m, g)
      BY <1>7 DEF LegalGateStep, MayCallScheduleGate
    <2>2. LegalStep(e, n, m)
      BY <1>1, <2>1 DEF LegalStep
    <2> QED BY <2>2, LawfulStep
  <1> QED BY <1>3, <1>8, <1>9, <1>10 DEF IsAfterGate

(* An unblocked gate becomes ready.                                        *)
LEMMA ReadySound ==
    ASSUME NEW e, NEW fixed, IsEnvironment(e), HasNoSwapGates(e), NEW n, NEW p, Sound(e, n, p),
           p # <<>>, NEW c, c = Head(p), NEW m, m = MakeReady(n, c)
    PROVE  /\ Sound(e, m, Tail(p))
           /\ c \in 1..Len(e.gates) /\ c \notin n.readyGates /\ c \notin DoneOf(n)
           /\ m.cycle = n.cycle /\ m.root = n.root
           /\ m.readyGates = n.readyGates \cup {c}
           /\ DoneOf(m) = DoneOf(n)
           /\ Lawful(e, fixed, n) => Lawful(e, fixed, m)
  <1>1. /\ n \in Nodes /\ n.cycle \in Int /\ Progress(e, n, p) /\ TypedNode(e, n)
        /\ p \in Seq(1..Len(e.gates)) /\ n.cycle >= 0
    BY DEF Sound, TypedNode, Nodes
  <1>2. /\ c \in 1..Len(e.gates) /\ 1 \in DOMAIN p /\ p[1] = c
        /\ Tail(p) \in Seq(1..Len(e.gates))
    BY <1>1
  <1>3. c \notin n.readyGates /\ c \in FrontierOf(e.gates, DoneOf(n))
    BY <1>1, <1>2 DEF Progress
  <1>4. c \notin DoneOf(n)
    BY <1>3 DEF FrontierOf
  <1>5. /\ m.cycle = n.cycle /\ m.readyGates = n.readyGates \cup {c}
        /\ m.scheduled = n.scheduled
    BY <1>1, <1>2, MakeReadyFields
  <1>6. m.root = n.root
    BY <1>1 DEF MakeReady, Nodes
  <1>7. TypedNode(e, m)
    BY <1>1, <1>2, OthersTyped
  <1>8. Progress(e, m, Tail(p))
    BY <1>1, ReadyProgress
  <1>9. NodeStep(e, n, m) /\ LegalStep(e, n, m)
    BY <1>2 DEF NodeStep, LegalStep
  <1>10. Sound(e, m, Tail(p))
    <2>1. m.cycle >= 0 /\ ~(m.cycle < 0)
      BY <1>1, <1>5
    <2> QED BY <1>2, <1>7, <1>8, <1>9, <2>1, SoundStep
  <1>11. Lawful(e, fixed, n) => Lawful(e, fixed, m)
    BY <1>9, LawfulStep
  <1>12. DoneOf(m) = DoneOf(n)
    BY <1>5 DEF DoneOf
  <1> QED BY <1>2, <1>3, <1>4, <1>5, <1>6, <1>10, <1>11, <1>12

(* A gate that the loop over unblocked gates schedules passes the          *)
(* assertions of scheduleGate.                                             *)
LEMMA PlaceableIsLegal ==
    ASSUME NEW e, IsEnvironment(e), NEW n, NEW g \in 1..Len(e.gates),
           IsPlaceable(n, e.gates[g])
    PROVE  MayCallScheduleGate(n, e.gates[g])
  <1>1. IsTwoQubit(e.gates[g]) => e.gates[g].control # -1
    BY DEF IsTwoQubit
  <1> QED BY <1>1 DEF IsPlaceable, MayCallScheduleGate, PhysicalControl, PhysicalTarget

(* The call has visited the first of the gates p.                          *)
IsVisited(e, fixed, n, p, call) ==
    /\ Sound(e, call.node, call.pending)
    /\ call.node.cycle = n.cycle /\ call.node.root = n.root
    /\ n.readyGates \subseteq call.node.readyGates
    /\ call.node.readyGates \cup DoneOf(call.node)
          = n.readyGates \cup DoneOf(n) \cup {Head(p)}
    /\ Head(p) \in 1..Len(e.gates) /\ Head(p) \notin n.readyGates \cup DoneOf(n)
    /\ Lawful(e, fixed, n) => Lawful(e, fixed, call.node)

(* One iteration of the loop.                                              *)
LEMMA VisitSound ==
    ASSUME NEW e, NEW fixed, IsEnvironment(e), HasNoSwapGates(e), NEW n, NEW p, Sound(e, n, p),
           p # <<>>, NEW call, call = VisitUnblocked(n, e.gates, p)
    PROVE  IsVisited(e, fixed, n, p, call)
  <1> DEFINE c == Head(p)
             m == MakeReady(n, c)
  <1>1. /\ Sound(e, m, Tail(p))
        /\ c \in 1..Len(e.gates) /\ c \notin n.readyGates /\ c \notin DoneOf(n)
        /\ m.cycle = n.cycle /\ m.root = n.root
        /\ m.readyGates = n.readyGates \cup {c}
        /\ DoneOf(m) = DoneOf(n)
        /\ Lawful(e, fixed, n) => Lawful(e, fixed, m)
    BY ReadySound
  <1>2. n.cycle >= 0
    BY DEF Sound
  <1>3. \/ /\ IsPlaceable(m, e.gates[c])
           /\ CanStart(m, e.gates[c].name, PhysicalControl(m, e.gates[c]),
                       PhysicalTarget(m, e.gates[c]))
           /\ call.node = ScheduleAlone(m, e.gates, c)
           /\ call.pending = Unblocked(m, e.gates, c) \o Tail(p)
        \/ call.node = m /\ call.pending = Tail(p)
    BY VisitCases
  <1> HIDE DEF c, m
  <1>4. CASE call.node = m /\ call.pending = Tail(p)
    BY <1>1, <1>4 DEF c, IsVisited
  <1>5. CASE /\ IsPlaceable(m, e.gates[c])
             /\ CanStart(m, e.gates[c].name, PhysicalControl(m, e.gates[c]),
                         PhysicalTarget(m, e.gates[c]))
             /\ call.node = ScheduleAlone(m, e.gates, c)
             /\ call.pending = Unblocked(m, e.gates, c) \o Tail(p)
    <2>1. m.cycle >= 0 /\ c \in m.readyGates
      BY <1>1, <1>2
    <2>2. MayCallScheduleGate(m, e.gates[c])
      BY <1>1, <1>5, PlaceableIsLegal
    <2>3. IsAfterGate(e, fixed, m, c, call.node, call.pending)
      BY <1>1, <1>5, <2>1, AloneSound
    <2> QED BY <1>1, <2>2, <2>3 DEF c, IsAfterGate, IsVisited
  <1> QED BY <1>3, <1>4, <1>5

-----------------------------------------------------------------------------
(* A whole call of scheduleGate.                                           *)

(* One step of it: another gate is visited, if there is one.               *)
NextCall(gs, c) ==
    IF c.pending = <<>> THEN c ELSE VisitUnblocked(c.node, gs, c.pending)

IsRunOf(gs, b, f) ==
    f = [i \in 0..Len(gs) |-> IF i = 0 THEN b ELSE NextCall(gs, f[i-1])]

(* A call for gate g on node n while it runs.                              *)
InCall(e, fixed, n, g, c) ==
    /\ Sound(e, c.node, c.pending)
    /\ c.node.cycle = n.cycle /\ c.node.root = n.root
    /\ n.readyGates \ {g} \subseteq c.node.readyGates
    /\ Lawful(e, fixed, n) /\ MayCallScheduleGate(n, e.gates[g]) => Lawful(e, fixed, c.node)

CallsOn(e, fixed, n, g) ==
    {c \in [node : Nodes, pending : Seq(1..Len(e.gates))] : InCall(e, fixed, n, g, c)}

(* The gates that have become ready.                                       *)
Reached(e, n) == (n.readyGates \cup DoneOf(n)) \cap 1..Len(e.gates)

(* One more gate visited, and the call still keeps the node sound.         *)
LEMMA NextCallType ==
    ASSUME NEW e, NEW fixed, IsEnvironment(e), HasNoSwapGates(e), NEW n, NEW g,
           NEW c \in CallsOn(e, fixed, n, g)
    PROVE  NextCall(e.gates, c) \in CallsOn(e, fixed, n, g)
  <1> DEFINE m == VisitUnblocked(c.node, e.gates, c.pending)
  <1>1. /\ InCall(e, fixed, n, g, c) /\ Sound(e, c.node, c.pending)
        /\ c.node \in Nodes /\ c.pending \in Seq(1..Len(e.gates))
    BY DEF CallsOn, InCall
  <1>2. CASE c.pending = <<>>
    BY <1>2 DEF NextCall
  <1>3. CASE c.pending # <<>>
    <2>1. NextCall(e.gates, c) = m
      BY <1>3 DEF NextCall
    <2>2. /\ Sound(e, m.node, m.pending)
          /\ m.node.cycle = c.node.cycle /\ m.node.root = c.node.root
          /\ c.node.readyGates \subseteq m.node.readyGates
          /\ Lawful(e, fixed, c.node) => Lawful(e, fixed, m.node)
      <3>1. IsVisited(e, fixed, c.node, c.pending, m)
        BY <1>1, <1>3, VisitSound
      <3> QED BY <3>1 DEF IsVisited
    <2>3. m = [node |-> m.node, pending |-> m.pending]
      BY DEF VisitUnblocked, Call
    <2> HIDE DEF m
    <2>4. m \in [node : Nodes, pending : Seq(1..Len(e.gates))]
      BY <2>2, <2>3 DEF Sound, TypedNode
    <2>5. InCall(e, fixed, n, g, m)
      BY <1>1, <2>2 DEF InCall
    <2> QED BY <2>1, <2>4, <2>5 DEF CallsOn
  <1> QED BY <1>2, <1>3

(* There is such a run.                                                    *)
LEMMA RunExists ==
    ASSUME NEW e, NEW fixed, IsEnvironment(e), HasNoSwapGates(e), NEW n, NEW g,
           NEW b \in CallsOn(e, fixed, n, g)
    PROVE  \E f \in [0..Len(e.gates) -> CallsOn(e, fixed, n, g)] : IsRunOf(e.gates, b, f)
  <1> DEFINE N == Len(e.gates)
             S == CallsOn(e, fixed, n, g)
             F == [a \in Nat \X S |-> NextCall(e.gates, a[2])]
  <1>1. N \in Nat /\ b \in S
    BY DEF IsEnvironment
  <1>2. \A c \in S : NextCall(e.gates, c) \in S
    BY NextCallType
  <1> HIDE DEF S
  <1>3. F \in [Nat \X S -> S]
    BY <1>2
  <1>4. \A i \in Nat : \A c \in S : F[<<i, c>>] = NextCall(e.gates, c)
    OBVIOUS
  <1> HIDE DEF F, N
  <1>5. \E f : IsRecursive(f, N, S, b, F)
    BY <1>1, <1>3, Recursion
  <1>6. PICK f \in [0..N -> S] : f[0] = b /\ \A i \in 1..N : f[i] = F[<<i, f[i-1]>>]
    BY <1>5, Zenon DEF IsRecursive
  <1>7. \A i \in 0..N : f[i] = IF i = 0 THEN b ELSE NextCall(e.gates, f[i-1])
    <2> SUFFICES ASSUME NEW i \in 1..N PROVE f[i] = NextCall(e.gates, f[i-1])
      BY <1>1, <1>6
    <2>1. i \in Nat /\ f[i-1] \in S
      BY <1>1, <1>6
    <2> QED BY <1>4, <1>6, <2>1
  <1>8. IsRunOf(e.gates, b, f)
    BY <1>6, <1>7 DEF IsRunOf, N
  <1> QED BY <1>6, <1>8 DEF S, N

(* Every visit reaches another gate, so that in the end none is pending.   *)
LEMMA RunEnds ==
    ASSUME NEW e, NEW fixed, IsEnvironment(e), HasNoSwapGates(e), NEW n, NEW g,
           NEW b, NEW f \in [0..Len(e.gates) -> CallsOn(e, fixed, n, g)], IsRunOf(e.gates, b, f)
    PROVE  f[Len(e.gates)].pending = <<>>
  <1> DEFINE N == Len(e.gates)
             V(i) == Reached(e, f[i].node)
             T == {i \in 0..N : f[i].pending = <<>> \/ Cardinality(V(i)) >= i}
  <1>1. N \in Nat
    BY DEF IsEnvironment
  <1>2. IsFiniteSet(1..N) /\ Cardinality(1..N) = N
    <2>1. 1 \in Int /\ N \in Int /\ (1 > N => N = 0) /\ (1 <= N => N - 1 + 1 = N)
      BY <1>1
    <2> QED BY <1>1, <2>1, FS_Interval
  <1>3. \A i \in 0..N : V(i) \subseteq 1..N
    BY DEF Reached
  <1> HIDE DEF N
  <1>4. \A i \in 0..N : IsFiniteSet(V(i)) /\ Cardinality(V(i)) \in Nat /\ Cardinality(V(i)) <= N
                        /\ (Cardinality(V(i)) = N => V(i) = 1..N)
    <2> HIDE DEF V
    <2> QED BY <1>2, <1>3, FS_Subset, FS_CardinalityType
  <1>5. 0 \in T
    BY <1>1, <1>4
  <1>6. ASSUME NEW i \in 0..N, f[i].pending # <<>>
        PROVE  /\ Sound(e, f[i].node, f[i].pending)
               /\ Head(f[i].pending) \in 1..N /\ Head(f[i].pending) \notin V(i)
    <2>1. Sound(e, f[i].node, f[i].pending)
      BY DEF CallsOn, InCall, N
    <2>2. /\ Head(f[i].pending) \in 1..Len(e.gates)
          /\ Head(f[i].pending) \notin f[i].node.readyGates \cup DoneOf(f[i].node)
      <3> DEFINE call == VisitUnblocked(f[i].node, e.gates, f[i].pending)
      <3>1. IsVisited(e, fixed, f[i].node, f[i].pending, call)
        BY <1>6, <2>1, VisitSound
      <3> QED BY <3>1 DEF IsVisited
    <2> QED BY <2>1, <2>2 DEF Reached, N
  <1>7. ASSUME NEW i \in 0..N-1, i \in T PROVE i + 1 \in T
    <2>1. i \in 0..N /\ i + 1 \in 0..N /\ i + 1 # 0 /\ (i + 1) - 1 = i
      BY <1>1
    <2>2. f[i+1] = NextCall(e.gates, f[i])
      BY <2>1 DEF IsRunOf, N
    <2>3. CASE f[i].pending = <<>>
      BY <2>1, <2>2, <2>3 DEF NextCall
    <2>4. CASE f[i].pending # <<>>
      <3>1. f[i+1] = VisitUnblocked(f[i].node, e.gates, f[i].pending)
        BY <2>2, <2>4 DEF NextCall
      <3>2. f[i+1].node.readyGates \cup DoneOf(f[i+1].node)
               = f[i].node.readyGates \cup DoneOf(f[i].node) \cup {Head(f[i].pending)}
        <4>1. IsVisited(e, fixed, f[i].node, f[i].pending, f[i+1])
          BY <1>6, <2>1, <2>4, <3>1, VisitSound
        <4> QED BY <4>1 DEF IsVisited
      <3>3. V(i+1) = V(i) \cup {Head(f[i].pending)}
        BY <1>6, <2>1, <2>4, <3>2 DEF Reached, N
      <3>4. Head(f[i].pending) \notin V(i) /\ IsFiniteSet(V(i))
        BY <1>4, <1>6, <2>1, <2>4
      <3>5. Cardinality(V(i)) >= i /\ Cardinality(V(i)) \in Nat
        BY <1>4, <1>7, <2>1, <2>4
      <3> HIDE DEF V
      <3>6. Cardinality(V(i+1)) = Cardinality(V(i)) + 1
        BY <3>3, <3>4, FS_AddElement
      <3>7. Cardinality(V(i+1)) >= i + 1
        BY <3>5, <3>6
      <3> QED BY <2>1, <3>7
    <2> QED BY <2>3, <2>4
  <1>8. N \in T
    <2> HIDE DEF T
    <2>1. 0..N \subseteq T
      BY <1>1, <1>5, <1>7, UpTo
    <2> QED BY <1>1, <2>1
  <1>9. f[N].pending = <<>>
    <2> SUFFICES ASSUME f[N].pending # <<>> PROVE FALSE
      OBVIOUS
    <2>1. N \in 0..N /\ Cardinality(V(N)) >= N
      BY <1>1, <1>8
    <2>2. V(N) = 1..N
      BY <1>1, <1>4, <2>1
    <2> QED BY <1>6, <2>1, <2>2
  <1> QED BY <1>9 DEF N

(* And every run stays among these calls.                                  *)
LEMMA RunType ==
    ASSUME NEW e, NEW fixed, IsEnvironment(e), HasNoSwapGates(e), NEW n, NEW g,
           NEW b \in CallsOn(e, fixed, n, g), NEW f, IsRunOf(e.gates, b, f)
    PROVE  f \in [0..Len(e.gates) -> CallsOn(e, fixed, n, g)]
  <1> DEFINE N == Len(e.gates)
             S == CallsOn(e, fixed, n, g)
             T == {i \in 0..N : f[i] \in S}
  <1>1. N \in Nat
    BY DEF IsEnvironment
  <1>2. f = [i \in 0..N |-> IF i = 0 THEN b ELSE NextCall(e.gates, f[i-1])]
    BY DEF IsRunOf
  <1> HIDE DEF N, S
  <1>3. 0 \in T
    <2>1. b \in S
      BY DEF S
    <2> QED BY <1>1, <1>2, <2>1
  <1>4. ASSUME NEW i \in 0..N-1, i \in T PROVE i + 1 \in T
    <2>1. i + 1 \in 0..N /\ i + 1 # 0 /\ (i + 1) - 1 = i
      BY <1>1
    <2>2. f[i+1] = NextCall(e.gates, f[i])
      BY <1>2, <2>1
    <2>3. NextCall(e.gates, f[i]) \in S
      BY <1>4, NextCallType DEF S
    <2> QED BY <2>1, <2>2, <2>3
  <1>5. 0..N \subseteq T
    <2> HIDE DEF T
    <2> QED BY <1>1, <1>3, <1>4, UpTo
  <1>6. \A i \in 0..N : f[i] \in S
    BY <1>5
  <1>7. f \in [0..N -> S]
    BY <1>2, <1>6
  <1> QED BY <1>7 DEF N, S

(* Node m is n after a whole call of scheduleGate for gate g.              *)
IsAfterCall(e, fixed, n, g, m) ==
    /\ Sound(e, m, <<>>)
    /\ m.cycle = n.cycle /\ m.root = n.root
    /\ n.readyGates \ {g} \subseteq m.readyGates
    /\ Lawful(e, fixed, n) /\ MayCallScheduleGate(n, e.gates[g]) => Lawful(e, fixed, m)

(* scheduleGate keeps a node sound, and lawful if its assertions hold.     *)
THEOREM ScheduleGateSound ==
    ASSUME NEW e, NEW fixed, IsEnvironment(e), HasNoSwapGates(e), NEW n, Sound(e, n, <<>>),
           n.cycle >= 0, NEW g \in n.readyGates
    PROVE  IsAfterCall(e, fixed, n, g, ScheduleGate(n, e.gates, g))
  <1> DEFINE v == e.gates[g]
             Starts == CanStart(n, v.name, PhysicalControl(n, v), PhysicalTarget(n, v))
             b == BeginSchedule(n, e.gates, g)
             f == CHOOSE h : IsRunOf(e.gates, b, h)
  <1>1. g \in 1..Len(e.gates) /\ Len(e.gates) \in Nat /\ ~IsSwapName(v.name)
    BY DEF Sound, TypedNode, HasNoSwapGates, IsEnvironment
  <1>2. CASE ~Starts
    <2>1. ScheduleGate(n, e.gates, g) = n
      BY <1>2, Zenon DEF ScheduleGate
    <2> QED BY <2>1 DEF IsAfterCall
  <1>3. CASE Starts
    <2>1. ScheduleGate(n, e.gates, g) = f[Len(e.gates)].node
      BY <1>1, <1>3, Zenon DEF ScheduleGate, IsRunOf, NextCall
    <2>2. b \in CallsOn(e, fixed, n, g)
      <3>1. b.node = ScheduleAlone(n, e.gates, g) /\ b.pending = Unblocked(n, e.gates, g)
            /\ b = [node |-> b.node, pending |-> b.pending]
        BY DEF BeginSchedule, Call
      <3>2. Unblocked(n, e.gates, g) \in Seq(1..Len(e.gates))
        BY <1>1, UnblockedType
      <3>3. b.pending = Unblocked(n, e.gates, g) \o <<>>
        BY <3>1, <3>2
      <3> HIDE DEF b
      <3>4. IsAfterGate(e, fixed, n, g, b.node, b.pending)
        BY <1>3, <3>1, <3>3, AloneSound
      <3>5. b \in [node : Nodes, pending : Seq(1..Len(e.gates))]
        BY <3>1, <3>4 DEF IsAfterGate, Sound, TypedNode
      <3>6. InCall(e, fixed, n, g, b)
        BY <3>4 DEF InCall, IsAfterGate
      <3> QED BY <3>5, <3>6 DEF CallsOn
    <2> HIDE DEF b
    <2>3. IsRunOf(e.gates, b, f)
      BY <2>2, RunExists
    <2>4. f \in [0..Len(e.gates) -> CallsOn(e, fixed, n, g)]
      BY <2>2, <2>3, RunType
    <2> HIDE DEF f
    <2>5. f[Len(e.gates)].pending = <<>>
      BY <2>3, <2>4, RunEnds
    <2>6. InCall(e, fixed, n, g, f[Len(e.gates)])
      <3>1. Len(e.gates) \in 0..Len(e.gates)
        BY <1>1
      <3>2. f[Len(e.gates)] \in CallsOn(e, fixed, n, g)
        BY <2>4, <3>1
      <3> QED BY <3>2 DEF CallsOn
    <2> QED BY <2>1, <2>5, <2>6 DEF InCall, IsAfterCall
  <1> QED BY <1>2, <1>3

-----------------------------------------------------------------------------
(* Sets in order.                                                          *)

(* Relation r puts the elements of s in an order.                          *)
IsOrder(s, r) ==
    /\ \A x, y \in s : x # y => <<x, y>> \in r \/ <<y, x>> \in r
    /\ \A x, y \in s : <<x, y>> \in r => <<y, x>> \notin r
    /\ \A x, y, z \in s : <<x, y>> \in r /\ <<y, z>> \in r => <<x, z>> \in r

(* The elements of s before x, and how many there are.                     *)
Preceding(s, r, x) == {y \in s : <<y, x>> \in r}
Rank(s, r, x) == Cardinality(Preceding(s, r, x))

(* A sequence without repetitions.                                         *)
IsOneToOne(s) == \A i, j \in DOMAIN s : s[i] = s[j] => i = j

(* Later elements of an order have more others before them.                *)
LEMMA RankFacts ==
    ASSUME NEW s, IsFiniteSet(s), NEW r, IsOrder(s, r)
    PROVE  /\ \A x \in s : Rank(s, r, x) \in Nat /\ IsFiniteSet(Preceding(s, r, x))
           /\ \A x, y \in s : <<x, y>> \in r => Rank(s, r, x) < Rank(s, r, y)
  <1>1. \A x \in s : IsFiniteSet(Preceding(s, r, x)) /\ Rank(s, r, x) \in Nat
    <2> SUFFICES ASSUME NEW x \in s
                 PROVE  IsFiniteSet(Preceding(s, r, x)) /\ Rank(s, r, x) \in Nat
      OBVIOUS
    <2>1. Preceding(s, r, x) \subseteq s
      BY DEF Preceding
    <2> QED BY <2>1, FS_Subset, FS_CardinalityType DEF Rank
  <1>2. ASSUME NEW x \in s, NEW y \in s, <<x, y>> \in r
        PROVE  Rank(s, r, x) < Rank(s, r, y)
    <2> DEFINE P == Preceding(s, r, x)
               Q == Preceding(s, r, y)
    <2>1. P \subseteq Q /\ x \in Q /\ x \notin P
      BY <1>2 DEF Preceding, IsOrder
    <2>2. IsFiniteSet(P) /\ IsFiniteSet(Q)
      BY <1>1
    <2> HIDE DEF P, Q
    <2>3. Cardinality(P) <= Cardinality(Q) /\ (Cardinality(P) = Cardinality(Q) => P = Q)
      BY <2>1, <2>2, FS_Subset
    <2>4. P # Q
      BY <2>1
    <2>5. Cardinality(P) \in Nat /\ Cardinality(Q) \in Nat
      BY <2>2, FS_CardinalityType
    <2>6. Cardinality(P) < Cardinality(Q)
      BY <2>3, <2>4, <2>5
    <2> QED BY <2>6 DEF P, Q, Rank
  <1> QED BY <1>1, <1>2

(* A nonempty set of elements has a first one.                             *)
LEMMA FirstElement ==
    ASSUME NEW s, IsFiniteSet(s), NEW r, IsOrder(s, r), NEW t \in SUBSET s, t # {}
    PROVE  \E x \in t : \A y \in t : <<y, x>> \notin r
  <1> DEFINE R == {Rank(s, r, x) : x \in t}
  <1>1. R \in SUBSET Nat /\ R # {}
    BY RankFacts
  <1>2. PICK m \in R : \A k \in R : m <= k
    <2> HIDE DEF R
    <2> QED BY <1>1, Least
  <1>3. PICK x \in t : m = Rank(s, r, x)
    OBVIOUS
  <1>4. ASSUME NEW y \in t, <<y, x>> \in r PROVE FALSE
    <2>1. Rank(s, r, y) < Rank(s, r, x) /\ Rank(s, r, y) \in Nat /\ Rank(s, r, x) \in Nat
      BY <1>4, RankFacts
    <2>2. Rank(s, r, x) <= Rank(s, r, y)
      BY <1>2, <1>3
    <2> QED BY <2>1, <2>2
  <1> QED BY <1>4

(* Every number below that of the elements is the rank of one.             *)
LEMMA RankExists ==
    ASSUME NEW s, IsFiniteSet(s), NEW r, IsOrder(s, r),
           NEW k \in 0..Cardinality(s)-1
    PROVE  \E x \in s : Rank(s, r, x) = k
  <1> DEFINE N == Cardinality(s) - 1
             T == {i \in 0..N : \E x \in s : Rank(s, r, x) = i}
  <1>1. Cardinality(s) \in Nat /\ N \in Nat
    BY FS_CardinalityType
  <1>2. 0 \in T
    <2>1. s # {}
      <3>1. Cardinality(s) # 0
        BY <1>1
      <3> QED BY <3>1, FS_EmptySet
    <2>2. PICK x \in s : \A y \in s : <<y, x>> \notin r
      BY <2>1, FirstElement
    <2>3. Preceding(s, r, x) = {}
      BY <2>2 DEF Preceding
    <2>4. Rank(s, r, x) = 0
      BY <2>3, FS_EmptySet DEF Rank
    <2> QED BY <1>1, <2>4
  <1>3. ASSUME NEW i \in 0..N-1, i \in T PROVE i + 1 \in T
    <2>1. PICK x \in s : Rank(s, r, x) = i
      BY <1>3
    <2> DEFINE P == Preceding(s, r, x)
               L == P \cup {x}
    <2>2. IsFiniteSet(P) /\ x \notin P /\ L \subseteq s /\ Cardinality(P) = i
      <3>1. P \subseteq s /\ x \notin P
        BY DEF Preceding, IsOrder
      <3>2. IsFiniteSet(P)
        BY RankFacts
      <3> QED BY <2>1, <3>1, <3>2 DEF Rank
    <2>3. IsFiniteSet(L) /\ Cardinality(L) = i + 1
      <3> HIDE DEF P
      <3> QED BY <2>2, FS_AddElement
    <2>4. s \ L # {}
      <3>1. Cardinality(L) # Cardinality(s)
        BY <1>1, <2>3
      <3> HIDE DEF L
      <3>2. L # s
        BY <3>1
      <3> QED BY <2>2, <3>2
    <2>5. PICK m \in s \ L : \A y \in s \ L : <<y, m>> \notin r
      <3>1. s \ L \in SUBSET s
        OBVIOUS
      <3> HIDE DEF L
      <3> QED BY <2>4, <3>1, FirstElement
    <2>6. Preceding(s, r, m) = L
      <3>1. ASSUME NEW y \in s, <<y, m>> \in r PROVE y \in L
        BY <2>5, <3>1
      <3>2. <<x, m>> \in r
        BY <2>5 DEF Preceding, IsOrder
      <3>3. ASSUME NEW y \in P PROVE y \in s /\ <<y, m>> \in r
        BY <2>5, <3>2 DEF Preceding, IsOrder
      <3> QED BY <3>1, <3>2, <3>3 DEF Preceding
    <2>7. Rank(s, r, m) = i + 1
      BY <2>3, <2>6 DEF Rank
    <2>8. i + 1 \in 0..N
      BY <1>1
    <2> QED BY <2>5, <2>7, <2>8
  <1>4. 0..N \subseteq T
    <2> HIDE DEF N, T
    <2> QED BY <1>1, <1>2, <1>3, UpTo
  <1> QED BY <1>4

(* The list of a set holds its elements, each of them once.                *)
IsListOf(s, l) ==
    /\ l \in Seq(s)
    /\ IsOneToOne(l)
    /\ Len(l) = Cardinality(s)

(* Listing an ordered set gives a list of it.                              *)
LEMMA ListedIs ==
    ASSUME NEW s, IsFiniteSet(s), NEW r, IsOrder(s, r)
    PROVE  IsListOf(s, Listed(s, r))
  <1> DEFINE N == Cardinality(s)
             At(i) == CHOOSE x \in s : Rank(s, r, x) = i - 1
             l == [i \in 1..N |-> At(i)]
  <1>1. N \in Nat
    BY FS_CardinalityType
  <1>2. Listed(s, r) = l
    BY Zenon DEF Listed, Rank, Preceding
  <1>3. \A i \in 1..N : At(i) \in s /\ Rank(s, r, At(i)) = i - 1
    <2> SUFFICES ASSUME NEW i \in 1..N PROVE At(i) \in s /\ Rank(s, r, At(i)) = i - 1
      OBVIOUS
    <2>1. i - 1 \in 0..Cardinality(s)-1
      BY <1>1
    <2>2. \E x \in s : Rank(s, r, x) = i - 1
      BY <2>1, RankExists
    <2> QED BY <2>2
  <1> HIDE DEF At
  <1>4. \A i, j \in 1..N : At(i) = At(j) => i = j
    <2> SUFFICES ASSUME NEW i \in 1..N, NEW j \in 1..N, At(i) = At(j) PROVE i = j
      OBVIOUS
    <2>1. i - 1 = j - 1
      BY <1>3
    <2> QED BY <2>1
  <1>5. l \in [1..N -> s]
    BY <1>3
  <1>6. l \in Seq(s) /\ Len(l) = N /\ DOMAIN l = 1..N
    BY <1>1, <1>5
  <1>7. IsOneToOne(l)
    BY <1>4, <1>6 DEF IsOneToOne
  <1> HIDE DEF l
  <1> QED BY <1>2, <1>6, <1>7 DEF IsListOf

(* Gates, positions and couplings in their orders.                         *)
LEMMA InOrderIs ==
    ASSUME NEW gs \in SUBSET Nat, IsFiniteSet(gs)
    PROVE  IsListOf(gs, InOrder(gs))
  <1> DEFINE r == {p \in gs \X gs : p[1] < p[2]}
  <1>1. \A x, y \in gs : <<x, y>> \in r <=> x < y
    OBVIOUS
  <1>2. IsOrder(gs, r)
    <2> HIDE DEF r
    <2>1. \A x \in gs : x \in Nat
      OBVIOUS
    <2> QED BY <1>1, <2>1 DEF IsOrder
  <1>3. InOrder(gs) = Listed(gs, r)
    BY DEF InOrder
  <1> HIDE DEF r
  <1> QED BY <1>2, <1>3, ListedIs

(* The couplings in the order of pairs are a list of them.                 *)
LEMMA CouplingsInOrderIs ==
    ASSUME NEW cs \in SUBSET Couplings
    PROVE  IsListOf(cs, CouplingsInOrder(cs))
  <1> DEFINE r == {p \in cs \X cs : IsPairBefore(p[1], p[2])}
  <1>1. IsFiniteSet(cs)
    <2>1. IsFiniteSet(Physical)
      <3>1. 0 \in Int /\ NumPhysical - 1 \in Int
        BY NodeAssumption
      <3> QED BY <3>1, FS_Interval DEF Physical
    <2>2. IsFiniteSet(Physical \X Physical)
      BY <2>1, FS_Product
    <2>3. cs \subseteq Physical \X Physical
      BY NodeAssumption
    <2> QED BY <2>2, <2>3, FS_Subset
  <1>2. \A x, y \in cs : <<x, y>> \in r <=> IsPairBefore(x, y)
    OBVIOUS
  <1>3. \A x \in cs : x = <<x[1], x[2]>> /\ x[1] \in Nat /\ x[2] \in Nat
    BY NodeAssumption DEF Physical
  <1>4. IsOrder(cs, r)
    <2> HIDE DEF r
    <2>1. ASSUME NEW x \in cs, NEW y \in cs, x # y
          PROVE  <<x, y>> \in r \/ <<y, x>> \in r
      <3>1. x[1] # y[1] \/ x[2] # y[2]
        BY <1>3, <2>1
      <3> QED BY <1>2, <1>3, <3>1 DEF IsPairBefore
    <2>2. ASSUME NEW x \in cs, NEW y \in cs, <<x, y>> \in r PROVE <<y, x>> \notin r
      <3>1. IsPairBefore(x, y)
        BY <1>2, <2>2
      <3> QED BY <1>2, <1>3, <3>1 DEF IsPairBefore
    <2>3. ASSUME NEW x \in cs, NEW y \in cs, NEW z \in cs, <<x, y>> \in r, <<y, z>> \in r
          PROVE  <<x, z>> \in r
      <3>1. IsPairBefore(x, y) /\ IsPairBefore(y, z)
        BY <1>2, <2>3
      <3>2. IsPairBefore(x, z)
        BY <1>3, <3>1 DEF IsPairBefore
      <3> QED BY <1>2, <3>2
    <2> QED BY <2>1, <2>2, <2>3 DEF IsOrder
  <1>5. CouplingsInOrder(cs) = Listed(cs, r)
    BY DEF CouplingsInOrder
  <1> HIDE DEF r
  <1> QED BY <1>1, <1>4, <1>5, ListedIs

(* What is picked from a sequence are elements of it, each position once.  *)
LEMMA PickedIs ==
    ASSUME NEW S, NEW s \in Seq(S), NEW positions \in SUBSET DOMAIN s
    PROVE  /\ Picked(s, positions) \in Seq(S)
           /\ \A i \in DOMAIN Picked(s, positions) :
                 \E j \in positions : Picked(s, positions)[i] = s[j]
           /\ IsOneToOne(s) => IsOneToOne(Picked(s, positions))
           /\ Len(Picked(s, positions)) = Cardinality(positions)
  <1> DEFINE order == InOrder(positions)
             k == Len(order)
             l == Picked(s, positions)
  <1>1. Len(s) \in Nat /\ DOMAIN s = 1..Len(s)
    OBVIOUS
  <1>2. IsFiniteSet(positions) /\ positions \in SUBSET Nat
    <2>1. positions \in SUBSET (1..Len(s)) /\ 1 \in Int /\ Len(s) \in Int
      BY <1>1
    <2>2. IsFiniteSet(1..Len(s))
      BY <2>1, FS_Interval
    <2>3. IsFiniteSet(positions)
      BY <2>1, <2>2, FS_Subset
    <2>4. \A x \in positions : x \in Nat
      BY <2>1
    <2> QED BY <2>3, <2>4
  <1>3. /\ order \in Seq(positions) /\ IsOneToOne(order)
        /\ k = Cardinality(positions) /\ k \in Nat /\ DOMAIN order = 1..k
    BY <1>2, InOrderIs DEF IsListOf
  <1>4. l = [i \in 1..k |-> s[order[i]]]
    BY <1>3 DEF Picked
  <1>5. \A i \in 1..k : order[i] \in positions
    BY <1>3
  <1> HIDE DEF order, k, l
  <1>6. \A i \in 1..k : order[i] \in DOMAIN s /\ s[order[i]] \in S
    BY <1>1, <1>5
  <1>7. l \in Seq(S) /\ Len(l) = k /\ DOMAIN l = 1..k
    <2>1. l \in [1..k -> S]
      BY <1>4, <1>6
    <2> QED BY <1>3, <2>1
  <1>8. \A i \in 1..k : l[i] = s[order[i]]
    BY <1>4
  <1>9. \A i \in 1..k : \E j \in positions : l[i] = s[j]
    BY <1>5, <1>8
  <1>10. IsOneToOne(s) => IsOneToOne(l)
    <2> SUFFICES ASSUME IsOneToOne(s), NEW i \in 1..k, NEW j \in 1..k, l[i] = l[j]
                 PROVE  i = j
      BY <1>7 DEF IsOneToOne
    <2>1. order[i] = order[j]
      BY <1>6, <1>8 DEF IsOneToOne
    <2> QED BY <1>3, <2>1 DEF IsOneToOne
  <1> QED BY <1>3, <1>7, <1>9, <1>10 DEF l

-----------------------------------------------------------------------------
(* A sequence of calls.                                                    *)

(* Attempt number i after the first i calls have been made on a.           *)
AreAttempts(a, gs, calls, k, f) ==
    f = [i \in 0..k |-> IF i = 0 THEN a ELSE Schedule(f[i-1], gs, calls[i])]

AreTries(n, a, gs, calls, k, f) ==
    f = [i \in 0..k |-> IF i = 0 THEN a ELSE Try(n, gs, f[i-1], calls[i])]

(* All attempts of ScheduleAll and of ChildWith, which b is the last of.   *)
AreAllAttempts(a, gs, calls, b, f) ==
    /\ f[0] = a
    /\ \A i \in 1..Len(calls) : f[i] = Schedule(f[i-1], gs, calls[i])
    /\ b = f[Len(calls)]

AreAllTries(n, gs, calls, b, f) ==
    /\ f[0] = Attempt(PrepChild(n))
    /\ \A i \in 1..Len(calls) : f[i] = Try(n, gs, f[i-1], calls[i])
    /\ b = f[Len(calls)]

(* The recursive functions of ScheduleAll and ChildWith are given.         *)
LEMMA AttemptsExist ==
    ASSUME NEW a, NEW gs, NEW calls, NEW N \in Nat
    PROVE  \E f : AreAttempts(a, gs, calls, N, f)
  <1> DEFINE T == {k \in 0..N : \E f : AreAttempts(a, gs, calls, k, f)}
             Next(b, i) == Schedule(b, gs, calls[i])
  <1> HIDE DEF Next
  <1>1. \A k, f : AreAttempts(a, gs, calls, k, f)
                     <=> f = [i \in 0..k |-> IF i = 0 THEN a ELSE Next(f[i-1], i)]
    BY Zenon DEF AreAttempts, Next
  <1>2. 0 \in T
    <2> DEFINE f == [i \in 0..0 |-> a]
    <2>1. f = [i \in 0..0 |-> IF i = 0 THEN a ELSE Next(f[i-1], i)]
      OBVIOUS
    <2> HIDE DEF f
    <2>2. AreAttempts(a, gs, calls, 0, f)
      BY <1>1, <2>1
    <2>3. 0 \in 0..N
      OBVIOUS
    <2> QED BY <2>2, <2>3
  <1>3. ASSUME NEW k \in 0..N-1, k \in T PROVE k + 1 \in T
    <2>1. PICK f : f = [i \in 0..k |-> IF i = 0 THEN a ELSE Next(f[i-1], i)]
      BY <1>1, <1>3
    <2> DEFINE h == [i \in 0..k+1 |-> IF i = k + 1 THEN Next(f[k], k + 1) ELSE f[i]]
    <2>2. ASSUME NEW i \in 0..k+1
          PROVE  h[i] = IF i = 0 THEN a ELSE Next(h[i-1], i)
      <3>1. CASE i = k + 1
        <4>1. h[i] = Next(f[k], i) /\ i # 0 /\ i - 1 = k /\ k \in 0..k+1 /\ k # k + 1
          BY <3>1
        <4>2. h[i-1] = f[k]
          BY <4>1
        <4> HIDE DEF h
        <4> QED BY <4>1, <4>2
      <3>2. CASE i # k + 1 /\ i # 0
        <4>1. i \in 0..k /\ i - 1 \in 0..k+1 /\ i - 1 # k + 1
          BY <3>2
        <4>2. h[i] = f[i] /\ h[i-1] = f[i-1]
          BY <3>2, <4>1
        <4>3. f[i] = Next(f[i-1], i)
          BY <2>1, <3>2, <4>1
        <4> HIDE DEF h
        <4> QED BY <3>2, <4>2, <4>3
      <3>3. CASE i = 0
        <4>1. h[i] = f[i] /\ i \in 0..k
          BY <3>3
        <4> HIDE DEF h
        <4> QED BY <2>1, <3>3, <4>1
      <3> QED BY <3>1, <3>2, <3>3
    <2>3. h = [i \in 0..k+1 |-> h[i]]
      OBVIOUS
    <2> HIDE DEF h
    <2>4. h = [i \in 0..k+1 |-> IF i = 0 THEN a ELSE Next(h[i-1], i)]
      BY <2>2, <2>3
    <2>5. k + 1 \in 0..N
      OBVIOUS
    <2> QED BY <1>1, <2>4, <2>5
  <1>4. 0..N \subseteq T
    <2> HIDE DEF T
    <2> QED BY <1>2, <1>3, UpTo
  <1> QED BY <1>4

(* The same for the calls that stop after a failure.                       *)
LEMMA TriesExist ==
    ASSUME NEW n, NEW a, NEW gs, NEW calls, NEW N \in Nat
    PROVE  \E f : AreTries(n, a, gs, calls, N, f)
  <1> DEFINE T == {k \in 0..N : \E f : AreTries(n, a, gs, calls, k, f)}
             Next(b, i) == Try(n, gs, b, calls[i])
  <1> HIDE DEF Next
  <1>1. \A k, f : AreTries(n, a, gs, calls, k, f)
                     <=> f = [i \in 0..k |-> IF i = 0 THEN a ELSE Next(f[i-1], i)]
    BY Zenon DEF AreTries, Next
  <1>2. 0 \in T
    <2> DEFINE f == [i \in 0..0 |-> a]
    <2>1. f = [i \in 0..0 |-> IF i = 0 THEN a ELSE Next(f[i-1], i)]
      OBVIOUS
    <2> HIDE DEF f
    <2>2. AreTries(n, a, gs, calls, 0, f)
      BY <1>1, <2>1
    <2>3. 0 \in 0..N
      OBVIOUS
    <2> QED BY <2>2, <2>3
  <1>3. ASSUME NEW k \in 0..N-1, k \in T PROVE k + 1 \in T
    <2>1. PICK f : f = [i \in 0..k |-> IF i = 0 THEN a ELSE Next(f[i-1], i)]
      BY <1>1, <1>3
    <2> DEFINE h == [i \in 0..k+1 |-> IF i = k + 1 THEN Next(f[k], k + 1) ELSE f[i]]
    <2>2. ASSUME NEW i \in 0..k+1
          PROVE  h[i] = IF i = 0 THEN a ELSE Next(h[i-1], i)
      <3>1. CASE i = k + 1
        <4>1. h[i] = Next(f[k], i) /\ i # 0 /\ i - 1 = k /\ k \in 0..k+1 /\ k # k + 1
          BY <3>1
        <4>2. h[i-1] = f[k]
          BY <4>1
        <4> HIDE DEF h
        <4> QED BY <4>1, <4>2
      <3>2. CASE i # k + 1 /\ i # 0
        <4>1. i \in 0..k /\ i - 1 \in 0..k+1 /\ i - 1 # k + 1
          BY <3>2
        <4>2. h[i] = f[i] /\ h[i-1] = f[i-1]
          BY <3>2, <4>1
        <4>3. f[i] = Next(f[i-1], i)
          BY <2>1, <3>2, <4>1
        <4> HIDE DEF h
        <4> QED BY <3>2, <4>2, <4>3
      <3>3. CASE i = 0
        <4>1. h[i] = f[i] /\ i \in 0..k
          BY <3>3
        <4> HIDE DEF h
        <4> QED BY <2>1, <3>3, <4>1
      <3> QED BY <3>1, <3>2, <3>3
    <2>3. h = [i \in 0..k+1 |-> h[i]]
      OBVIOUS
    <2> HIDE DEF h
    <2>4. h = [i \in 0..k+1 |-> IF i = 0 THEN a ELSE Next(h[i-1], i)]
      BY <2>2, <2>3
    <2>5. k + 1 \in 0..N
      OBVIOUS
    <2> QED BY <1>1, <2>4, <2>5
  <1>4. 0..N \subseteq T
    <2> HIDE DEF T
    <2> QED BY <1>2, <1>3, UpTo
  <1> QED BY <1>4

(* So their values follow from each other.                                 *)
(* What ScheduleAll returns is the last one of its attempts.               *)
LEMMA ScheduleAllIs ==
    ASSUME NEW a, NEW gs, NEW calls, Len(calls) \in Nat
    PROVE  \E f : AreAllAttempts(a, gs, calls, ScheduleAll(a, gs, calls), f)
  <1> DEFINE N == Len(calls)
             f == CHOOSE h : AreAttempts(a, gs, calls, N, h)
  <1>1. AreAttempts(a, gs, calls, N, f)
    BY AttemptsExist
  <1>2. ScheduleAll(a, gs, calls) = f[N]
    BY Zenon DEF ScheduleAll, AreAttempts
  <1> HIDE DEF f, N
  <1>3. f = [i \in 0..N |-> IF i = 0 THEN a ELSE Schedule(f[i-1], gs, calls[i])]
    BY <1>1 DEF AreAttempts
  <1>4. N \in Nat
    BY DEF N
  <1>5. f[0] = a
    BY <1>3, <1>4
  <1>6. ASSUME NEW i \in 1..N PROVE f[i] = Schedule(f[i-1], gs, calls[i])
    <2>1. i \in 0..N /\ i # 0
      BY <1>4
    <2> QED BY <1>3, <2>1
  <1>7. AreAllAttempts(a, gs, calls, ScheduleAll(a, gs, calls), f)
    BY <1>2, <1>5, <1>6 DEF N, AreAllAttempts
  <1> QED BY <1>7

(* The same of ChildWith.                                                  *)
LEMMA ChildWithIs ==
    ASSUME NEW n, NEW gs, NEW calls, Len(calls) \in Nat
    PROVE  \E f : AreAllTries(n, gs, calls, ChildWith(n, gs, calls), f)
  <1> DEFINE N == Len(calls)
             a == Attempt(PrepChild(n))
             f == CHOOSE h : AreTries(n, a, gs, calls, N, h)
  <1>1. AreTries(n, a, gs, calls, N, f)
    BY TriesExist
  <1>2. ChildWith(n, gs, calls) = f[N]
    BY Zenon DEF ChildWith, AreTries
  <1> HIDE DEF f, N, a
  <1>3. f = [i \in 0..N |-> IF i = 0 THEN a ELSE Try(n, gs, f[i-1], calls[i])]
    BY <1>1 DEF AreTries
  <1>4. N \in Nat
    BY DEF N
  <1>5. f[0] = a
    BY <1>3, <1>4
  <1>6. ASSUME NEW i \in 1..N PROVE f[i] = Try(n, gs, f[i-1], calls[i])
    <2>1. i \in 0..N /\ i # 0
      BY <1>4
    <2> QED BY <1>3, <2>1
  <1>7. AreAllTries(n, gs, calls, ChildWith(n, gs, calls), f)
    BY <1>2, <1>5, <1>6 DEF N, a, AreAllTries
  <1> QED BY <1>7

(* A child of n while calls are made on it.                                *)
AttemptFields == [node : Nodes, good : BOOLEAN, legal : BOOLEAN]

IsAttempt(e, fixed, n, a) ==
    /\ a \in AttemptFields
    /\ Sound(e, a.node, <<>>)
    /\ a.node.cycle = n.cycle + 1 /\ a.node.root = FALSE
    /\ Lawful(e, fixed, n) /\ a.legal => Lawful(e, fixed, a.node)

(* The calls for some gates and for any coupling, and what a call on an    *)
(* attempt makes of it: another one, with all ready gates but that of the  *)
(* call.                                                                   *)
CallsFor(ready) == {GateCall(g) : g \in ready} \cup {SwapCall(c) : c \in Couplings}

IsNextAttempt(e, fixed, n, a, call, b) ==
    /\ IsAttempt(e, fixed, n, b)
    /\ a.node.readyGates \ {call.gate} \subseteq b.node.readyGates

(* The fields of a call.                                                   *)
LEMMA CallFields ==
    ASSUME NEW ready, NEW call \in CallsFor(ready)
    PROVE  \/ call.gate \in ready /\ call = GateCall(call.gate)
           \/ call.gate = GeneratedSwap /\ call.coupling \in Couplings
  BY DEF CallsFor, GateCall, SwapCall

(* The fields of an attempt, when some of them are changed.                *)
LEMMA AttemptFieldsAre ==
    ASSUME NEW a \in AttemptFields, NEW k \in Nodes, NEW x \in BOOLEAN, NEW y \in BOOLEAN
    PROVE  /\ a.node \in Nodes /\ a.good \in BOOLEAN /\ a.legal \in BOOLEAN
           /\ [node |-> k, good |-> x, legal |-> y] \in AttemptFields
           /\ [a EXCEPT !.node = k] \in AttemptFields
           /\ [a EXCEPT !.good = x] \in AttemptFields
           /\ [a EXCEPT !.node = k, !.legal = y] \in AttemptFields
           /\ [a EXCEPT !.good = x, !.legal = y] \in AttemptFields
  BY DEF AttemptFields

(* Every sound node is one of Nodes.                                       *)
LEMMA SoundIsNode ==
    ASSUME NEW e, NEW n, NEW p, Sound(e, n, p)
    PROVE  n \in Nodes
  BY DEF Sound, TypedNode

(* Both qubits of a coupling are physical qubits.                          *)
LEMMA CouplingFields ==
    ASSUME NEW c \in Couplings
    PROVE  c[1] \in Physical /\ c[2] \in Physical
  BY NodeAssumption

(* One call of scheduleGate.                                               *)
LEMMA ScheduleSound ==
    ASSUME NEW e, NEW fixed, IsEnvironment(e), HasNoSwapGates(e), NEW n, n.cycle \in Int,
           n.cycle >= -1, NEW a, IsAttempt(e, fixed, n, a),
           NEW call \in CallsFor(a.node.readyGates)
    PROVE  IsNextAttempt(e, fixed, n, a, call, Schedule(a, e.gates, call))
  <1> DEFINE m == a.node
             b == Schedule(a, e.gates, call)
             c == call.coupling
  <1>1. /\ Sound(e, m, <<>>) /\ m.cycle >= 0 /\ m.cycle = n.cycle + 1
        /\ m.root = FALSE /\ m.readyGates \subseteq 1..Len(e.gates)
    BY DEF IsAttempt, Sound, TypedNode
  <1>2. Len(e.gates) \in Nat
    BY DEF IsEnvironment
  <1>3. CASE call.gate # GeneratedSwap
    <2> DEFINE g == call.gate
               k == ScheduleGate(m, e.gates, g)
               may == MayCallScheduleGate(m, e.gates[g])
               can == CanStart(m, e.gates[g].name, PhysicalControl(m, e.gates[g]),
                               PhysicalTarget(m, e.gates[g]))
    <2>1. g \in m.readyGates
      BY <1>3, CallFields
    <2>2. IsAfterCall(e, fixed, m, g, k)
      BY <1>1, <2>1, ScheduleGateSound
    <2>3. b = [node |-> k, good |-> a.good /\ can, legal |-> a.legal /\ may]
      BY <1>3 DEF Schedule
    <2> HIDE DEF b, k, may, can, m
    <2>4. b.node = k /\ b.good = (a.good /\ can) /\ b.legal = (a.legal /\ may)
      BY <2>3
    <2>5. b.good \in BOOLEAN /\ b.legal \in BOOLEAN
      BY Zenon, <2>4
    <2>6. /\ Sound(e, k, <<>>) /\ k.cycle = m.cycle /\ k.root = m.root
          /\ m.readyGates \ {g} \subseteq k.readyGates
          /\ Lawful(e, fixed, m) /\ may => Lawful(e, fixed, k)
      BY <2>2 DEF IsAfterCall, may
    <2>7. Lawful(e, fixed, n) /\ a.legal => Lawful(e, fixed, m)
      BY DEF IsAttempt, m
    <2>8. Lawful(e, fixed, n) /\ b.legal => Lawful(e, fixed, k)
      BY Zenon, <2>4, <2>6, <2>7
    <2>10. b \in AttemptFields
      <3>1. k \in Nodes /\ (a.good /\ can) \in BOOLEAN /\ (a.legal /\ may) \in BOOLEAN
        BY <2>6, SoundIsNode
      <3> QED BY <2>3, <3>1 DEF AttemptFields
    <2>9. IsAttempt(e, fixed, n, b)
      BY <1>1, <2>4, <2>10, <2>6, <2>8 DEF IsAttempt
    <2> QED BY <2>4, <2>6, <2>9 DEF IsNextAttempt, b, m
  <1>4. CASE call.gate = GeneratedSwap /\ CanStart(m, "swap", c[1], c[2])
    <2> DEFINE k == ScheduleSwap(m, GeneratedSwap, "swap", c[1], c[2])
               holds == HoldsSomething(m, c[1], c[2])
    <2>1. c \in Couplings
      <3>1. 0 \notin m.readyGates
        BY <1>1
      <3> QED BY <1>4, <3>1, CallFields DEF GeneratedSwap
    <2>2. /\ Sound(e, k, <<>>)
          /\ k.cycle = m.cycle /\ k.root = m.root /\ k.readyGates = m.readyGates
          /\ Lawful(e, fixed, m) => Lawful(e, fixed, k)
      <3> DEFINE k2 == k
      <3> HIDE DEF k2
      <3>1. k2 = ScheduleSwap(m, GeneratedSwap, "swap", c[1], c[2])
        BY DEF k2
      <3> HIDE DEF m, k
      <3>2. /\ Sound(e, k2, <<>>)
            /\ k2.cycle = m.cycle /\ k2.root = m.root /\ k2.readyGates = m.readyGates
            /\ Lawful(e, fixed, m) => Lawful(e, fixed, k2)
        <4>1. IsAfterSwap(e, fixed, m, k2)
          BY <1>1, <1>4, <2>1, <3>1, GeneratedSwapSound
        <4> QED BY <4>1 DEF IsAfterSwap
      <3> QED BY <3>2 DEF k2
    <2>3. b = [a EXCEPT !.node = k, !.legal = @ /\ holds]
      BY <1>4 DEF Schedule
    <2>4. a \in AttemptFields
      BY DEF IsAttempt
    <2> HIDE DEF b, k, m, holds
    <2>5. b.node = k /\ b.good = a.good /\ b.legal = (a.legal /\ holds)
      BY <2>3
    <2>7. Lawful(e, fixed, n) /\ a.legal => Lawful(e, fixed, m)
      BY DEF IsAttempt, m
    <2>8. Lawful(e, fixed, n) /\ b.legal => Lawful(e, fixed, k)
      BY Zenon, <2>5, <2>2, <2>7
    <2>10. b \in AttemptFields
      <3>1. k \in Nodes /\ (a.legal /\ holds) \in BOOLEAN
        BY <2>2, SoundIsNode
      <3> DEFINE y == a.legal /\ holds
      <3>2. b = [a EXCEPT !.node = k, !.legal = y]
        BY <2>3
      <3> HIDE DEF y
      <3>3. y \in BOOLEAN
        BY DEF y
      <3> QED BY <2>4, <3>1, <3>2, <3>3 DEF AttemptFields
    <2>9. IsAttempt(e, fixed, n, b)
      BY <1>1, <2>5, <2>10, <2>2, <2>8 DEF IsAttempt
    <2> QED BY <2>5, <2>2, <2>9 DEF IsNextAttempt, b, m
  <1>5. CASE call.gate = GeneratedSwap /\ ~CanStart(m, "swap", c[1], c[2])
    <2>1. b = [a EXCEPT !.good = FALSE]
      BY <1>5 DEF Schedule
    <2>2. Lawful(e, fixed, n) /\ a.legal => Lawful(e, fixed, m)
      BY DEF IsAttempt
    <2>5. b \in AttemptFields
      <3>1. a \in AttemptFields
        BY DEF IsAttempt
      <3> HIDE DEF b
      <3> QED BY <2>1, <3>1 DEF AttemptFields
    <2> HIDE DEF b, m
    <2>3. b.node = m /\ b.good = FALSE /\ b.legal = a.legal
      BY <2>1 DEF m
    <2>4. IsAttempt(e, fixed, n, b)
      BY <1>1, <2>2, <2>3, <2>5 DEF IsAttempt
    <2> QED BY <2>3, <2>4 DEF IsNextAttempt, b, m
  <1> QED BY <1>3, <1>4, <1>5

(* One call on a child of n that stops after a failure.                    *)
LEMMA TrySound ==
    ASSUME NEW e, NEW fixed, IsEnvironment(e), HasNoSwapGates(e), NEW n, n.cycle \in Int,
           NEW a, IsAttempt(e, fixed, n, a), NEW call \in CallsFor(a.node.readyGates),
           n.cycle >= -1 \/ call \in CallsFor({})
    PROVE  IsNextAttempt(e, fixed, n, a, call, Try(n, e.gates, a, call))
  <1> DEFINE m == a.node
             b == Try(n, e.gates, a, call)
             c == call.coupling
  <1>1. /\ Sound(e, m, <<>>) /\ m.cycle = n.cycle + 1 /\ m.root = FALSE
    BY DEF IsAttempt
  <1>2. Lawful(e, fixed, n) /\ a.legal => Lawful(e, fixed, m)
    BY DEF IsAttempt
  <1>7. a \in AttemptFields
    BY DEF IsAttempt
  <1>3. CASE ~a.good
    <2>1. b = a
      BY <1>3 DEF Try
    <2> QED BY <2>1 DEF IsNextAttempt
  <1>4. CASE a.good /\ n.cycle >= -1
    <2>1. b = Schedule(a, e.gates, call)
      BY <1>4 DEF Try
    <2> QED BY <1>4, <2>1, ScheduleSound
  <1>5. CASE a.good /\ ~(n.cycle >= -1) /\ ~HoldsSomething(m, c[2], c[1])
    <2>1. b = [a EXCEPT !.good = FALSE]
      BY <1>5 DEF Try, Rearrange
    <2> HIDE DEF b, m
    <2>3. b.node = m /\ b.good = FALSE /\ b.legal = a.legal
      BY <2>1 DEF m
    <2>5. b \in AttemptFields
      BY <1>7, <2>1 DEF AttemptFields
    <2>4. IsAttempt(e, fixed, n, b)
      BY <1>1, <1>2, <2>3, <2>5 DEF IsAttempt
    <2> QED BY <2>3, <2>4 DEF IsNextAttempt, b, m
  <1>6. CASE a.good /\ ~(n.cycle >= -1) /\ HoldsSomething(m, c[2], c[1])
    <2> DEFINE k == SwapQubits(m, c[2], c[1])
    <2>1. c[1] \in Physical /\ c[2] \in Physical
      BY <1>6, CallFields, CouplingFields
    <2>2. m.cycle < 0
      BY <1>1, <1>6
    <2>3. b = [a EXCEPT !.node = k]
      BY <1>6 DEF Try, Rearrange
    <2> DEFINE p1 == c[2]
               p2 == c[1]
    <2> HIDE DEF b, m, p1, p2
    <2>4. p1 \in Physical /\ p2 \in Physical
      BY <2>1 DEF p1, p2
    <2>5. /\ Sound(e, SwapQubits(m, p1, p2), <<>>)
          /\ SwapQubits(m, p1, p2).cycle = m.cycle
          /\ SwapQubits(m, p1, p2).root = m.root
          /\ SwapQubits(m, p1, p2).readyGates = m.readyGates
          /\ Lawful(e, fixed, m) => Lawful(e, fixed, SwapQubits(m, p1, p2))
      BY <1>1, <2>2, <2>4, RearrangeSound
    <2>6. b.node = SwapQubits(m, p1, p2) /\ b.good = a.good /\ b.legal = a.legal
      BY <2>3 DEF p1, p2
    <2>7. Lawful(e, fixed, n) /\ b.legal => Lawful(e, fixed, b.node)
      BY Zenon, <1>2, <2>5, <2>6
    <2>9. b \in AttemptFields
      <3> DEFINE x == SwapQubits(m, p1, p2)
      <3>1. x \in Nodes /\ b = [a EXCEPT !.node = x]
        BY <2>3, <2>5, SoundIsNode DEF p1, p2
      <3> HIDE DEF x
      <3> QED BY <1>7, <3>1 DEF AttemptFields
    <2>8. IsAttempt(e, fixed, n, b)
      BY <1>1, <2>5, <2>6, <2>7, <2>9 DEF IsAttempt
    <2> QED BY <2>5, <2>6, <2>8 DEF IsNextAttempt, b, m
  <1> QED BY <1>3, <1>4, <1>5, <1>6

(* What a sequence of calls makes of an attempt: another one, with all     *)
(* ready gates that no call is for.                                        *)
IsLaterAttempt(e, fixed, n, a, calls, b) ==
    /\ IsAttempt(e, fixed, n, b)
    /\ \A g \in a.node.readyGates :
          (\A j \in DOMAIN calls : calls[j].gate # g) => g \in b.node.readyGates

(* Different calls one after the other: the gates of later calls are still *)
(* ready.                                                                  *)
LEMMA CallsSound ==
    ASSUME NEW e, NEW fixed, IsEnvironment(e), HasNoSwapGates(e), NEW n, n.cycle \in Int,
           NEW a, IsAttempt(e, fixed, n, a), NEW ready \in SUBSET a.node.readyGates,
           n.cycle >= -1 \/ ready = {},
           NEW calls \in Seq(CallsFor(ready)), IsOneToOne(calls), NEW f, f[0] = a,
           \A i \in 1..Len(calls) :
              \/ f[i] = Try(n, e.gates, f[i-1], calls[i])
              \/ n.cycle >= -1 /\ f[i] = Schedule(f[i-1], e.gates, calls[i])
    PROVE  IsLaterAttempt(e, fixed, n, a, calls, f[Len(calls)])
  <1> DEFINE N == Len(calls)
             Is(i) == /\ IsAttempt(e, fixed, n, f[i])
                      /\ \A g \in a.node.readyGates :
                            (\A j \in 1..i : calls[j].gate # g) => g \in f[i].node.readyGates
             T == {i \in 0..N : Is(i)}
  <1>1. N \in Nat /\ DOMAIN calls = 1..N
    OBVIOUS
  <1>2. 0 \in T
    BY <1>1
  <1>3. ASSUME NEW k \in 0..N-1, k \in T PROVE k + 1 \in T
    <2> DEFINE i == k + 1
               call == calls[i]
    <2>1. i \in 1..N /\ i - 1 = k /\ k \in Nat
      BY <1>1
    <2>2. call \in CallsFor(ready)
      BY <2>1
    <2>3. Is(k)
      BY <1>3
    <2>4. call \in CallsFor(f[k].node.readyGates)
      <3>1. CASE call.gate \in ready /\ call = GateCall(call.gate)
        <4>1. ASSUME NEW j \in 1..k PROVE calls[j].gate # call.gate
          <5>1. SUFFICES ASSUME calls[j].gate = call.gate PROVE FALSE
            OBVIOUS
          <5>2. j \in DOMAIN calls /\ i \in DOMAIN calls /\ j # i
            BY <2>1, <1>1, <4>1
          <5>3. calls[j] \in CallsFor(ready)
            BY <5>2
          <5>4. 0 \notin ready
            <6>1. a.node.readyGates \subseteq 1..Len(e.gates)
              BY DEF IsAttempt, Sound, TypedNode
            <6>2. Len(e.gates) \in Nat
              BY DEF IsEnvironment
            <6> QED BY <6>1, <6>2
          <5>5. calls[j] = GateCall(calls[j].gate)
            BY <5>1, <5>3, <5>4, <3>1, CallFields DEF GeneratedSwap
          <5>6. calls[j] = calls[i]
            BY <5>1, <5>5, <3>1
          <5> QED BY <5>2, <5>6 DEF IsOneToOne
        <4>2. call.gate \in f[k].node.readyGates
          BY <2>3, <3>1, <4>1
        <4> QED BY <3>1, <4>2 DEF CallsFor
      <3>2. CASE call.gate = GeneratedSwap /\ call.coupling \in Couplings
        <4>1. call \in CallsFor({})
          <5>1. call \in {SwapCall(c) : c \in Couplings} \/ \E g \in ready : call = GateCall(g)
            BY <2>2 DEF CallsFor
          <5>2. ~ \E g \in ready : call = GateCall(g)
            <6>1. a.node.readyGates \subseteq 1..Len(e.gates)
              BY DEF IsAttempt, Sound, TypedNode
            <6>2. Len(e.gates) \in Nat
              BY DEF IsEnvironment
            <6>3. 0 \notin ready
              BY <6>1, <6>2
            <6>4. ASSUME NEW g \in ready, call = GateCall(g) PROVE FALSE
              <7>1. call.gate = g
                BY <6>4 DEF GateCall
              <7> QED BY <6>3, <7>1, <3>2 DEF GeneratedSwap
            <6> QED BY <6>4
          <5> QED BY <5>1, <5>2 DEF CallsFor
        <4> QED BY <4>1 DEF CallsFor
      <3> HIDE DEF call
      <3> QED BY <2>2, <3>1, <3>2, CallFields
    <2>5. n.cycle >= -1 \/ call \in CallsFor({})
      BY <2>2
    <2>6. IsNextAttempt(e, fixed, n, f[k], call, f[i])
      <3> DEFINE b == f[k]
      <3>1. IsAttempt(e, fixed, n, b) /\ call \in CallsFor(b.node.readyGates)
        BY <2>3, <2>4
      <3>2. \/ f[i] = Try(n, e.gates, b, call)
            \/ n.cycle >= -1 /\ f[i] = Schedule(b, e.gates, call)
        BY <2>1
      <3> HIDE DEF b, call
      <3>3. CASE f[i] = Try(n, e.gates, b, call)
        <4>1. IsNextAttempt(e, fixed, n, b, call, Try(n, e.gates, b, call))
          BY <3>1, <2>5, TrySound
        <4> QED BY <4>1, <3>3 DEF b
      <3>4. CASE n.cycle >= -1 /\ f[i] = Schedule(b, e.gates, call)
        <4>1. IsNextAttempt(e, fixed, n, b, call, Schedule(b, e.gates, call))
          BY <3>1, <3>4, ScheduleSound
        <4> QED BY <4>1, <3>4 DEF b
      <3> QED BY <3>2, <3>3, <3>4
    <2>7. ASSUME NEW g \in a.node.readyGates, \A j \in 1..i : calls[j].gate # g
          PROVE  g \in f[i].node.readyGates
      <3>1. (\A j \in 1..k : calls[j].gate # g) /\ call.gate # g
        BY <2>1, <2>7
      <3>2. g \in f[k].node.readyGates
        BY <2>3, <3>1
      <3> QED BY <2>6, <3>1, <3>2 DEF IsNextAttempt
    <2>8. Is(i)
      BY <2>6, <2>7 DEF IsNextAttempt
    <2> QED BY <2>1, <2>8
  <1>4. 0..N \subseteq T
    <2> HIDE DEF T
    <2> QED BY <1>1, <1>2, <1>3, UpTo
  <1>5. Is(N)
    BY <1>1, <1>4
  <1> QED BY <1>1, <1>5 DEF IsLaterAttempt

(* The calls of a schedule that are made whatever they return.             *)
LEMMA ScheduleAllSound ==
    ASSUME NEW e, NEW fixed, IsEnvironment(e), HasNoSwapGates(e), NEW n, n.cycle \in Int,
           NEW a, IsAttempt(e, fixed, n, a), NEW ready \in SUBSET a.node.readyGates,
           NEW calls \in Seq(CallsFor(ready)), IsOneToOne(calls),
           n.cycle >= -1 \/ (ready = {} /\ DOMAIN calls = {})
    PROVE  IsLaterAttempt(e, fixed, n, a, calls, ScheduleAll(a, e.gates, calls))
  <1>1. Len(calls) \in Nat
    OBVIOUS
  <1> DEFINE gs == e.gates
             b == ScheduleAll(a, gs, calls)
  <1> HIDE DEF gs, b
  <1>2. PICK f : AreAllAttempts(a, gs, calls, b, f)
    BY <1>1, ScheduleAllIs DEF b
  <1>3. \A i \in 1..Len(calls) :
           n.cycle >= -1 /\ f[i] = Schedule(f[i-1], e.gates, calls[i])
    <2>1. 1..Len(calls) = DOMAIN calls
      OBVIOUS
    <2> QED BY <1>2, <2>1 DEF gs, AreAllAttempts
  <1>4. IsLaterAttempt(e, fixed, n, a, calls, f[Len(calls)])
    BY <1>2, <1>3, CallsSound DEF AreAllAttempts
  <1> QED BY <1>2, <1>4 DEF b, gs, AreAllAttempts

(* A child before any calls.                                               *)
LEMMA PreparedSound ==
    ASSUME NEW e, NEW fixed, IsEnvironment(e), HasNoSwapGates(e), NEW n, Sound(e, n, <<>>)
    PROVE  /\ IsAttempt(e, fixed, n, Attempt(PrepChild(n)))
           /\ Attempt(PrepChild(n)).node.readyGates = n.readyGates
           /\ n.cycle \in Int
  <1>1. Attempt(PrepChild(n)) = [node |-> PrepChild(n), good |-> TRUE, legal |-> TRUE]
    BY DEF Attempt
  <1>2. n.cycle \in Int
    BY DEF Sound, TypedNode, Nodes
  <1>3. /\ Sound(e, PrepChild(n), <<>>)
        /\ PrepChild(n).cycle = n.cycle + 1 /\ PrepChild(n).root = FALSE
        /\ PrepChild(n).readyGates = n.readyGates
        /\ Lawful(e, fixed, n) => Lawful(e, fixed, PrepChild(n))
    BY PrepSound
  <1> DEFINE a == Attempt(PrepChild(n))
             m == PrepChild(n)
  <1>4. a.node = m /\ a.good = TRUE /\ a.legal = TRUE
    BY <1>1
  <1>6. a \in AttemptFields
    <2>1. m \in Nodes
      BY <1>3, SoundIsNode
    <2> HIDE DEF m
    <2> QED BY <1>1, <2>1 DEF AttemptFields, m
  <1> HIDE DEF a, m
  <1>5. IsAttempt(e, fixed, n, a)
    BY <1>3, <1>4, <1>6 DEF IsAttempt, m
  <1> QED BY <1>2, <1>3, <1>4, <1>5 DEF a, m

(* The calls that have to succeed.                                         *)
LEMMA ChildWithSound ==
    ASSUME NEW e, NEW fixed, IsEnvironment(e), HasNoSwapGates(e), NEW n, Sound(e, n, <<>>),
           NEW ready \in SUBSET n.readyGates, n.cycle >= -1 \/ ready = {},
           NEW calls \in Seq(CallsFor(ready)), IsOneToOne(calls)
    PROVE  IsLaterAttempt(e, fixed, n, Attempt(PrepChild(n)), calls,
                          ChildWith(n, e.gates, calls))
  <1>1. Len(calls) \in Nat
    OBVIOUS
  <1> DEFINE a == Attempt(PrepChild(n))
             gs == e.gates
             b == ChildWith(n, gs, calls)
  <1> HIDE DEF a, gs, b
  <1>2. PICK f : AreAllTries(n, gs, calls, b, f)
    BY <1>1, ChildWithIs DEF b
  <1>3. n.cycle \in Int /\ IsAttempt(e, fixed, n, a) /\ ready \in SUBSET a.node.readyGates
    BY PreparedSound DEF a
  <1>4. IsLaterAttempt(e, fixed, n, a, calls, f[Len(calls)])
    BY <1>2, <1>3, CallsSound DEF gs, AreAllTries, a
  <1> QED BY <1>2, <1>4 DEF a, b, gs, AreAllTries

(* The calls for a set of gates, and for a set of couplings.               *)
LEMMA GateCallsAre ==
    ASSUME NEW gs \in SUBSET Nat, IsFiniteSet(gs)
    PROVE  /\ GateCalls(gs) \in Seq(CallsFor(gs))
           /\ \A i \in DOMAIN GateCalls(gs) : GateCalls(gs)[i].gate \in gs
           /\ IsOneToOne(GateCalls(gs))
  <1> DEFINE l == InOrder(gs)
             k == GateCalls(gs)
  <1>1. l \in Seq(gs) /\ IsOneToOne(l)
    BY InOrderIs DEF IsListOf
  <1>2. k = [i \in DOMAIN l |-> GateCall(l[i])]
    BY DEF GateCalls, Mapped
  <1> HIDE DEF l, k
  <1>3. Len(l) \in Nat /\ DOMAIN l = 1..Len(l) /\ DOMAIN k = 1..Len(l)
    BY <1>1, <1>2
  <1>4. \A i \in 1..Len(l) : l[i] \in gs /\ k[i] = GateCall(l[i])
    BY <1>1, <1>2, <1>3
  <1>5. \A i \in 1..Len(l) : k[i].gate = l[i] /\ k[i] \in CallsFor(gs)
    <2> SUFFICES ASSUME NEW i \in 1..Len(l)
                 PROVE  k[i].gate = l[i] /\ k[i] \in CallsFor(gs)
      OBVIOUS
    <2>1. k[i] = GateCall(l[i]) /\ l[i] \in gs
      BY <1>4
    <2>2. k[i].gate = l[i]
      BY <2>1 DEF GateCall
    <2> QED BY <2>1, <2>2 DEF CallsFor
  <1>6. k \in Seq(CallsFor(gs))
    <2>1. k \in [1..Len(l) -> CallsFor(gs)]
      BY <1>2, <1>3, <1>5
    <2> QED BY <1>3, <2>1
  <1>7. IsOneToOne(k)
    BY <1>1, <1>3, <1>5 DEF IsOneToOne
  <1>8. \A i \in DOMAIN k : k[i].gate \in gs
    BY <1>3, <1>4, <1>5
  <1> QED BY <1>6, <1>7, <1>8 DEF k

(* The same for a set of couplings.                                        *)
LEMMA SwapCallsAre ==
    ASSUME NEW cs \in SUBSET Couplings
    PROVE  /\ SwapCalls(cs) \in Seq(CallsFor({}))
           /\ \A i \in DOMAIN SwapCalls(cs) : SwapCalls(cs)[i].gate = GeneratedSwap
           /\ IsOneToOne(SwapCalls(cs))
  <1> DEFINE l == CouplingsInOrder(cs)
             k == SwapCalls(cs)
  <1>1. l \in Seq(cs) /\ IsOneToOne(l)
    BY CouplingsInOrderIs DEF IsListOf
  <1>2. k = [i \in DOMAIN l |-> SwapCall(l[i])]
    BY DEF SwapCalls, Mapped
  <1> HIDE DEF l, k
  <1>3. Len(l) \in Nat /\ DOMAIN l = 1..Len(l) /\ DOMAIN k = 1..Len(l)
    BY <1>1, <1>2
  <1>4. \A i \in 1..Len(l) : l[i] \in Couplings /\ k[i] = SwapCall(l[i])
    BY <1>1, <1>2, <1>3
  <1>5. \A i \in 1..Len(l) : /\ k[i].coupling = l[i] /\ k[i].gate = GeneratedSwap
                             /\ k[i] \in CallsFor({})
    <2> SUFFICES ASSUME NEW i \in 1..Len(l)
                 PROVE  /\ k[i].coupling = l[i] /\ k[i].gate = GeneratedSwap
                        /\ k[i] \in CallsFor({})
      OBVIOUS
    <2>1. k[i] = SwapCall(l[i]) /\ l[i] \in Couplings
      BY <1>4
    <2>2. k[i].coupling = l[i] /\ k[i].gate = GeneratedSwap
      BY <2>1 DEF SwapCall
    <2> QED BY <2>1, <2>2 DEF CallsFor
  <1>6. k \in Seq(CallsFor({}))
    <2>1. k \in [1..Len(l) -> CallsFor({})]
      BY <1>2, <1>3, <1>5
    <2> QED BY <1>3, <2>1
  <1>7. IsOneToOne(k)
    BY <1>1, <1>3, <1>5 DEF IsOneToOne
  <1>8. \A i \in DOMAIN k : k[i].gate = GeneratedSwap
    BY <1>3, <1>5
  <1> QED BY <1>6, <1>7, <1>8 DEF k

(* More gates, more calls.                                                 *)
LEMMA MoreCalls ==
    ASSUME NEW few, NEW many, few \subseteq many, NEW calls \in Seq(CallsFor(few))
    PROVE  calls \in Seq(CallsFor(many))
  <1>1. CallsFor(few) \subseteq CallsFor(many)
    BY DEF CallsFor
  <1> QED BY <1>1

(* The children an expander makes of n, and what becomes of them.          *)
IsAttemptFor(e, fixed, n, a) ==
    /\ a \in AttemptFields
    /\ a.good => IsAttempt(e, fixed, n, a)

IsChildOf(e, n, m) ==
    /\ Sound(e, m, <<>>)
    /\ m.root = FALSE

AreChildrenOf(e, fixed, n, x) ==
    \E S : /\ x.children \in Seq(S)
           /\ \A m \in S : /\ IsChildOf(e, n, m)
                           /\ x.legal /\ Lawful(e, fixed, n) => Lawful(e, fixed, m)

(* The children that are made of attempts.                                 *)
LEMMA SucceededAre ==
    ASSUME NEW e, NEW fixed, NEW n, NEW attempts, NEW N \in Nat, DOMAIN attempts = 1..N,
           attempts = [i \in 1..N |-> attempts[i]],
           \A i \in 1..N : IsAttemptFor(e, fixed, n, attempts[i])
    PROVE  AreChildrenOf(e, fixed, n, Succeeded(attempts))
  <1> DEFINE S == {attempts[i] : i \in 1..N}
             positions == {i \in DOMAIN attempts : attempts[i].good}
             good == Picked(attempts, positions)
             x == Succeeded(attempts)
  <1>1. attempts \in Seq(S)
    <2>1. attempts \in [1..N -> S]
      OBVIOUS
    <2> QED BY <2>1
  <1>2. /\ good \in Seq(S)
        /\ \A i \in DOMAIN good : \E j \in positions : good[i] = attempts[j]
    <2>1. positions \in SUBSET DOMAIN attempts
      OBVIOUS
    <2> HIDE DEF S, positions
    <2> QED BY <1>1, <2>1, PickedIs
  <1> DEFINE children == [i \in DOMAIN good |-> good[i].node]
             legal == \A i \in DOMAIN attempts : attempts[i].legal
  <1>3. x = [children |-> children, legal |-> legal]
    BY DEF Succeeded, Expansion
  <1>4. ASSUME NEW i \in DOMAIN good
        PROVE  IsAttempt(e, fixed, n, good[i]) /\ (x.legal => good[i].legal)
    <2>1. PICK j \in positions : good[i] = attempts[j]
      BY <1>2
    <2>2. j \in 1..N /\ attempts[j].good
      OBVIOUS
    <2> HIDE DEF good, positions
    <2>3. IsAttempt(e, fixed, n, good[i])
      BY <2>1, <2>2 DEF IsAttemptFor
    <2>4. x.legal => \A k \in DOMAIN attempts : attempts[k].legal
      <3> HIDE DEF x, children, legal
      <3>1. x.legal = legal
        BY <1>3
      <3> QED BY Zenon, <3>1 DEF legal
    <2>5. x.legal => good[i].legal
      BY Zenon, <2>1, <2>2, <2>4
    <2> QED BY <2>3, <2>5
  <1> DEFINE nodes == {good[i].node : i \in DOMAIN good}
  <1>5. x.children \in Seq(nodes)
    <2>1. x.children = children
      <3> HIDE DEF x, children, legal
      <3> QED BY <1>3
    <2> HIDE DEF good, x
    <2>2. Len(good) \in Nat /\ DOMAIN good = 1..Len(good)
      BY <1>2
    <2>3. x.children \in [1..Len(good) -> nodes]
      BY <2>1, <2>2
    <2> QED BY <2>2, <2>3
  <1>6. ASSUME NEW m \in nodes
        PROVE  IsChildOf(e, n, m) /\ (x.legal /\ Lawful(e, fixed, n) => Lawful(e, fixed, m))
    <2>1. PICK i \in DOMAIN good : m = good[i].node
      OBVIOUS
    <2> DEFINE a == good[i]
    <2>2. IsAttempt(e, fixed, n, a) /\ (x.legal => a.legal) /\ m = a.node
      BY <1>4, <2>1
    <2> HIDE DEF a, x, good
    <2>3. IsChildOf(e, n, m)
      BY <2>2 DEF IsAttempt, IsChildOf
    <2>4. Lawful(e, fixed, n) /\ a.legal => Lawful(e, fixed, m)
      BY <2>2 DEF IsAttempt
    <2>5. x.legal /\ Lawful(e, fixed, n) => Lawful(e, fixed, m)
      BY Zenon, <2>2, <2>4
    <2> QED BY <2>3, <2>5
  <1> HIDE DEF nodes, x
  <1>7. AreChildrenOf(e, fixed, n, x)
    BY <1>5, <1>6 DEF AreChildrenOf
  <1> QED BY <1>7 DEF x

-----------------------------------------------------------------------------
(* DefaultExpander.                                                        *)

(* A power of two is a natural number: that of the subsets of a set.       *)
LEMMA PowersOfTwo ==
    ASSUME NEW k \in Nat
    PROVE  2^k \in Nat
  <1>1. 1 \in Int /\ k \in Int
    OBVIOUS
  <1>2. IsFiniteSet(1..k)
    BY <1>1, FS_Interval
  <1>3. Cardinality(1..k) = k
    BY <1>1, FS_Interval
  <1>4. IsFiniteSet(SUBSET (1..k)) /\ Cardinality(SUBSET (1..k)) = 2^Cardinality(1..k)
    BY <1>2, FS_SUBSET
  <1>5. Cardinality(SUBSET (1..k)) \in Nat
    BY <1>4, FS_CardinalityType
  <1> QED BY <1>3, <1>4, <1>5

(* Some of the calls, without repetition.                                  *)
IsPartOf(S, calls, part) ==
    /\ part \in Seq(S)
    /\ IsOneToOne(part)
    /\ \A i \in DOMAIN part : \E j \in DOMAIN calls : part[i] = calls[j]

(* All subsets are such parts.                                             *)
LEMMA SubsetsAre ==
    ASSUME NEW S, NEW calls \in Seq(S), IsOneToOne(calls)
    PROVE  \E N \in Nat :
              /\ DOMAIN Subsets(calls) = 1..N
              /\ \A x \in 1..N : IsPartOf(S, calls, Subsets(calls)[x])
  <1> DEFINE N == 2^Len(calls)
             all == Subsets(calls)
  <1>1. N \in Nat
    <2>1. Len(calls) \in Nat
      OBVIOUS
    <2> QED BY <2>1, PowersOfTwo
  <1>2. all = [x \in 1..N |-> Subset(calls, x-1)]
    BY DEF Subsets
  <1> HIDE DEF N, all
  <1>3. ASSUME NEW x \in 1..N PROVE IsPartOf(S, calls, all[x])
    <2> DEFINE positions == {y \in DOMAIN calls : ((x-1) \div 2^(y-1)) % 2 = 1}
               part == Picked(calls, positions)
    <2>1. all[x] = part
      BY <1>2 DEF Subset
    <2>2. positions \in SUBSET DOMAIN calls
      OBVIOUS
    <2> HIDE DEF positions
    <2>3. /\ part \in Seq(S)
          /\ \A i \in DOMAIN part : \E j \in positions : part[i] = calls[j]
          /\ IsOneToOne(calls) => IsOneToOne(part)
      BY <2>2, PickedIs
    <2>4. IsOneToOne(part)
      BY <2>3
    <2> HIDE DEF part
    <2>5. \A i \in DOMAIN part : \E j \in DOMAIN calls : part[i] = calls[j]
      BY <2>2, <2>3
    <2> QED BY <2>1, <2>3, <2>4, <2>5 DEF IsPartOf
  <1>4. DOMAIN all = 1..N
    BY <1>2
  <1> QED BY <1>1, <1>3, <1>4 DEF all

(* The calls for some gates and then for some couplings.                   *)
LEMMA PossibleAre ==
    ASSUME NEW N \in Nat, NEW gs \in SUBSET (1..N), NEW cs \in SUBSET Couplings,
           NEW calls, calls = GateCalls(gs) \o SwapCalls(cs)
    PROVE  /\ calls \in Seq(CallsFor(gs)) /\ IsOneToOne(calls)
           /\ \A i \in DOMAIN calls : calls[i].gate \in gs \cup {GeneratedSwap}
  <1> DEFINE a == GateCalls(gs)
             b == SwapCalls(cs)
  <1>1. IsFiniteSet(gs) /\ gs \in SUBSET Nat
    <2>1. 1 \in Int /\ N \in Int
      OBVIOUS
    <2>2. IsFiniteSet(1..N)
      BY <2>1, FS_Interval
    <2>3. IsFiniteSet(gs)
      BY <2>2, FS_Subset
    <2> QED BY <2>3
  <1>2. /\ a \in Seq(CallsFor(gs)) /\ IsOneToOne(a)
        /\ \A i \in DOMAIN a : a[i].gate \in gs
    BY <1>1, GateCallsAre
  <1>3. /\ b \in Seq(CallsFor({})) /\ IsOneToOne(b)
        /\ \A i \in DOMAIN b : b[i].gate = GeneratedSwap
    BY SwapCallsAre
  <1>4. calls = a \o b
    OBVIOUS
  <1> HIDE DEF a, b
  <1>5. b \in Seq(CallsFor(gs))
    <2>1. {} \subseteq gs
      OBVIOUS
    <2> QED BY <1>3, <2>1, MoreCalls
  <1> DEFINE k == Len(a)
             l == Len(b)
  <1>6. /\ k \in Nat /\ l \in Nat /\ DOMAIN calls = 1..k+l
        /\ DOMAIN a = 1..k /\ DOMAIN b = 1..l
        /\ \A i \in 1..k+l : calls[i] = IF i <= k THEN a[i] ELSE b[i-k]
        /\ calls \in Seq(CallsFor(gs))
    BY <1>2, <1>4, <1>5
  <1>7. ASSUME NEW i \in 1..k+l
        PROVE  \/ /\ i \in DOMAIN a /\ calls[i] = a[i]
                  /\ calls[i].gate \in gs /\ calls[i].gate # GeneratedSwap
               \/ /\ i > k /\ i-k \in DOMAIN b /\ calls[i] = b[i-k]
                  /\ calls[i].gate = GeneratedSwap
    <2> HIDE DEF k, l
    <2>1. CASE i <= k
      <3>1. i \in DOMAIN a /\ calls[i] = a[i]
        BY <1>6, <2>1
      <3>2. calls[i].gate \in gs
        BY <1>2, <3>1
      <3>3. 0 \notin gs
        OBVIOUS
      <3> QED BY <3>1, <3>2, <3>3 DEF GeneratedSwap
    <2>2. CASE i > k
      <3>1. i-k \in DOMAIN b /\ calls[i] = b[i-k]
        <4>1. k \in Nat /\ l \in Nat
          BY <1>6
        <4>2. i-k \in 1..l /\ ~(i <= k)
          BY <2>2, <4>1
        <4>3. calls[i] = IF i <= k THEN a[i] ELSE b[i-k]
          BY <1>6
        <4> QED BY <1>6, <4>2, <4>3
      <3> QED BY <1>3, <2>2, <3>1
    <2> QED BY <1>6, <2>1, <2>2
  <1>8. IsOneToOne(calls)
    <2> HIDE DEF k, l
    <2> SUFFICES ASSUME NEW i \in 1..k+l, NEW j \in 1..k+l, calls[i] = calls[j]
                 PROVE  i = j
      BY <1>6 DEF IsOneToOne
    <2>1. CASE i \in DOMAIN a /\ calls[i] = a[i] /\ calls[i].gate # GeneratedSwap
      <3>1. j \in DOMAIN a /\ calls[j] = a[j]
        BY <1>7, <2>1
      <3> QED BY <1>2, <2>1, <3>1 DEF IsOneToOne
    <2>2. CASE i > k /\ i-k \in DOMAIN b /\ calls[i] = b[i-k] /\ calls[i].gate = GeneratedSwap
      <3>1. j > k /\ j-k \in DOMAIN b /\ calls[j] = b[j-k]
        BY <1>7, <2>2
      <3>2. i-k = j-k
        BY <1>3, <2>2, <3>1 DEF IsOneToOne
      <3> QED BY <1>6, <3>2
    <2> QED BY <1>7, <2>1, <2>2
  <1>9. \A i \in DOMAIN calls : calls[i].gate \in gs \cup {GeneratedSwap}
    BY <1>6, <1>7
  <1> QED BY <1>6, <1>8, <1>9

(* The gates of a node that may start are ready, and there are none in the *)
(* search cycles.                                                          *)
LEMMA ExecutableAre ==
    ASSUME NEW e, IsEnvironment(e), NEW n, Sound(e, n, <<>>)
    PROVE  /\ Executable(n, e.gates) \in SUBSET n.readyGates
           /\ n.cycle >= -1 \/ Executable(n, e.gates) = {}
           /\ n.readyGates \in SUBSET (1..Len(e.gates))
           /\ Len(e.gates) \in Nat
  <1>1. n.readyGates \in SUBSET (1..Len(e.gates)) /\ Len(e.gates) \in Nat
    BY DEF Sound, TypedNode, IsEnvironment
  <1> QED BY <1>1 DEF Executable

(* The calls after the chosen ones are for other gates.                    *)
LEMMA FurtherCallsSound ==
    ASSUME NEW e, NEW fixed, IsEnvironment(e), HasNoSwapGates(e), NEW n, Sound(e, n, <<>>),
           NEW ready \in SUBSET n.readyGates, n.cycle >= -1 \/ ready = {},
           NEW chosen \in Seq(CallsFor(ready)), IsOneToOne(chosen),
           NEW gs \in SUBSET n.readyGates, n.cycle >= -1 \/ gs = {},
           \A i \in DOMAIN chosen : chosen[i].gate \notin gs
    PROVE  LET a == ChildWith(n, e.gates, chosen)
               b == ScheduleAll(a, e.gates, GateCalls(gs))
           IN  IsAttempt(e, fixed, n, a) /\ IsAttempt(e, fixed, n, b)
  <1> DEFINE a == ChildWith(n, e.gates, chosen)
             start == Attempt(PrepChild(n))
             calls == GateCalls(gs)
  <1>1. IsLaterAttempt(e, fixed, n, start, chosen, a)
    BY ChildWithSound
  <1>2. start.node.readyGates = n.readyGates /\ n.cycle \in Int
    BY PreparedSound
  <1> HIDE DEF a, start
  <1>3. IsAttempt(e, fixed, n, a)
    BY <1>1 DEF IsLaterAttempt
  <1>4. gs \in SUBSET a.node.readyGates
    BY <1>1, <1>2 DEF IsLaterAttempt
  <1>5. IsFiniteSet(gs) /\ gs \in SUBSET Nat
    <2>1. gs \in SUBSET (1..Len(e.gates)) /\ Len(e.gates) \in Nat
      BY ExecutableAre
    <2>2. 1 \in Int /\ Len(e.gates) \in Int
      BY <2>1
    <2>3. IsFiniteSet(1..Len(e.gates))
      BY <2>2, FS_Interval
    <2>4. IsFiniteSet(gs)
      BY <2>1, <2>3, FS_Subset
    <2> QED BY <2>1, <2>4
  <1>6. /\ calls \in Seq(CallsFor(gs)) /\ IsOneToOne(calls)
        /\ \A i \in DOMAIN calls : calls[i].gate \in gs
    BY <1>5, GateCallsAre
  <1> HIDE DEF calls
  <1>7. n.cycle >= -1 \/ (gs = {} /\ DOMAIN calls = {})
    BY <1>6
  <1>8. IsLaterAttempt(e, fixed, n, a, calls, ScheduleAll(a, e.gates, calls))
    BY <1>2, <1>3, <1>4, <1>6, <1>7, ScheduleAllSound
  <1> QED BY <1>3, <1>8 DEF IsLaterAttempt, a, calls

(* What good and legal are set to does not matter to the node, as long as  *)
(* legal only gets stronger.                                               *)
LEMMA OtherFlags ==
    ASSUME NEW e, NEW fixed, NEW n, NEW a, IsAttempt(e, fixed, n, a), NEW b \in AttemptFields,
           b.node = a.node, b.legal => a.legal
    PROVE  IsAttempt(e, fixed, n, b)
  BY DEF IsAttempt

(* The child with all single-cycle gates after the chosen ones, and that   *)
(* with the guaranteed ones.                                               *)
LEMMA ChildSound ==
    ASSUME NEW e, NEW fixed, IsEnvironment(e), HasNoSwapGates(e), NEW n, Sound(e, n, <<>>),
           NEW ready \in SUBSET n.readyGates, n.cycle >= -1 \/ ready = {},
           NEW chosen \in Seq(CallsFor(ready)), IsOneToOne(chosen),
           NEW gs \in SUBSET n.readyGates, n.cycle >= -1 \/ gs = {},
           \A i \in DOMAIN chosen : chosen[i].gate \notin gs
    PROVE  /\ IsAttemptFor(e, fixed, n, Child(n, e.gates, chosen, GateCalls(gs)))
           /\ IsAttemptFor(e, fixed, n, StartGuaranteed(ChildWith(n, e.gates, chosen), e.gates,
                                                 GateCalls(gs)))
  <1> DEFINE a == ChildWith(n, e.gates, chosen)
             b == ScheduleAll(a, e.gates, GateCalls(gs))
             y == b.legal /\ b.good
             c1 == [b EXCEPT !.good = TRUE]
             c2 == [b EXCEPT !.good = TRUE, !.legal = y]
  <1>1. IsAttempt(e, fixed, n, a) /\ IsAttempt(e, fixed, n, b)
    BY FurtherCallsSound
  <1>2. /\ Child(n, e.gates, chosen, GateCalls(gs)) = IF ~a.good THEN a ELSE c1
        /\ StartGuaranteed(a, e.gates, GateCalls(gs)) = IF ~a.good THEN a ELSE c2
    BY DEF Child, TrySingle, StartGuaranteed, Asserted
  <1>3. y \in BOOLEAN
    OBVIOUS
  <1>4. y => b.legal
    OBVIOUS
  <1> HIDE DEF a, b, y
  <1>5. a \in AttemptFields /\ b \in AttemptFields
    BY <1>1 DEF IsAttempt
  <1>6. c1 \in AttemptFields /\ c2 \in AttemptFields
    BY <1>3, <1>5 DEF AttemptFields
  <1>7. /\ c1.node = b.node /\ c1.legal = b.legal
        /\ c2.node = b.node /\ c2.legal = y
    BY <1>5 DEF AttemptFields
  <1> HIDE DEF c1, c2
  <1>8. IsAttempt(e, fixed, n, c1)
    <2>1. c1.legal => b.legal
      BY Zenon, <1>7
    <2> QED BY <1>1, <1>6, <1>7, <2>1, OtherFlags
  <1>9. IsAttempt(e, fixed, n, c2)
    <2>1. c2.legal => b.legal
      BY Zenon, <1>4, <1>7
    <2> QED BY <1>1, <1>6, <1>7, <2>1, OtherFlags
  <1>10. \A x : IsAttempt(e, fixed, n, x) => IsAttemptFor(e, fixed, n, x)
    BY DEF IsAttempt, IsAttemptFor
  <1> QED BY <1>1, <1>2, <1>8, <1>9, <1>10 DEF a

(* The attempted children of DefaultExpander.                              *)
LEMMA AttemptsSound ==
    ASSUME NEW e, NEW fixed, IsEnvironment(e), HasNoSwapGates(e), NEW n, Sound(e, n, <<>>),
           NEW size
    PROVE  \E N \in Nat :
              /\ Attempts(n, e.gates, size) = [x \in 1..N |-> Attempts(n, e.gates, size)[x]]
              /\ \A x \in 1..N : IsAttemptFor(e, fixed, n, Attempts(n, e.gates, size)[x])
  <1> DEFINE all == Attempts(n, e.gates, size)
             ready == ReadyToStart(n, e.gates, size)
             single == {g \in ready : IsSingleCycle(n, e.gates[g])}
             others == ready \ single
             swaps == SwapsToStart(n, e.gates, size)
             possible == GateCalls(others) \o SwapCalls(swaps)
             chosen == Subsets(possible)
             One(x) == Child(n, e.gates, chosen[x], GateCalls(single))
  <1>1. /\ ready \in SUBSET n.readyGates /\ (n.cycle >= -1 \/ ready = {})
        /\ n.readyGates \in SUBSET (1..Len(e.gates)) /\ Len(e.gates) \in Nat
    BY ExecutableAre DEF ReadyToStart
  <1>2. swaps \in SUBSET Couplings
    BY DEF SwapsToStart
  <1>3. all = IF ~IsPromising(n, e.gates, size) THEN <<>>
              ELSE [x \in DOMAIN chosen |-> One(x)]
    BY Zenon DEF Attempts
  <1> HIDE DEF ready, swaps, all
  <1>4. others \in SUBSET (1..Len(e.gates))
    BY <1>1
  <1> HIDE DEF others
  <1>5. /\ possible \in Seq(CallsFor(others)) /\ IsOneToOne(possible)
        /\ \A i \in DOMAIN possible : possible[i].gate \in others \cup {GeneratedSwap}
    BY <1>1, <1>2, <1>4, PossibleAre
  <1> HIDE DEF possible
  <1>6. PICK N \in Nat :
           /\ DOMAIN chosen = 1..N
           /\ \A x \in 1..N : IsPartOf(CallsFor(others), possible, chosen[x])
    BY <1>5, SubsetsAre
  <1> HIDE DEF chosen
  <1>7. ASSUME NEW x \in 1..N PROVE IsAttemptFor(e, fixed, n, One(x))
    <2> DEFINE part == chosen[x]
    <2>1. /\ part \in Seq(CallsFor(others)) /\ IsOneToOne(part)
          /\ \A i \in DOMAIN part : \E j \in DOMAIN possible : part[i] = possible[j]
      BY <1>6 DEF IsPartOf
    <2> HIDE DEF part
    <2>2. ASSUME NEW i \in DOMAIN part PROVE part[i].gate \notin single
      <3>1. part[i].gate \in others \cup {GeneratedSwap}
        BY <1>5, <2>1
      <3>2. GeneratedSwap \notin single /\ others \cap single = {}
        BY <1>1 DEF others, GeneratedSwap
      <3> QED BY <3>1, <3>2
    <2>3. others \in SUBSET n.readyGates /\ (n.cycle >= -1 \/ others = {})
      BY <1>1 DEF others
    <2>4. single \in SUBSET n.readyGates /\ (n.cycle >= -1 \/ single = {})
      BY <1>1
    <2> HIDE DEF single
    <2>5. IsAttemptFor(e, fixed, n, Child(n, e.gates, part, GateCalls(single)))
      BY <2>1, <2>2, <2>3, <2>4, ChildSound
    <2> QED BY <2>5 DEF part
  <1> HIDE DEF One
  <1>8. CASE IsPromising(n, e.gates, size)
    <2>1. all = [x \in 1..N |-> One(x)]
      BY <1>3, <1>6, <1>8
    <2>2. all = [x \in 1..N |-> all[x]] /\ \A x \in 1..N : IsAttemptFor(e, fixed, n, all[x])
      BY <1>7, <2>1
    <2> QED BY <2>2 DEF all
  <1>9. CASE ~IsPromising(n, e.gates, size)
    <2>1. all = <<>>
      BY <1>3, <1>9
    <2>2. all = [x \in 1..0 |-> all[x]] /\ \A x \in 1..0 : IsAttemptFor(e, fixed, n, all[x])
      BY <2>1
    <2> QED BY <2>2 DEF all
  <1> QED BY <1>8, <1>9

(* Whatever DefaultExpander makes of a sound node is sound.                *)
THEOREM ExpandAllSound ==
    ASSUME NEW e, NEW fixed, IsEnvironment(e), HasNoSwapGates(e), NEW n, Sound(e, n, <<>>),
           NEW size
    PROVE  AreChildrenOf(e, fixed, n, ExpandAll(n, e.gates, size))
  <1> DEFINE attempts == Attempts(n, e.gates, size)
             y == Succeeded(attempts)
             holds == IsInBounds(n, e.gates)
             x == [y EXCEPT !.legal = @ /\ holds]
  <1>1. x = ExpandAll(n, e.gates, size)
    BY DEF ExpandAll
  <1>2. AreChildrenOf(e, fixed, n, y)
    <2> HIDE DEF attempts
    <2>1. PICK N \in Nat : /\ attempts = [i \in 1..N |-> attempts[i]]
                           /\ \A i \in 1..N : IsAttemptFor(e, fixed, n, attempts[i])
      BY AttemptsSound DEF attempts
    <2>2. DOMAIN attempts = 1..N
      BY <2>1
    <2> QED BY <2>1, <2>2, SucceededAre
  <1>3. x.children = y.children /\ (x.legal => y.legal)
    <2> DEFINE b == y.legal /\ holds
    <2>1. y = [children |-> y.children, legal |-> y.legal]
      BY DEF Succeeded, Expansion
    <2> HIDE DEF y
    <2>2. x = [children |-> y.children, legal |-> b]
      BY <2>1
    <2> HIDE DEF x
    <2>3. b => y.legal
      OBVIOUS
    <2> HIDE DEF b
    <2>4. x.children = y.children /\ x.legal = b
      BY <2>2
    <2> QED BY Zenon, <2>3, <2>4
  <1> HIDE DEF x, y
  <1>4. PICK S : /\ y.children \in Seq(S)
                 /\ \A m \in S : /\ IsChildOf(e, n, m)
                                 /\ y.legal /\ Lawful(e, fixed, n) => Lawful(e, fixed, m)
    BY <1>2 DEF AreChildrenOf
  <1>5. \A m \in S : /\ IsChildOf(e, n, m)
                     /\ x.legal /\ Lawful(e, fixed, n) => Lawful(e, fixed, m)
    BY Zenon, <1>3, <1>4
  <1>6. x.children \in Seq(S)
    BY <1>3, <1>4
  <1>7. AreChildrenOf(e, fixed, n, x)
    BY <1>5, <1>6 DEF AreChildrenOf
  <1> QED BY <1>1, <1>7

-----------------------------------------------------------------------------
(* GreedyTopK.                                                             *)

(* The attempted children of GreedyTopK.                                   *)
LEMMA GreedyAttemptsSound ==
    ASSUME NEW e, NEW fixed, IsEnvironment(e), HasNoSwapGates(e), NEW n, Sound(e, n, <<>>)
    PROVE  \E N \in Nat :
              /\ GreedyAttempts(n, e.gates) = [x \in 1..N |-> GreedyAttempts(n, e.gates)[x]]
              /\ \A x \in 1..N : IsAttemptFor(e, fixed, n, GreedyAttempts(n, e.gates)[x])
  <1> DEFINE all == GreedyAttempts(n, e.gates)
             started == Executable(n, e.gates)
             swaps == HelpfulSwaps(n, e.gates)
             possible == SwapCalls(swaps)
             chosen == Subsets(possible)
             isIdle == started = {} /\ \A p \in Physical : BusyCycles(n, p) = 0
             none == [Attempt(n) EXCEPT !.good = FALSE]
             One(x) == IF x = 1 /\ isIdle THEN none ELSE GreedyChild(n, e.gates, chosen[x])
  <1>1. /\ started \in SUBSET n.readyGates /\ (n.cycle >= -1 \/ started = {})
        /\ n.readyGates \in SUBSET (1..Len(e.gates)) /\ Len(e.gates) \in Nat
    BY ExecutableAre
  <1>2. swaps \in SUBSET Couplings
    BY DEF HelpfulSwaps
  <1>3. all = [x \in DOMAIN chosen |-> One(x)]
    BY Zenon DEF GreedyAttempts
  <1>4. \A x : GreedyChild(n, e.gates, chosen[x])
                  = StartGuaranteed(ChildWith(n, e.gates, chosen[x]), e.gates, GateCalls(started))
    BY Zenon DEF GreedyChild
  <1> HIDE DEF started, swaps, all, isIdle
  <1>5. /\ possible \in Seq(CallsFor({})) /\ IsOneToOne(possible)
        /\ \A i \in DOMAIN possible : possible[i].gate = GeneratedSwap
    BY <1>2, SwapCallsAre
  <1> HIDE DEF possible
  <1>6. PICK N \in Nat :
           /\ DOMAIN chosen = 1..N
           /\ \A x \in 1..N : IsPartOf(CallsFor({}), possible, chosen[x])
    BY <1>5, SubsetsAre
  <1> HIDE DEF chosen
  <1>7. IsAttemptFor(e, fixed, n, none)
    <2> DEFINE a == Attempt(n)
    <2>1. a = [node |-> n, good |-> TRUE, legal |-> TRUE] /\ n \in Nodes
      BY SoundIsNode DEF Attempt
    <2>2. a \in AttemptFields
      BY <2>1 DEF AttemptFields
    <2> HIDE DEF a
    <2>4. none = [a EXCEPT !.good = FALSE]
      BY DEF a
    <2> HIDE DEF none
    <2>3. none \in AttemptFields /\ none.good = FALSE
      BY <2>2, <2>4 DEF AttemptFields
    <2> QED BY <2>3 DEF IsAttemptFor
  <1>8. ASSUME NEW x \in 1..N PROVE IsAttemptFor(e, fixed, n, One(x))
    <2> DEFINE part == chosen[x]
    <2>1. /\ part \in Seq(CallsFor({})) /\ IsOneToOne(part)
          /\ \A i \in DOMAIN part : \E j \in DOMAIN possible : part[i] = possible[j]
      BY <1>6 DEF IsPartOf
    <2> HIDE DEF part
    <2>2. ASSUME NEW i \in DOMAIN part PROVE part[i].gate \notin started
      <3>1. part[i].gate = GeneratedSwap
        BY <1>5, <2>1
      <3>2. GeneratedSwap \notin started
        BY <1>1 DEF GeneratedSwap
      <3> QED BY <3>1, <3>2
    <2>3. {} \in SUBSET n.readyGates
      OBVIOUS
    <2>5. IsAttemptFor(e, fixed, n, StartGuaranteed(ChildWith(n, e.gates, part), e.gates,
                                             GateCalls(started)))
      BY <1>1, <2>1, <2>2, <2>3, ChildSound
    <2>6. IsAttemptFor(e, fixed, n, GreedyChild(n, e.gates, chosen[x]))
      BY <1>4, <2>5 DEF part
    <2> HIDE DEF none
    <2> QED BY <1>7, <2>6
  <1> HIDE DEF One
  <1>9. all = [x \in 1..N |-> One(x)]
    BY <1>3, <1>6
  <1>10. all = [x \in 1..N |-> all[x]] /\ \A x \in 1..N : IsAttemptFor(e, fixed, n, all[x])
    BY <1>8, <1>9
  <1> QED BY <1>10 DEF all

(* Whatever GreedyTopK makes of a sound node is sound.                     *)
THEOREM ExpandGreedilySound ==
    ASSUME NEW e, NEW fixed, IsEnvironment(e), HasNoSwapGates(e), NEW n, Sound(e, n, <<>>)
    PROVE  AreChildrenOf(e, fixed, n, ExpandGreedily(n, e.gates))
  <1> DEFINE attempts == GreedyAttempts(n, e.gates)
  <1>1. ExpandGreedily(n, e.gates) = Succeeded(attempts)
    BY DEF ExpandGreedily
  <1> HIDE DEF attempts
  <1>2. PICK N \in Nat : /\ attempts = [i \in 1..N |-> attempts[i]]
                         /\ \A i \in 1..N : IsAttemptFor(e, fixed, n, attempts[i])
    BY GreedyAttemptsSound DEF attempts
  <1>3. DOMAIN attempts = 1..N
    BY <1>2
  <1>4. AreChildrenOf(e, fixed, n, Succeeded(attempts))
    BY <1>2, <1>3, SucceededAre
  <1> QED BY <1>1, <1>4

(* One more child among the best ones.                                     *)
LEMMA KeepType ==
    ASSUME NEW S, NEW l \in Seq(S), NEW child \in S, NEW k
    PROVE  Keep(l, child, k) \in Seq(S)
  <1> DEFINE worse == {i \in DOMAIN l : IsNoCheaper(l[i], child)}
             position == 1 + Cardinality(worse)
             all == InsertAt(l, position, child)
             N == Len(l)
  <1>1. N \in Nat /\ DOMAIN l = 1..N
    OBVIOUS
  <1>2. position \in 1..N+1
    <2>1. 1 \in Int /\ N \in Int
      BY <1>1
    <2>2. IsFiniteSet(1..N)
      BY <2>1, FS_Interval
    <2>3. Cardinality(1..N) = N
      BY <1>1, <2>1, FS_Interval
    <2>4. worse \in SUBSET (1..N)
      BY <1>1
    <2> HIDE DEF worse
    <2>5. IsFiniteSet(worse) /\ Cardinality(worse) <= Cardinality(1..N)
      BY <2>2, <2>4, FS_Subset
    <2>6. Cardinality(worse) \in Nat
      BY <2>5, FS_CardinalityType
    <2> QED BY <1>1, <2>3, <2>5, <2>6
  <1>3. Keep(l, child, k) = IF Len(all) > k THEN Tail(all) ELSE all
    BY Zenon DEF Keep
  <1> HIDE DEF position
  <1>4. all \in Seq(S) /\ Len(all) > 0
    <2> DEFINE before == SubSeq(l, 1, position-1)
               after == SubSeq(l, position, Len(l))
    <2>1. before \in Seq(S)
      <3>1. position-1 \in 0..Len(l)
        BY <1>1, <1>2
      <3> QED BY <3>1, SubSeqProperties
    <2>2. after \in Seq(S)
      BY <1>1, <1>2, SubSeqProperties
    <2>3. all = before \o <<child>> \o after
      BY Zenon DEF InsertAt
    <2> HIDE DEF before, after, all
    <2> QED BY <2>1, <2>2, <2>3
  <1> HIDE DEF all
  <1>5. Tail(all) \in Seq(S)
    BY <1>4
  <1> QED BY <1>3, <1>4, <1>5

(* The best children are some of all.                                      *)
LEMMA KBestType ==
    ASSUME NEW S, NEW children \in Seq(S), NEW k
    PROVE  KBest(children, k) \in Seq(S)
  <1> DEFINE N == Len(children)
             Step(l, i) == Keep(l, children[i], k)
             Is(f) == f = [i \in 0..N |-> IF i = 0 THEN <<>> ELSE Step(f[i-1], i)]
             F == [x \in Nat \X Seq(S) |-> IF x[1] \in 1..N THEN Step(x[2], x[1]) ELSE <<>>]
             f == CHOOSE h : Is(h)
  <1>1. N \in Nat
    OBVIOUS
  <1>2. KBest(children, k) = f[N]
    BY Zenon DEF KBest
  <1>3. \A l \in Seq(S) : \A i \in 1..N : Step(l, i) \in Seq(S)
    <2> SUFFICES ASSUME NEW l \in Seq(S), NEW i \in 1..N
                 PROVE  Step(l, i) \in Seq(S)
      OBVIOUS
    <2>1. children[i] \in S
      OBVIOUS
    <2> QED BY <2>1, KeepType
  <1> HIDE DEF Step
  <1>4. \E h : Is(h)
    <2>1. F \in [Nat \X Seq(S) -> Seq(S)]
      BY <1>3
    <2>2. <<>> \in Seq(S)
      OBVIOUS
    <2>3. \A x \in Nat \X Seq(S) : F[x] = IF x[1] \in 1..N THEN Step(x[2], x[1]) ELSE <<>>
      OBVIOUS
    <2> HIDE DEF F, N
    <2>4. PICK h : IsRecursive(h, N, Seq(S), <<>>, F)
      BY <1>1, <2>1, <2>2, Recursion
    <2>5. /\ h \in [0..N -> Seq(S)] /\ h[0] = <<>>
          /\ \A i \in 1..N : h[i] = F[<<i, h[i-1]>>]
      BY <2>4 DEF IsRecursive
    <2>6. ASSUME NEW i \in 0..N
          PROVE  h[i] = IF i = 0 THEN <<>> ELSE Step(h[i-1], i)
      <3>1. CASE i = 0
        BY <2>5, <3>1
      <3>2. CASE i # 0
        <4>1. i \in 1..N /\ i-1 \in 0..N /\ i \in Nat
          BY <1>1, <3>2
        <4>2. <<i, h[i-1]>> \in Nat \X Seq(S) /\ h[i] = F[<<i, h[i-1]>>]
          BY <2>5, <4>1
        <4>3. F[<<i, h[i-1]>>] = Step(h[i-1], i)
          BY <2>3, <4>1, <4>2
        <4> QED BY <3>2, <4>2, <4>3
      <3> QED BY <3>1, <3>2
    <2>7. h = [i \in 0..N |-> h[i]]
      BY <2>5
    <2>8. Is(h)
      BY <2>6, <2>7
    <2> QED BY <2>8
  <1>5. Is(f)
    BY Zenon, <1>4
  <1> HIDE DEF f, N
  <1> DEFINE T == {i \in 0..N : f[i] \in Seq(S)}
  <1>6. 0 \in T
    <2>1. 0 \in 0..N
      BY <1>1
    <2>2. f[0] = <<>>
      BY <1>5, <2>1
    <2>3. f[0] \in Seq(S)
      BY <2>2
    <2> QED BY <2>1, <2>3
  <1>7. ASSUME NEW i \in 0..N-1, i \in T PROVE i + 1 \in T
    <2>1. i + 1 \in 0..N /\ i + 1 \in 1..N /\ i + 1 # 0 /\ (i + 1) - 1 = i
      BY <1>1
    <2>2. f[i+1] = Step(f[i], i+1)
      BY <1>5, <2>1
    <2> QED BY <1>3, <1>7, <2>1, <2>2
  <1>8. 0..N \subseteq T
    <2> HIDE DEF T
    <2> QED BY <1>1, <1>6, <1>7, UpTo
  <1>9. f[N] \in Seq(S)
    BY <1>1, <1>8
  <1> QED BY <1>2, <1>9

-----------------------------------------------------------------------------
(* Changes of a node outside of its schedule.                              *)

(* A node is sound if it only differs from a sound one in the root flag,   *)
(* the cycle and the layout.                                               *)
LEMMA SoundDependsOn ==
    ASSUME NEW e, NEW n, Sound(e, n, <<>>), NEW m \in Nodes,
           m.scheduled = n.scheduled, m.readyGates = n.readyGates,
           m.numUnscheduledGates = n.numUnscheduledGates,
           m.lastNonSwapGate = n.lastNonSwapGate,
           m.lastNonZeroLatencyGate = n.lastNonZeroLatencyGate,
           IsLayout(m.qal, m.laq), IsOfCircuit(e, m.qal),
           m.cycle < 0 => m.scheduled = <<>>
    PROVE  Sound(e, m, <<>>)
  <1>1. /\ TypedNode(e, n) /\ <<>> \in Seq(1..Len(e.gates))
        /\ Progress(e, n, <<>>) /\ Occupation(n) /\ KeepsOrder(e, n.scheduled)
    BY DEF Sound
  <1>2. TypedNode(e, m)
    BY <1>1 DEF TypedNode
  <1>3. Progress(e, m, <<>>)
    BY <1>1, ProgressDependsOn
  <1>4. Occupation(m)
    BY <1>1, OccupationDependsOn
  <1>5. KeepsOrder(e, m.scheduled)
    BY <1>1
  <1> QED BY <1>1, <1>2, <1>3, <1>4, <1>5 DEF Sound

(* A node without a schedule is lawful.                                    *)
LEMMA EmptyLawful ==
    ASSUME NEW e, NEW fixed, NEW n \in Nodes, n.scheduled = <<>>, IsOfCircuit(e, n.qal),
           fixed => HoldsAll(e, n.qal)
    PROVE  Lawful(e, fixed, n)
  <1>1. DOMAIN n.scheduled = {}
    OBVIOUS
  <1>2. Timing(e, n)
    BY <1>1 DEF Timing, NotLater, AllRemembered, AllInTime
  <1>3. OnCoupling(n.scheduled)
    BY <1>1 DEF OnCoupling
  <1>4. Remembers(e, n)
    BY EmptyRemembers
  <1>5. ArePlaced(n.scheduled)
    BY <1>1 DEF ArePlaced
  <1>6. fixed => AllPlaced(e, n)
    BY <1>5, Zenon DEF AllPlaced
  <1> QED BY <1>2, <1>3, <1>4, <1>6, Zenon DEF Lawful

(* A node is lawful if it only differs from a lawful one in the root flag. *)
LEMMA LawfulDependsOn ==
    ASSUME NEW e, NEW fixed, NEW n \in Nodes, Lawful(e, fixed, n), NEW m \in Nodes,
           m.scheduled = n.scheduled, m.cycle = n.cycle,
           m.lastNonZeroLatencyGate = n.lastNonZeroLatencyGate,
           m.qal = n.qal, m.laq = n.laq
    PROVE  Lawful(e, fixed, m)
  <1>1. /\ Timing(e, n) /\ OnCoupling(n.scheduled) /\ Remembers(e, n)
        /\ fixed => AllPlaced(e, n)
    BY Zenon DEF Lawful
  <1>2. Timing(e, m)
    <2>1. m.cycle \in Int /\ n.cycle <= m.cycle
      BY DEF Nodes
    <2> QED BY <1>1, <2>1, TimingDependsOn
  <1>3. OnCoupling(m.scheduled) /\ Remembers(e, m)
    BY <1>1 DEF Remembers
  <1>4. fixed => AllPlaced(e, m)
    BY <1>1, Zenon DEF AllPlaced
  <1> QED BY <1>2, <1>3, <1>4, Zenon DEF Lawful

(* What a change of the layout keeps.                                      *)
IsPlacedFrom(e, fixed, n, m) ==
    /\ Sound(e, m, <<>>)
    /\ m.cycle = n.cycle /\ m.scheduled = n.scheduled
    /\ m.readyGates = n.readyGates
    /\ Lawful(e, fixed, n) => Lawful(e, fixed, m)

(* Two logical qubits get places.                                          *)
LEMMA PlacedSound ==
    ASSUME NEW e, NEW fixed, IsEnvironment(e), HasNoSwapGates(e), NEW n, Sound(e, n, <<>>),
           NEW q1 \in 0..e.numLogical-1, NEW q2 \in 0..e.numLogical-1,
           NEW p1 \in Physical, NEW p2 \in Physical,
           NEW m, PlaceStep(n, m, q1, q2, p1, p2)
    PROVE  IsPlacedFrom(e, fixed, n, m) /\ m.root = n.root
  <1>1. /\ n \in Nodes /\ TypedNode(e, n) /\ Progress(e, n, <<>>)
        /\ n.cycle < 0 => n.scheduled = <<>>
    BY DEF Sound, TypedNode
  <1>2. q1 \in Physical /\ q2 \in Physical
    BY NodeAssumption DEF IsEnvironment, Physical
  <1>3. NodeStep(e, n, m) /\ LegalStep(e, n, m)
    BY <1>2 DEF NodeStep, LegalStep
  <1>4. m = PlaceOn(n, q1, q2, p1, p2)
    BY DEF PlaceStep
  <1>5. /\ m \in Nodes /\ m.cycle = n.cycle /\ m.scheduled = n.scheduled
        /\ m.readyGates = n.readyGates
        /\ m.lastNonSwapGate = n.lastNonSwapGate
        /\ m.numUnscheduledGates = n.numUnscheduledGates
    <2> DEFINE k == PlaceOn(n, q1, q2, p1, p2)
    <2>1. /\ k \in Nodes /\ k.cycle = n.cycle /\ k.scheduled = n.scheduled
          /\ k.readyGates = n.readyGates
          /\ k.lastNonSwapGate = n.lastNonSwapGate
          /\ k.numUnscheduledGates = n.numUnscheduledGates
      BY <1>1, <1>2, PlaceOnFields
    <2> QED BY <1>4, <2>1
  <1>6. m.root = n.root
    BY <1>1, <1>4 DEF PlaceOn, Nodes
  <1>7. TypedNode(e, m)
    BY <1>1, <1>5 DEF TypedNode
  <1>8. Progress(e, m, <<>>)
    BY <1>1, <1>5, ProgressDependsOn
  <1>9. <<>> \in Seq(1..Len(e.gates)) /\ (<<>> # <<>> => m.cycle >= 0)
        /\ (m.cycle < 0 => m.scheduled = <<>>)
    BY <1>1, <1>5
  <1>10. Sound(e, m, <<>>)
    BY <1>3, <1>7, <1>8, <1>9, SoundStep
  <1>11. Lawful(e, fixed, n) => Lawful(e, fixed, m)
    BY <1>3, LawfulStep
  <1> QED BY <1>5, <1>6, <1>10, <1>11 DEF IsPlacedFrom

(* The root flag does not matter.                                          *)
LEMMA NotRootSound ==
    ASSUME NEW e, NEW fixed, NEW n, Sound(e, n, <<>>), NEW m, m = [n EXCEPT !.root = FALSE]
    PROVE  IsPlacedFrom(e, fixed, n, m) /\ m.root = FALSE
  <1>1. n \in Nodes
    BY SoundIsNode
  <1>2. /\ m \in Nodes /\ m.root = FALSE /\ m.cycle = n.cycle
        /\ m.scheduled = n.scheduled /\ m.readyGates = n.readyGates
        /\ m.numUnscheduledGates = n.numUnscheduledGates
        /\ m.lastNonSwapGate = n.lastNonSwapGate
        /\ m.lastNonZeroLatencyGate = n.lastNonZeroLatencyGate
        /\ m.qal = n.qal /\ m.laq = n.laq
    BY <1>1 DEF Nodes
  <1>3. IsLayout(n.qal, n.laq) /\ IsOfCircuit(e, n.qal) /\ (n.cycle < 0 => n.scheduled = <<>>)
    BY DEF Sound
  <1>4. IsLayout(m.qal, m.laq) /\ IsOfCircuit(e, m.qal) /\ (m.cycle < 0 => m.scheduled = <<>>)
    BY <1>2, <1>3
  <1>5. Sound(e, m, <<>>)
    BY <1>2, <1>4, SoundDependsOn
  <1>6. Lawful(e, fixed, n) => Lawful(e, fixed, m)
    BY <1>1, <1>2, LawfulDependsOn
  <1> QED BY <1>2, <1>5, <1>6 DEF IsPlacedFrom

(* The root without a layout.                                              *)
LEMMA ClearedSound ==
    ASSUME NEW e, NEW fixed, ~fixed, IsEnvironment(e),
           NEW n, Sound(e, n, <<>>), n.scheduled = <<>>
    PROVE  IsPlacedFrom(e, fixed, n, Cleared(n)) /\ Cleared(n).root = n.root
  <1> DEFINE m == Cleared(n)
  <1>1. n \in Nodes /\ NothingMapped \in [Physical -> Place]
    BY SoundIsNode DEF NothingMapped, Place
  <1>2. /\ m \in Nodes /\ m.root = n.root /\ m.cycle = n.cycle
        /\ m.scheduled = n.scheduled /\ m.readyGates = n.readyGates
        /\ m.numUnscheduledGates = n.numUnscheduledGates
        /\ m.lastNonSwapGate = n.lastNonSwapGate
        /\ m.lastNonZeroLatencyGate = n.lastNonZeroLatencyGate
        /\ m.qal = NothingMapped /\ m.laq = NothingMapped
    BY <1>1 DEF Nodes, Cleared
  <1> HIDE DEF m
  <1>3. IsLayout(m.qal, m.laq)
    BY <1>2 DEF IsLayout, NothingMapped
  <1>4. IsOfCircuit(e, m.qal)
    <2>1. e.numLogical \in Nat
      BY NodeAssumption DEF IsEnvironment
    <2> QED BY <1>2, <2>1 DEF IsOfCircuit, NothingMapped, Unmapped
  <1>5. Sound(e, m, <<>>)
    BY <1>2, <1>3, <1>4, SoundDependsOn
  <1>6. Lawful(e, fixed, m)
    <2>1. fixed => HoldsAll(e, m.qal)
      OBVIOUS
    <2> QED BY <1>2, <1>4, <2>1, EmptyLawful
  <1>7. IsPlacedFrom(e, fixed, n, m)
    BY <1>2, <1>5, <1>6 DEF IsPlacedFrom
  <1> QED BY <1>2, <1>7 DEF m

-----------------------------------------------------------------------------
(* NoSwaps.                                                                *)

(* The priced children of an expander, and what becomes of them.           *)
AreOffspring(e, fixed, n, x) ==
    \E S : /\ x.children \in Seq(S)
           /\ \A c \in S : /\ IsChildOf(e, n, c.node)
                           /\ x.legal /\ Lawful(e, fixed, n) => Lawful(e, fixed, c.node)

(* Without an initial layout on other physical qubits, the whole layout of *)
(* the root is cleared.                                                    *)
IsUnmappedBeyond(e, n) ==
    \A x \in Physical : x >= e.numLogical => n.qal[x] = Unmapped /\ n.laq[x] = Unmapped

(* NoSwaps then clears the root as GreedyMapper does.                      *)
LEMMA ClearedRootIs ==
    ASSUME NEW e, IsEnvironment(e), NEW n \in Nodes, IsUnmappedBeyond(e, n)
    PROVE  ClearedRoot(n, e.numLogical) = Cleared(n)
  <1>1. Physical \subseteq Int /\ e.numLogical \in Int
    BY NodeAssumption DEF Physical, IsEnvironment
  <1> DEFINE k == e.numLogical
             Clear(f) == [x \in Physical |-> IF x < k THEN Unmapped ELSE f[x]]
  <1>2. Clear(n.qal) = NothingMapped /\ Clear(n.laq) = NothingMapped
    <2>1. ASSUME NEW x \in Physical
          PROVE  /\ (IF x < k THEN Unmapped ELSE n.qal[x]) = Unmapped
                 /\ (IF x < k THEN Unmapped ELSE n.laq[x]) = Unmapped
      <3>1. x < k \/ x >= k
        BY <1>1
      <3> QED BY <3>1 DEF IsUnmappedBeyond
    <2> HIDE DEF k
    <2> QED BY <2>1 DEF NothingMapped
  <1>3. ClearedRoot(n, k) = [n EXCEPT !.qal = Clear(n.qal), !.laq = Clear(n.laq)]
    BY DEF ClearedRoot
  <1> HIDE DEF Clear
  <1> QED BY <1>2, <1>3 DEF Cleared

(* The gate whose qubits are placed is a two-qubit gate of the circuit.    *)
LEMMA GatesToPlaceAre ==
    ASSUME NEW e, IsEnvironment(e), NEW n, TypedNode(e, n),
           GatesToPlace(n, e.gates) # <<>>
    PROVE  /\ GatesToPlace(n, e.gates)[1] \in 1..Len(e.gates)
           /\ IsTwoQubit(e.gates[GatesToPlace(n, e.gates)[1]])
  <1> DEFINE gs == e.gates
             order == InOrder(n.readyGates)
             First(g) == TwoQubitGateAt(gs, g)
             next == [i \in DOMAIN order |-> First(order[i])]
             IsUnplaced(g) == g # NoGate /\ \E q \in QubitsOf(gs[g]) : n.laq[q] = Unmapped
             positions == {i \in DOMAIN next : IsUnplaced(next[i])}
             places == GatesToPlace(n, gs)
             S == {First(order[i]) : i \in DOMAIN order}
  <1>1. places = Picked(next, positions)
    BY Zenon DEF GatesToPlace, Mapped
  <1>2. n.readyGates \in SUBSET (1..Len(gs)) /\ Len(gs) \in Nat
    BY DEF TypedNode, IsEnvironment
  <1>3. order \in Seq(n.readyGates)
    <2>1. 1 \in Int /\ Len(gs) \in Int
      BY <1>2
    <2>2. IsFiniteSet(1..Len(gs))
      BY <2>1, FS_Interval
    <2>3. IsFiniteSet(n.readyGates) /\ n.readyGates \in SUBSET Nat
      BY <1>2, <2>2, FS_Subset
    <2> QED BY <2>3, InOrderIs DEF IsListOf
  <1>4. /\ \A i \in DOMAIN order : order[i] \in 1..Len(gs)
        /\ Len(order) \in Nat /\ DOMAIN order = 1..Len(order)
    BY <1>2, <1>3
  <1> HIDE DEF order, First, places, IsUnplaced
  <1>5. next \in Seq(S)
    <2>1. next \in [1..Len(order) -> S]
      BY <1>4
    <2> HIDE DEF next, S
    <2> QED BY <1>4, <2>1
  <1>6. DOMAIN next = DOMAIN order /\ \A i \in DOMAIN next : next[i] = First(order[i])
    OBVIOUS
  <1> HIDE DEF next, S
  <1>7. positions \in SUBSET DOMAIN next
    OBVIOUS
  <1>8. \A i \in positions : IsUnplaced(next[i])
    OBVIOUS
  <1> HIDE DEF positions
  <1>9. places \in Seq(S) /\ \A i \in DOMAIN places : \E j \in positions : places[i] = next[j]
    BY <1>1, <1>5, <1>7, PickedIs
  <1>10. 1 \in DOMAIN places
    <2>1. places # <<>>
      BY DEF places
    <2> QED BY <1>9, <2>1
  <1>11. PICK j \in positions : places[1] = next[j]
    BY <1>9, <1>10
  <1> DEFINE g == order[j]
             h == places[1]
  <1>12. g \in 1..Len(gs) /\ h = First(g) /\ IsUnplaced(h)
    BY <1>4, <1>6, <1>7, <1>8, <1>11
  <1> HIDE DEF g, h
  <1>13. h # NoGate
    BY <1>12 DEF IsUnplaced
  <1>14. h \in 1..Len(gs) /\ IsTwoQubit(gs[h])
    <2>1. CASE IsTwoQubit(gs[g])
      <3>1. h = g
        BY <1>12, <2>1 DEF First, TwoQubitGateAt
      <3> QED BY <1>12, <2>1, <3>1
    <2>2. CASE ~IsTwoQubit(gs[g])
      <3>1. h = gs[g].nextTargetCNOT
        BY <1>12, <2>2 DEF First, TwoQubitGateAt
      <3>2. IsNextCNOT(gs, g, gs[g].target, gs[g].nextTargetCNOT)
        BY <1>12 DEF IsEnvironment
      <3>3. h \in (g+1)..Len(gs) /\ IsTwoQubit(gs[h])
        BY <1>13, <3>1, <3>2 DEF IsNextCNOT
      <3> QED BY <1>2, <1>12, <3>3
    <2> QED BY <2>1, <2>2
  <1> QED BY <1>14 DEF h, places

(* The elements of all couplings in both directions.                       *)
LEMMA BothWaysAre ==
    ASSUME NEW l \in Seq(Couplings)
    PROVE  /\ BothWays(l) \in Seq(Physical \X Physical)
           /\ \A i \in DOMAIN BothWays(l) : BothWays(l)[i][1] # BothWays(l)[i][2]
  <1> DEFINE b == BothWays(l)
             N == Len(l)
  <1>1. N \in Nat /\ \A i \in 1..N : l[i] \in Couplings
    OBVIOUS
  <1>2. b = [i \in 1..2*N |->
                IF i % 2 = 1 THEN l[(i + 1) \div 2]
                ELSE <<l[(i + 1) \div 2][2], l[(i + 1) \div 2][1]>>]
    BY DEF BothWays
  <1> HIDE DEF b, N
  <1>3. ASSUME NEW i \in 1..2*N
        PROVE  b[i] \in Physical \X Physical /\ b[i][1] # b[i][2]
    <2> DEFINE c == l[(i + 1) \div 2]
    <2>1. (i + 1) \div 2 \in 1..N
      BY <1>1
    <2>2. c \in Couplings
      BY <1>1, <2>1
    <2>3. b[i] = IF i % 2 = 1 THEN c ELSE <<c[2], c[1]>>
      BY <1>2
    <2> HIDE DEF c
    <2>4. c \in Physical \X Physical /\ c[1] # c[2]
      BY <2>2, NodeAssumption
    <2> QED BY <2>3, <2>4
  <1>4. b \in [1..2*N -> Physical \X Physical] /\ 2*N \in Nat
    BY <1>1, <1>2, <1>3
  <1>5. b \in Seq(Physical \X Physical) /\ DOMAIN b = 1..2*N
    BY <1>4
  <1> QED BY <1>3, <1>5 DEF b

(* The places for the qubits of a gate.                                    *)
LEMMA PlacesForAre ==
    ASSUME NEW n, NEW v
    PROVE  /\ PlacesFor(n, v) \in Seq(Physical \X Physical)
           /\ \A i \in DOMAIN PlacesFor(n, v) :
                 LET p == PlacesFor(n, v)[i]
                 IN  /\ p[1] # p[2]
                     /\ Fits(n, v.control, p[1]) /\ Fits(n, v.target, p[2])
  <1> DEFINE l == CouplingsInOrder(Couplings)
             pairs == BothWays(l)
             positions == {i \in DOMAIN pairs : /\ Fits(n, v.control, pairs[i][1])
                                                /\ Fits(n, v.target, pairs[i][2])}
             places == PlacesFor(n, v)
  <1>1. l \in Seq(Couplings)
    <2>1. Couplings \in SUBSET Couplings
      OBVIOUS
    <2> QED BY <2>1, CouplingsInOrderIs DEF IsListOf
  <1>2. places = Picked(pairs, positions)
    BY Zenon DEF PlacesFor
  <1> HIDE DEF l, places
  <1>3. /\ pairs \in Seq(Physical \X Physical)
        /\ \A i \in DOMAIN pairs : pairs[i][1] # pairs[i][2]
    BY <1>1, BothWaysAre
  <1> HIDE DEF pairs
  <1>4. positions \in SUBSET DOMAIN pairs
    OBVIOUS
  <1>5. \A i \in positions : /\ Fits(n, v.control, pairs[i][1])
                             /\ Fits(n, v.target, pairs[i][2])
    BY Zenon
  <1> HIDE DEF positions
  <1>6. /\ places \in Seq(Physical \X Physical)
        /\ \A i \in DOMAIN places : \E j \in positions : places[i] = pairs[j]
    BY <1>2, <1>3, <1>4, PickedIs
  <1>7. ASSUME NEW i \in DOMAIN places
        PROVE  /\ places[i][1] # places[i][2]
               /\ Fits(n, v.control, places[i][1]) /\ Fits(n, v.target, places[i][2])
    <2>1. PICK j \in positions : places[i] = pairs[j]
      BY <1>6
    <2> QED BY <1>3, <1>4, <1>5, <2>1
  <1> QED BY <1>6, <1>7 DEF places

(* The children in which the qubits of a gate have places.                 *)
LEMMA ExpandLayoutSound ==
    ASSUME NEW e, NEW fixed, IsEnvironment(e), HasNoSwapGates(e), NEW n, Sound(e, n, <<>>),
           NEW g \in 1..Len(e.gates), IsTwoQubit(e.gates[g]), NEW cost,
           NEW x, x = ExpandLayout(n, cost, e.gates[g])
    PROVE  AreOffspring(e, fixed, n, x)
  <1> DEFINE v == e.gates[g]
             places == PlacesFor(n, v)
             On(p) == PlaceOn(n, v.control, v.target, p[1], p[2])
             Placed(p) == [node |-> [On(p) EXCEPT !.root = FALSE], cost |-> cost - 1]
             children == [i \in DOMAIN places |-> Placed(places[i])]
             S == {children[i] : i \in DOMAIN places}
  <1>1. x.children = children
    BY Zenon DEF ExpandLayout, Expansion, Mapped
  <1>2. /\ v.control \in 0..e.numLogical-1 /\ v.target \in 0..e.numLogical-1
        /\ v.control # v.target
    BY GateFields, LogicalQubits
  <1>3. places \in Seq(Physical \X Physical)
    BY PlacesForAre
  <1>4. IsLayout(n.qal, n.laq) /\ n \in Nodes
    BY DEF Sound, TypedNode
  <1>5. ASSUME NEW i \in DOMAIN places
        PROVE  /\ IsChildOf(e, n, Placed(places[i]).node)
               /\ Lawful(e, fixed, n) => Lawful(e, fixed, Placed(places[i]).node)
    <2> DEFINE p == places[i]
               p1 == p[1]
               p2 == p[2]
               k == On(p)
               m == [k EXCEPT !.root = FALSE]
    <2>1. p1 \in Physical /\ p2 \in Physical
      BY <1>3
    <2>2. p1 # p2 /\ Fits(n, v.control, p1) /\ Fits(n, v.target, p2)
      BY PlacesForAre
    <2>3. k = PlaceOn(n, v.control, v.target, p1, p2)
      OBVIOUS
    <2>4. Placed(p).node = m
      OBVIOUS
    <2> HIDE DEF p, p1, p2, k, Placed, On, v, places
    <2>5. v.control \in Physical /\ v.target \in Physical
      BY <1>2, NodeAssumption DEF IsEnvironment, Physical
    <2>6. ASSUME NEW q \in Physical, NEW r \in Physical, Fits(n, q, r)
          PROVE  MayPlace(n, q, r)
      <3>1. CASE n.laq[q] = Unmapped
        BY <2>6, <3>1 DEF Fits, MayPlace
      <3>2. CASE n.laq[q] # Unmapped
        <4>1. n.qal[r] = q
          BY <2>6, <3>2 DEF Fits
        <4>2. q # Unmapped
          BY NodeAssumption DEF Physical, Unmapped
        <4>3. n.laq[q] = r
          BY <1>4, <4>1, <4>2 DEF IsLayout
        <4> QED BY <3>2, <4>3 DEF MayPlace
      <3> QED BY <3>1, <3>2
    <2>7. MayPlace(n, v.control, p1) /\ MayPlace(n, v.target, p2)
      BY <2>1, <2>2, <2>5, <2>6
    <2>8. PlaceStep(n, k, v.control, v.target, p1, p2)
      BY <1>2, <2>2, <2>3, <2>7 DEF PlaceStep
    <2> DEFINE q1 == v.control
               q2 == v.target
    <2>9. q1 \in 0..e.numLogical-1 /\ q2 \in 0..e.numLogical-1 /\ PlaceStep(n, k, q1, q2, p1, p2)
      BY <1>2, <2>8
    <2> HIDE DEF q1, q2
    <2>10. IsPlacedFrom(e, fixed, n, k)
      BY <2>1, <2>9, PlacedSound
    <2>11. Sound(e, k, <<>>) /\ (Lawful(e, fixed, n) => Lawful(e, fixed, k))
      BY <2>10 DEF IsPlacedFrom
    <2>12. IsPlacedFrom(e, fixed, k, m) /\ m.root = FALSE
      BY <2>11, NotRootSound
    <2> HIDE DEF m
    <2>13. Sound(e, m, <<>>) /\ m.root = FALSE /\ (Lawful(e, fixed, k) => Lawful(e, fixed, m))
      BY <2>12 DEF IsPlacedFrom
    <2>14. IsChildOf(e, n, m) /\ (Lawful(e, fixed, n) => Lawful(e, fixed, m))
      BY <2>11, <2>13 DEF IsChildOf
    <2> QED BY <2>4, <2>14 DEF p
  <1>6. children \in Seq(S)
    <2>1. Len(places) \in Nat /\ DOMAIN places = 1..Len(places)
      BY <1>3
    <2> HIDE DEF places, Placed
    <2>2. children \in [1..Len(places) -> S]
      BY <2>1
    <2> QED BY <2>1, <2>2
  <1>7. ASSUME NEW c \in S
        PROVE  /\ IsChildOf(e, n, c.node)
               /\ x.legal /\ Lawful(e, fixed, n) => Lawful(e, fixed, c.node)
    <2> HIDE DEF places, Placed
    <2>1. PICK i \in DOMAIN places : c = Placed(places[i])
      OBVIOUS
    <2>2. IsChildOf(e, n, c.node) /\ (Lawful(e, fixed, n) => Lawful(e, fixed, c.node))
      BY <1>5, <2>1
    <2> QED BY Zenon, <2>2
  <1> HIDE DEF S, children
  <1> QED BY <1>1, <1>6, <1>7 DEF AreOffspring

(* The child in which the gates that can start do.                         *)
LEMMA ExpandCircuitSound ==
    ASSUME NEW e, NEW fixed, IsEnvironment(e), HasNoSwapGates(e), NEW n, Sound(e, n, <<>>),
           NEW cost, NEW x, x = ExpandCircuit(n, cost, e.gates, e.numLogical)
    PROVE  AreOffspring(e, fixed, n, x)
  <1> DEFINE starting == Startable(n, e.gates)
             a == Attempt(PrepChild(n))
             calls == GateCalls(starting)
             child == ScheduleAll(a, e.gates, calls)
             waits == \E q \in 0..e.numLogical-1 : LogicallyBusyCycles(child.node, q) > 0
             started == Cardinality(starting)
             only == [node |-> child.node, cost |-> cost - started]
             y == child.good /\ child.legal
  <1>1. x = Expansion(IF started = 0 /\ ~waits THEN <<>> ELSE <<only>>, y)
    BY Zenon DEF ExpandCircuit, OnlyChild
  <1>2. /\ n.readyGates \in SUBSET (1..Len(e.gates)) /\ Len(e.gates) \in Nat
        /\ starting \in SUBSET n.readyGates /\ (n.cycle >= -1 \/ starting = {})
    BY ExecutableAre DEF Startable
  <1>3. IsAttempt(e, fixed, n, a) /\ a.node.readyGates = n.readyGates /\ n.cycle \in Int
    BY PreparedSound
  <1> HIDE DEF starting, a
  <1>4. IsFiniteSet(starting) /\ starting \in SUBSET Nat
    <2>1. 1 \in Int /\ Len(e.gates) \in Int
      BY <1>2
    <2>2. IsFiniteSet(1..Len(e.gates))
      BY <2>1, FS_Interval
    <2>3. starting \in SUBSET (1..Len(e.gates))
      BY <1>2
    <2>4. IsFiniteSet(starting)
      BY <2>2, <2>3, FS_Subset
    <2> QED BY <1>2, <2>3, <2>4
  <1>5. /\ calls \in Seq(CallsFor(starting)) /\ IsOneToOne(calls)
        /\ \A i \in DOMAIN calls : calls[i].gate \in starting
    BY <1>4, GateCallsAre
  <1> HIDE DEF calls
  <1>6. n.cycle >= -1 \/ (starting = {} /\ DOMAIN calls = {})
    BY <1>2, <1>5
  <1>7. starting \in SUBSET a.node.readyGates
    BY <1>2, <1>3
  <1>8. IsLaterAttempt(e, fixed, n, a, calls, child)
    BY <1>3, <1>5, <1>6, <1>7, ScheduleAllSound
  <1> HIDE DEF child
  <1>9. IsAttempt(e, fixed, n, child)
    BY <1>8 DEF IsLaterAttempt
  <1>10. /\ IsChildOf(e, n, child.node)
         /\ Lawful(e, fixed, n) /\ child.legal => Lawful(e, fixed, child.node)
    BY <1>9 DEF IsAttempt, IsChildOf
  <1> HIDE DEF waits, started
  <1>11. only.node = child.node
    OBVIOUS
  <1> HIDE DEF only
  <1>12. y => child.legal
    OBVIOUS
  <1> HIDE DEF y
  <1>13. x.legal = y /\ (x.children = <<>> \/ x.children = <<only>>)
    BY <1>1 DEF Expansion
  <1>14. x.children \in Seq({only})
    <2> HIDE DEF only
    <2>1. <<>> \in Seq({only}) /\ <<only>> \in Seq({only})
      OBVIOUS
    <2> QED BY <1>13, <2>1
  <1>15. \A c \in {only} : /\ IsChildOf(e, n, c.node)
                           /\ x.legal /\ Lawful(e, fixed, n) => Lawful(e, fixed, c.node)
    <2>1. IsChildOf(e, n, only.node)
      BY <1>10, <1>11
    <2>2. x.legal /\ Lawful(e, fixed, n) => Lawful(e, fixed, only.node)
      BY Zenon, <1>10, <1>11, <1>12, <1>13
    <2> QED BY <2>1, <2>2
  <1> QED BY <1>14, <1>15 DEF AreOffspring

(* Whatever NoSwaps makes of a sound node is sound.                        *)
THEOREM ExpandWithoutSwapsSound ==
    ASSUME NEW e, NEW fixed, ~fixed, IsEnvironment(e), HasNoSwapGates(e),
           NEW n, Sound(e, n, <<>>),
           n.root => n.scheduled = <<>> /\ IsUnmappedBeyond(e, n),
           NEW cost, NEW x, x = ExpandWithoutSwaps(n, cost, e.gates, e.numLogical)
    PROVE  AreOffspring(e, fixed, n, x)
  <1> DEFINE m == IF n.root THEN ClearedRoot(n, e.numLogical) ELSE n
             places == GatesToPlace(m, e.gates)
             g == places[1]
  <1>1. x = IF places # <<>> THEN ExpandLayout(m, cost, e.gates[g])
            ELSE ExpandCircuit(m, cost, e.gates, e.numLogical)
    BY Zenon DEF ExpandWithoutSwaps
  <1>2. Sound(e, m, <<>>) /\ (Lawful(e, fixed, n) => Lawful(e, fixed, m))
    <2>1. CASE n.root
      <3>1. n \in Nodes
        BY SoundIsNode
      <3>2. m = Cleared(n)
        BY <2>1, <3>1, ClearedRootIs
      <3>3. IsPlacedFrom(e, fixed, n, Cleared(n))
        BY <2>1, ClearedSound
      <3> HIDE DEF m
      <3> QED BY <3>2, <3>3 DEF IsPlacedFrom
    <2>2. CASE ~n.root
      BY <2>2
    <2> QED BY <2>1, <2>2
  <1> HIDE DEF m
  <1>3. AreOffspring(e, fixed, m, x)
    <2>1. CASE places = <<>>
      <3>1. x = ExpandCircuit(m, cost, e.gates, e.numLogical)
        BY <1>1, <2>1
      <3> QED BY <1>2, <3>1, ExpandCircuitSound
    <2>2. CASE places # <<>>
      <3>1. g \in 1..Len(e.gates) /\ IsTwoQubit(e.gates[g])
        <4>1. TypedNode(e, m)
          BY <1>2 DEF Sound
        <4> QED BY <2>2, <4>1, GatesToPlaceAre
      <3>2. x = ExpandLayout(m, cost, e.gates[g])
        BY <1>1, <2>2
      <3> HIDE DEF g
      <3> QED BY <1>2, <3>1, <3>2, ExpandLayoutSound
    <2> QED BY <2>1, <2>2
  <1>4. PICK S : /\ x.children \in Seq(S)
                 /\ \A c \in S : /\ IsChildOf(e, m, c.node)
                                 /\ x.legal /\ Lawful(e, fixed, m) => Lawful(e, fixed, c.node)
    BY <1>3 DEF AreOffspring
  <1>5. \A c \in S : /\ IsChildOf(e, n, c.node)
                     /\ x.legal /\ Lawful(e, fixed, n) => Lawful(e, fixed, c.node)
    BY <1>2, <1>4 DEF IsChildOf
  <1> QED BY <1>4, <1>5 DEF AreOffspring

-----------------------------------------------------------------------------
(* GreedyMapper.                                                           *)

(* Distances are numbers.                                                  *)
LEMMA DistancesAre ==
    ASSUME NEW p \in PairsOf(NumPhysical)
    PROVE  CouplingDistances[p] \in 0..NumPhysical-1
  <1> DEFINE N == NumPhysical
             S == SUBSET PairsOf(N)
             More(w) == {q \in PairsOf(N) :
                           \/ Adjacent(Couplings, q[1], q[2])
                           \/ \E y \in 0..N-1 : <<q[1], y>> \in w
                                                /\ Adjacent(Couplings, y, q[2])}
             Is(f) == f = [k \in 0..N-1 |-> IF k = 0 THEN {} ELSE More(f[k-1])]
             within == CHOOSE f : Is(f)
             F == [x \in Nat \X S |-> More(x[2])]
  <1>1. N \in Nat \ {0} /\ N - 1 \in Nat
    BY NodeAssumption
  <1>2. CouplingDistances = [q \in PairsOf(N) |->
            IF q \notin within[N-1] THEN N - 1
            ELSE CHOOSE k \in 1..N-1 : q \in within[k] \ within[k-1]]
    BY Zenon DEF CouplingDistances, HopDistances
  <1>3. \A w : More(w) \in S
    OBVIOUS
  <1> HIDE DEF More, S, N
  <1>4. \E f : Is(f)
    <2>1. F \in [Nat \X S -> S] /\ \A x \in Nat \X S : F[x] = More(x[2])
      BY <1>3
    <2>2. {} \in S
      BY DEF S
    <2> HIDE DEF F
    <2>3. PICK f : IsRecursive(f, N-1, S, {}, F)
      BY <1>1, <2>1, <2>2, Recursion
    <2>4. /\ f \in [0..N-1 -> S] /\ f[0] = {}
          /\ \A k \in 1..N-1 : f[k] = F[<<k, f[k-1]>>]
      BY <2>3 DEF IsRecursive
    <2>5. ASSUME NEW k \in 0..N-1
          PROVE  f[k] = IF k = 0 THEN {} ELSE More(f[k-1])
      <3>1. CASE k = 0
        BY <2>4, <3>1
      <3>2. CASE k # 0
        <4>1. k \in 1..N-1 /\ k-1 \in 0..N-1 /\ k \in Nat
          BY <1>1, <3>2
        <4>2. <<k, f[k-1]>> \in Nat \X S /\ f[k] = F[<<k, f[k-1]>>]
          BY <2>4, <4>1
        <4>3. F[<<k, f[k-1]>>] = More(f[k-1])
          BY <2>1, <4>2
        <4> QED BY <3>2, <4>2, <4>3
      <3> QED BY <3>1, <3>2
    <2>6. f = [k \in 0..N-1 |-> f[k]]
      BY <2>4
    <2>7. Is(f)
      BY <2>5, <2>6
    <2> QED BY <2>7
  <1>5. Is(within)
    BY Zenon, <1>4
  <1> HIDE DEF within
  <1>6. within[0] = {}
    <2>1. 0 \in 0..N-1
      BY <1>1
    <2> QED BY <1>5, <2>1
  <1>7. CASE p \notin within[N-1]
    <2>1. CouplingDistances[p] = N - 1
      BY <1>2, <1>7 DEF N
    <2> QED BY <1>1, <2>1 DEF N
  <1>8. CASE p \in within[N-1]
    <2> DEFINE T == {k \in 0..N-1 : p \in within[k]}
    <2>1. N-1 \in T /\ T \in SUBSET Nat /\ T # {}
      BY <1>1, <1>8
    <2>2. PICK k \in T : \A j \in T : k <= j
      <3> HIDE DEF T
      <3> QED BY <2>1, Least
    <2>3. k \in 1..N-1 /\ k-1 \in 0..N-1
      BY <1>1, <1>6, <2>2
    <2>4. p \notin within[k-1]
      <3>1. k-1 \notin T
        BY <2>2, <2>3
      <3> QED BY <2>3, <3>1
    <2>5. \E j \in 1..N-1 : p \in within[j] \ within[j-1]
      BY <2>2, <2>3, <2>4
    <2> DEFINE d == CHOOSE j \in 1..N-1 : p \in within[j] \ within[j-1]
    <2>6. d \in 1..N-1
      BY <2>5
    <2>7. CouplingDistances[p] = d
      BY <1>2, <1>8 DEF N
    <2> HIDE DEF d
    <2> QED BY <1>1, <2>6, <2>7 DEF N
  <1> QED BY <1>7, <1>8

(* Of several pairs there is a closest one.                                *)
LEMMA ClosestIs ==
    ASSUME NEW pairs \in SUBSET PairsOf(NumPhysical), pairs # {}
    PROVE  Closest(pairs) \in pairs
  <1> DEFINE dist == [p \in pairs |-> CouplingDistances[p]]
             IsClosest(p, o) ==
                \/ CouplingDistances[p] < CouplingDistances[o]
                \/ /\ CouplingDistances[p] = CouplingDistances[o]
                   /\ p[1] < o[1] \/ (p[1] = o[1] /\ p[2] <= o[2])
             D == {dist[p] : p \in pairs}
  <1>1. \A p \in pairs : dist[p] = CouplingDistances[p] /\ dist[p] \in Nat
    BY DistancesAre, NodeAssumption
  <1>2. \A p \in pairs : p[1] \in Nat /\ p[2] \in Nat /\ p = <<p[1], p[2]>>
    BY NodeAssumption DEF PairsOf
  <1> HIDE DEF dist
  <1>3. PICK d \in D : \A x \in D : d <= x
    <2>1. D \in SUBSET Nat /\ D # {}
      BY <1>1
    <2> HIDE DEF D
    <2> QED BY <2>1, Least
  <1> DEFINE A == {x \in Nat : \E p \in pairs : dist[p] = d /\ p[1] = x}
  <1>4. PICK a \in A : \A x \in A : a <= x
    <2>1. A \in SUBSET Nat /\ A # {}
      BY <1>2
    <2> HIDE DEF A
    <2> QED BY <2>1, Least
  <1> DEFINE B == {x \in Nat : \E p \in pairs : dist[p] = d /\ p[1] = a /\ p[2] = x}
  <1>5. PICK b \in B : \A x \in B : b <= x
    <2>1. B \in SUBSET Nat /\ B # {}
      BY <1>2, <1>4
    <2> HIDE DEF B
    <2> QED BY <2>1, Least
  <1>6. PICK p \in pairs : dist[p] = d /\ p[1] = a /\ p[2] = b
    BY <1>5
  <1>7. ASSUME NEW o \in pairs PROVE IsClosest(p, o)
    <2>1. dist[o] \in D /\ dist[o] \in Nat /\ d \in Nat /\ o[1] \in Nat /\ o[2] \in Nat
      BY <1>1, <1>2, <1>3
    <2>2. d <= dist[o]
      BY <1>3, <2>1
    <2>3. dist[o] = d => a <= o[1]
      BY <1>2, <1>4
    <2>4. dist[o] = d /\ o[1] = a => b <= o[2]
      BY <1>2, <1>5
    <2>5. dist[o] = CouplingDistances[o] /\ dist[p] = CouplingDistances[p]
      BY <1>1
    <2>6. a \in Nat /\ b \in Nat
      OBVIOUS
    <2> HIDE DEF D, A, B
    <2> QED BY <1>6, <2>1, <2>2, <2>3, <2>4, <2>5, <2>6
  <1>8. \E q \in pairs : \A o \in pairs : IsClosest(q, o)
    BY <1>7
  <1> HIDE DEF IsClosest
  <1>9. (CHOOSE q \in pairs : \A o \in pairs : IsClosest(q, o)) \in pairs
    BY <1>8
  <1> QED BY <1>9 DEF Closest, IsClosest

(* There are two free places for two logical qubits without one.           *)
LEMMA TwoFreePlaces ==
    ASSUME NEW e, IsEnvironment(e), NEW n, Sound(e, n, <<>>),
           NEW q1 \in 0..e.numLogical-1, NEW q2 \in 0..e.numLogical-1, q1 # q2,
           n.laq[q1] = Unmapped, n.laq[q2] = Unmapped
    PROVE  \E x, y \in Physical : /\ n.qal[x] = Unmapped /\ n.qal[y] = Unmapped
                                  /\ x # y
  <1> DEFINE qal == n.qal
             laq == n.laq
  <1>1. /\ qal \in [Physical -> Place] /\ laq \in [Physical -> Place]
        /\ IsLayout(qal, laq) /\ IsOfCircuit(e, qal)
    <2>1. n \in Nodes
      BY SoundIsNode
    <2>2. n.qal \in [Physical -> Place] /\ n.laq \in [Physical -> Place]
      BY <2>1 DEF Nodes
    <2>3. IsLayout(n.qal, n.laq) /\ IsOfCircuit(e, n.qal)
      BY DEF Sound
    <2> QED BY <2>2, <2>3
  <1>2. q1 \in Physical /\ q2 \in Physical /\ q1 # Unmapped /\ q2 # Unmapped
    BY NodeAssumption DEF IsEnvironment, Physical, Unmapped
  <1> HIDE DEF qal, laq
  <1>3. laq[q1] = Unmapped /\ laq[q2] = Unmapped
    BY DEF laq
  <1>4. PICK x \in Physical : qal[x] = Unmapped
    BY <1>1, <1>3, FreePlace
  <1> DEFINE qal2 == [qal EXCEPT ![x] = q1]
             laq2 == [laq EXCEPT ![q1] = x]
  <1>5. qal2 \in [Physical -> Place] /\ laq2 \in [Physical -> Place]
    BY <1>1, <1>2 DEF Place
  <1>6. /\ \A y \in Physical : qal2[y] = IF y = x THEN q1 ELSE qal[y]
        /\ \A q \in Physical : laq2[q] = IF q = q1 THEN x ELSE laq[q]
    BY <1>1
  <1>7. IsLayout(qal2, laq2)
    <2> HIDE DEF qal2, laq2
    <2> SUFFICES ASSUME NEW y \in Physical
                 PROVE  /\ qal2[y] # Unmapped => laq2[qal2[y]] = y
                        /\ laq2[y] # Unmapped => qal2[laq2[y]] = y
      BY DEF IsLayout
    <2>1. \A z \in Physical : /\ qal[z] # Unmapped => laq[qal[z]] = z
                              /\ laq[z] # Unmapped => qal[laq[z]] = z
      BY <1>1 DEF IsLayout
    <2>2. \A z \in Physical : /\ qal[z] # Unmapped => qal[z] \in Physical
                              /\ laq[z] # Unmapped => laq[z] \in Physical
      BY <1>1 DEF Place
    <2>3. qal2[y] # Unmapped => laq2[qal2[y]] = y
      <3>1. CASE y = x
        BY <1>2, <1>6, <3>1
      <3>2. CASE y # x
        <4> SUFFICES ASSUME qal[y] # Unmapped
                     PROVE  laq2[qal[y]] = y
          BY <1>6, <3>2
        <4>1. qal[y] \in Physical /\ laq[qal[y]] = y
          BY <2>1, <2>2
        <4>2. y # Unmapped
          BY NodeAssumption DEF Physical, Unmapped
        <4>3. qal[y] # q1
          BY <1>3, <4>1, <4>2
        <4> QED BY <1>6, <4>1, <4>3
      <3> QED BY <3>1, <3>2
    <2>4. laq2[y] # Unmapped => qal2[laq2[y]] = y
      <3>1. CASE y = q1
        BY <1>2, <1>6, <3>1
      <3>2. CASE y # q1
        <4> SUFFICES ASSUME laq[y] # Unmapped
                     PROVE  qal2[laq[y]] = y
          BY <1>6, <3>2
        <4>1. laq[y] \in Physical /\ qal[laq[y]] = y
          BY <2>1, <2>2
        <4>2. y # Unmapped
          BY NodeAssumption DEF Physical, Unmapped
        <4>3. laq[y] # x
          BY <1>4, <4>1, <4>2
        <4> QED BY <1>6, <4>1, <4>3
      <3> QED BY <3>1, <3>2
    <2> QED BY <2>3, <2>4
  <1>8. IsOfCircuit(e, qal2)
    <2>1. q1 \in -1..e.numLogical-1
      BY NodeAssumption DEF IsEnvironment
    <2> QED BY <1>1, <1>6, <2>1 DEF IsOfCircuit
  <1>9. laq2[q2] = Unmapped
    BY <1>2, <1>3, <1>6
  <1> HIDE DEF qal2, laq2
  <1>10. PICK y \in Physical : qal2[y] = Unmapped
    BY <1>5, <1>7, <1>8, <1>9, FreePlace
  <1>11. y # x /\ qal[y] = Unmapped
    BY <1>2, <1>6, <1>10
  <1> QED BY <1>4, <1>11 DEF qal

(* There is a pair of places for the qubits of a gate.                     *)
LEMMA CandidatesAre ==
    ASSUME NEW e, IsEnvironment(e), NEW n, Sound(e, n, <<>>),
           NEW g \in 1..Len(e.gates), IsTwoQubit(e.gates[g]),
           \E q \in QubitsOf(e.gates[g]) : n.laq[q] = Unmapped
    PROVE  /\ Candidates(n, e.gates[g]) # {}
           /\ Candidates(n, e.gates[g]) \in SUBSET PairsOf(NumPhysical)
           /\ \A p \in Candidates(n, e.gates[g]) :
                 /\ MayPlace(n, e.gates[g].target, p[1])
                 /\ MayPlace(n, e.gates[g].control, p[2])
  <1> DEFINE v == e.gates[g]
             t == v.target
             c == v.control
             pairs == Candidates(n, v)
             CanBe(x, y) == /\ MayPlace(n, t, x) /\ MayPlace(n, c, y)
                            /\ n.laq[t] = Unmapped /\ n.laq[c] = Unmapped => x < y
  <1>1. /\ c \in 0..e.numLogical-1 /\ t \in 0..e.numLogical-1 /\ c # t
        /\ QubitsOf(v) = {c, t}
    BY GateFields, LogicalQubits
  <1>2. /\ n.qal \in [Physical -> Place] /\ n.laq \in [Physical -> Place]
        /\ IsLayout(n.qal, n.laq) /\ IsOfCircuit(e, n.qal)
    <2>1. n \in Nodes
      BY SoundIsNode
    <2>2. n.qal \in [Physical -> Place] /\ n.laq \in [Physical -> Place]
      BY <2>1 DEF Nodes
    <2>3. IsLayout(n.qal, n.laq) /\ IsOfCircuit(e, n.qal)
      BY DEF Sound
    <2> QED BY <2>2, <2>3
  <1>3. pairs = {p \in PairsOf(NumPhysical) :
                    /\ IF n.laq[t] = Unmapped THEN n.qal[p[1]] = Unmapped ELSE p[1] = n.laq[t]
                    /\ IF n.laq[c] = Unmapped THEN n.qal[p[2]] = Unmapped ELSE p[2] = n.laq[c]
                    /\ n.laq[t] = Unmapped /\ n.laq[c] = Unmapped => p[1] < p[2]}
    BY DEF Candidates
  <1> HIDE DEF v, pairs
  <1> HIDE DEF t, c
  <1>4. pairs = {p \in PairsOf(NumPhysical) : CanBe(p[1], p[2])}
    BY <1>3 DEF MayPlace
  <1>5. c \in Physical /\ t \in Physical
    BY <1>1, NodeAssumption DEF IsEnvironment, Physical
  <1>6. \A q \in Physical : n.laq[q] # Unmapped =>
            n.laq[q] \in Physical /\ n.qal[n.laq[q]] = q /\ q # Unmapped
    BY <1>2, NodeAssumption DEF IsLayout, Place, Physical, Unmapped
  <1>7. \E x, y \in Physical : x # y /\ CanBe(x, y)
    <2>1. CASE n.laq[t] = Unmapped /\ n.laq[c] = Unmapped
      <3>1. PICK x \in Physical, y \in Physical :
               n.qal[x] = Unmapped /\ n.qal[y] = Unmapped /\ x # y
        BY <1>1, <2>1, TwoFreePlaces
      <3>2. x < y \/ y < x
        BY <3>1, NodeAssumption DEF Physical
      <3>3. CanBe(x, y) \/ CanBe(y, x)
        BY <2>1, <3>1, <3>2 DEF MayPlace
      <3> QED BY <3>1, <3>3
    <2>2. CASE n.laq[t] = Unmapped /\ n.laq[c] # Unmapped
      <3> DEFINE qal == n.qal
                 laq == n.laq
      <3>1. PICK x \in Physical : n.qal[x] = Unmapped
        <4>1. /\ qal \in [Physical -> Place] /\ laq \in [Physical -> Place]
              /\ IsLayout(qal, laq) /\ IsOfCircuit(e, qal) /\ laq[t] = Unmapped
          BY <1>2, <2>2
        <4> HIDE DEF qal, laq
        <4>2. \E x \in Physical : qal[x] = Unmapped
          BY <1>1, <4>1, FreePlace
        <4> QED BY <4>2 DEF qal
      <3>2. n.laq[c] \in Physical /\ x # n.laq[c]
        BY <1>5, <1>6, <2>2, <3>1
      <3>3. CanBe(x, n.laq[c])
        BY <2>2, <3>1 DEF MayPlace
      <3> QED BY <3>2, <3>3
    <2>3. CASE n.laq[t] # Unmapped /\ n.laq[c] = Unmapped
      <3> DEFINE qal == n.qal
                 laq == n.laq
      <3>1. PICK x \in Physical : n.qal[x] = Unmapped
        <4>1. /\ qal \in [Physical -> Place] /\ laq \in [Physical -> Place]
              /\ IsLayout(qal, laq) /\ IsOfCircuit(e, qal) /\ laq[c] = Unmapped
          BY <1>2, <2>3
        <4> HIDE DEF qal, laq
        <4>2. \E x \in Physical : qal[x] = Unmapped
          BY <1>1, <4>1, FreePlace
        <4> QED BY <4>2 DEF qal
      <3>2. n.laq[t] \in Physical /\ x # n.laq[t]
        BY <1>5, <1>6, <2>3, <3>1
      <3>3. CanBe(n.laq[t], x)
        BY <2>3, <3>1 DEF MayPlace
      <3> QED BY <3>2, <3>3
    <2>4. n.laq[t] = Unmapped \/ n.laq[c] = Unmapped
      BY <1>1 DEF v
    <2> QED BY <2>1, <2>2, <2>3, <2>4
  <1>8. pairs # {}
    <2>1. PICK x \in Physical, y \in Physical : x # y /\ CanBe(x, y)
      BY <1>7
    <2>2. <<x, y>> \in PairsOf(NumPhysical)
      BY <2>1 DEF PairsOf, Physical
    <2>3. <<x, y>>[1] = x /\ <<x, y>>[2] = y
      OBVIOUS
    <2> HIDE DEF CanBe
    <2> QED BY <1>4, <2>1, <2>2, <2>3
  <1> QED BY <1>4, <1>8 DEF pairs, t, c, v

(* PlaceGate puts both qubits of a two-qubit gate on places, or both have  *)
(* one already.                                                            *)
LEMMA PlaceGateSound ==
    ASSUME NEW e, NEW fixed, IsEnvironment(e), HasNoSwapGates(e), NEW n, Sound(e, n, <<>>),
           NEW g \in 1..Len(e.gates), IsTwoQubit(e.gates[g]),
           NEW m, m = PlaceGate(n, e.gates[g])
    PROVE  IsPlacedFrom(e, fixed, n, m) /\ m.root = n.root
  <1> DEFINE v == e.gates[g]
             q1 == v.target
             q2 == v.control
             pairs == Candidates(n, v)
             p == Closest(pairs)
             p1 == p[1]
             p2 == p[2]
  <1>1. q1 \in 0..e.numLogical-1 /\ q2 \in 0..e.numLogical-1 /\ q1 # q2
    BY GateFields, LogicalQubits
  <1>2. CASE \A q \in QubitsOf(v) : n.laq[q] # Unmapped
    <2>1. m = n
      BY <1>2 DEF PlaceGate
    <2> QED BY <2>1 DEF IsPlacedFrom
  <1>3. CASE \E q \in QubitsOf(v) : n.laq[q] = Unmapped
    <2>1. pairs # {} /\ pairs \in SUBSET PairsOf(NumPhysical)
      BY <1>3, CandidatesAre
    <2>2. \A o \in pairs : MayPlace(n, q1, o[1]) /\ MayPlace(n, q2, o[2])
      BY <1>3, CandidatesAre
    <2>3. m = PlaceOn(n, q1, q2, p1, p2)
      <3>1. ~(\A q \in QubitsOf(v) : n.laq[q] # Unmapped)
        BY <1>3
      <3>2. m = PlaceOnPair(n, v, p)
        BY <3>1, Zenon DEF PlaceGate
      <3> QED BY <3>2, Zenon DEF PlaceOnPair
    <2> HIDE DEF v, q1, q2, pairs
    <2>4. p \in pairs
      BY <2>1, ClosestIs
    <2> HIDE DEF p
    <2>5. p1 \in Physical /\ p2 \in Physical /\ p1 # p2
      BY <2>1, <2>4 DEF PairsOf, Physical
    <2>6. PlaceStep(n, m, q1, q2, p1, p2)
      BY <1>1, <2>2, <2>3, <2>4, <2>5 DEF PlaceStep
    <2> HIDE DEF p1, p2
    <2>7. IsPlacedFrom(e, fixed, n, m)
      BY <1>1, <2>5, <2>6, PlacedSound
    <2>8. m.root = n.root
      BY <1>1, <2>5, <2>6, <2>7, PlacedSound
    <2> QED BY <2>7, <2>8
  <1> QED BY <1>2, <1>3

(* GreedyMapper: after mod the node is one of those that NodePath          *)
(* describes, and only its layout has changed.                             *)
THEOREM MapGreedilySound ==
    ASSUME NEW e, NEW fixed, ~fixed, IsEnvironment(e), HasNoSwapGates(e),
           NEW n, Sound(e, n, <<>>),
           NEW m, m = MapGreedily(n, e.gates, e.numLogical)
    PROVE  IsPlacedFrom(e, fixed, n, m) /\ m.root = n.root
  <1> DEFINE gs == e.gates
             start == IF n.root /\ n.cycle < 0 THEN Cleared(n) ELSE n
             two == {g \in n.readyGates : IsTwoQubit(gs[g])}
             twoQubit == InOrder(two)
             N == Len(twoQubit)
             Place1(k, i) == PlaceGate(k, gs[twoQubit[i]])
             Is(f) == f = [i \in 0..N |-> IF i = 0 THEN start ELSE Place1(f[i-1], i)]
             S == {k \in Nodes : IsPlacedFrom(e, fixed, n, k) /\ k.root = n.root}
             F == [x \in Nat \X S |-> IF x[1] \in 1..N THEN Place1(x[2], x[1]) ELSE start]
             f == CHOOSE h : Is(h)
  <1>1. m = start \/ m = f[N]
    BY Zenon DEF MapGreedily
  <1>2. start \in S
    <2>1. CASE n.root /\ n.cycle < 0
      <3>1. n.scheduled = <<>>
        BY <2>1 DEF Sound
      <3>2. IsPlacedFrom(e, fixed, n, Cleared(n)) /\ Cleared(n).root = n.root
        BY <3>1, ClearedSound
      <3>3. Sound(e, Cleared(n), <<>>)
        BY <3>2 DEF IsPlacedFrom
      <3>4. Cleared(n) \in Nodes
        BY <3>3, SoundIsNode
      <3>5. Cleared(n) \in S
        BY <3>2, <3>4
      <3>6. start = Cleared(n)
        BY <2>1
      <3> QED BY <3>5, <3>6
    <2>2. CASE ~(n.root /\ n.cycle < 0)
      <3>1. start = n
        BY <2>2
      <3>2. IsPlacedFrom(e, fixed, n, n) /\ n \in Nodes
        BY SoundIsNode DEF IsPlacedFrom
      <3>3. n \in S
        BY <3>2
      <3> QED BY <3>1, <3>3
    <2> QED BY <2>1, <2>2
  <1>3. /\ twoQubit \in Seq(two) /\ N \in Nat
        /\ \A i \in 1..N : twoQubit[i] \in 1..Len(gs) /\ IsTwoQubit(gs[twoQubit[i]])
    <2>1. n.readyGates \in SUBSET (1..Len(gs)) /\ Len(gs) \in Nat
      BY DEF Sound, TypedNode, IsEnvironment
    <2>2. 1 \in Int /\ Len(gs) \in Int
      BY <2>1
    <2>3. IsFiniteSet(1..Len(gs))
      BY <2>2, FS_Interval
    <2>4. two \in SUBSET (1..Len(gs))
      BY <2>1
    <2>5. IsFiniteSet(two)
      BY <2>3, <2>4, FS_Subset
    <2>6. two \in SUBSET Nat
      BY <2>1
    <2>7. twoQubit \in Seq(two)
      BY <2>5, <2>6, InOrderIs DEF IsListOf
    <2>8. \A g \in two : g \in 1..Len(gs) /\ IsTwoQubit(gs[g])
      BY <2>4
    <2> HIDE DEF twoQubit, two
    <2>9. N \in Nat /\ \A i \in 1..N : twoQubit[i] \in two
      BY <2>7
    <2> QED BY <2>7, <2>8, <2>9
  <1>4. ASSUME NEW k \in S, NEW i \in 1..N
        PROVE  Place1(k, i) \in S
    <2> DEFINE g == twoQubit[i]
               o == PlaceGate(k, gs[g])
    <2>1. g \in 1..Len(e.gates) /\ IsTwoQubit(e.gates[g])
      BY <1>3
    <2>2. IsPlacedFrom(e, fixed, n, k) /\ k.root = n.root
      BY <1>4
    <2> HIDE DEF g
    <2>3. Sound(e, k, <<>>)
      BY <2>2 DEF IsPlacedFrom
    <2>4. IsPlacedFrom(e, fixed, k, o)
      BY <2>1, <2>3, PlaceGateSound
    <2>9. o.root = k.root
      BY <2>1, <2>3, <2>4, PlaceGateSound
    <2> HIDE DEF o
    <2>5. IsPlacedFrom(e, fixed, n, o) /\ o.root = n.root
      BY <2>2, <2>4, <2>9 DEF IsPlacedFrom
    <2>6. Sound(e, o, <<>>)
      BY <2>5 DEF IsPlacedFrom
    <2>7. o \in Nodes
      BY <2>6, SoundIsNode
    <2>8. o \in S
      BY <2>5, <2>7
    <2> QED BY <2>8 DEF o, g
  <1> HIDE DEF Place1, start
  <1>5. \E h : Is(h)
    <2>1. \A x \in Nat \X S : x[1] \in 1..N => Place1(x[2], x[1]) \in S
      BY <1>4
    <2> HIDE DEF S
    <2>2. F \in [Nat \X S -> S]
      BY <1>2, <2>1
    <2>3. \A x \in Nat \X S : F[x] = IF x[1] \in 1..N THEN Place1(x[2], x[1]) ELSE start
      OBVIOUS
    <2> HIDE DEF F, N
    <2>4. PICK h : IsRecursive(h, N, S, start, F)
      BY <1>2, <1>3, <2>2, Recursion
    <2>5. /\ h \in [0..N -> S] /\ h[0] = start
          /\ \A i \in 1..N : h[i] = F[<<i, h[i-1]>>]
      BY <2>4 DEF IsRecursive
    <2>6. ASSUME NEW i \in 0..N
          PROVE  h[i] = IF i = 0 THEN start ELSE Place1(h[i-1], i)
      <3>1. CASE i = 0
        BY <2>5, <3>1
      <3>2. CASE i # 0
        <4>1. i \in 1..N /\ i-1 \in 0..N /\ i \in Nat
          BY <1>3, <3>2
        <4>2. <<i, h[i-1]>> \in Nat \X S /\ h[i] = F[<<i, h[i-1]>>]
          BY <2>5, <4>1
        <4>3. F[<<i, h[i-1]>>] = Place1(h[i-1], i)
          BY <2>3, <4>1, <4>2
        <4> QED BY <3>2, <4>2, <4>3
      <3> QED BY <3>1, <3>2
    <2>7. h = [i \in 0..N |-> IF i = 0 THEN start ELSE Place1(h[i-1], i)]
      <3>1. h = [i \in 0..N |-> h[i]]
        BY <2>5
      <3> QED BY <2>6, <3>1
    <2> QED BY <2>7
  <1>6. f = [i \in 0..N |-> IF i = 0 THEN start ELSE Place1(f[i-1], i)]
    BY <1>5
  <1>7. f[N] \in S
    <2> DEFINE T == {i \in 0..N : f[i] \in S}
    <2> HIDE DEF f, S, N
    <2>1. /\ f[0] = start
          /\ \A i \in 1..N : f[i] = Place1(f[i-1], i)
      BY <1>3, <1>6
    <2>2. 0 \in T
      BY <1>2, <1>3, <2>1
    <2>3. ASSUME NEW k \in 0..N-1, k \in T
          PROVE  k + 1 \in T
      <3>1. k + 1 \in 1..N /\ k + 1 \in 0..N /\ (k + 1) - 1 = k
        BY <1>3
      <3>2. f[k+1] = Place1(f[k], k+1)
        BY <2>1, <3>1
      <3>3. f[k] \in S
        BY <2>3
      <3>4. Place1(f[k], k+1) \in S
        BY <1>4, <3>1, <3>3
      <3> QED BY <3>1, <3>2, <3>4
    <2>4. 0..N \subseteq T
      BY <1>3, <2>2, <2>3, UpTo
    <2>5. N \in 0..N
      BY <1>3
    <2> QED BY <2>4, <2>5
  <1>8. m \in S
    BY <1>1, <1>2, <1>7
  <1> QED BY <1>8

=============================================================================
