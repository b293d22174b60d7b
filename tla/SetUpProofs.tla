----------------------------- MODULE SetUpProofs -----------------------------
(***************************************************************************)
(* Theorems about what run does before its search: they hold for every     *)
(* circuit, every coupling map and all latencies.                          *)
(***************************************************************************)
EXTENDS SetUp, NumberProofs

-----------------------------------------------------------------------------
(* The dependence graph that buildDependencyGraph and setCriticality make  *)
(* is right for every circuit, every number of qubits and all latencies.   *)

(* A GateOp, and a GateNode with pointers to gates up to n.                *)
GateOp == [name : DOMAIN OptimisticLatency,
           control : -1..MaxQubits-1, target : -1..MaxQubits-1]

GateNode(n) == [name : DOMAIN OptimisticLatency,
                control : -1..MaxQubits-1, target : Qubits,
                optimisticLatency : Nat, criticality : Nat,
                controlChild : 0..n, targetChild : 0..n,
                controlParent : 0..n, targetParent : 0..n,
                nextControlCNOT : 0..n, nextTargetCNOT : 0..n]

(* The programs are sequences of GateOps.                                  *)
LEMMA ProgramFacts ==
    ASSUME NEW p \in Programs
    PROVE  /\ p \in Seq(GateOp) /\ Len(p) \in Nat
           /\ \A i \in 1..Len(p) : /\ p[i] \in GateOp
                                   /\ p[i].target = -1 => p[i].control = -1
  <1>1. p \in Seq(GateOp)
    BY ProgramsAssumption, Zenon DEF GateOp
  <1>2. \A i \in DOMAIN p : p[i].target = -1 => p[i].control = -1
    BY ProgramsAssumption, Zenon
  <1>3. Len(p) \in Nat /\ DOMAIN p = 1..Len(p) /\ \A i \in 1..Len(p) : p[i] \in GateOp
    BY <1>1
  <1> QED BY <1>1, <1>2, <1>3

(* The pointers of a graph, without what setCriticality fills in.          *)
SameShape(v, w) ==
    /\ v.control = w.control /\ v.target = w.target
    /\ v.controlParent = w.controlParent /\ v.targetParent = w.targetParent
    /\ v.controlChild = w.controlChild /\ v.targetChild = w.targetChild

SameButChildren(v, w) ==
    /\ v.name = w.name /\ v.control = w.control /\ v.target = w.target
    /\ v.optimisticLatency = w.optimisticLatency
    /\ v.criticality = w.criticality
    /\ v.controlParent = w.controlParent /\ v.targetParent = w.targetParent
    /\ v.nextControlCNOT = w.nextControlCNOT
    /\ v.nextTargetCNOT = w.nextTargetCNOT

-----------------------------------------------------------------------------
(* Appending a gate.                                                       *)

(* A gate with another child is a gate.                                    *)
LEMMA NewChild ==
    ASSUME NEW N \in Nat, NEW w \in GateNode(N), NEW c \in 0..N
    PROVE  /\ [w EXCEPT !.controlChild = c] \in GateNode(N)
           /\ SameButChildren([w EXCEPT !.controlChild = c], w)
           /\ [w EXCEPT !.controlChild = c].controlChild = c
           /\ [w EXCEPT !.controlChild = c].targetChild = w.targetChild
           /\ [w EXCEPT !.targetChild = c] \in GateNode(N)
           /\ SameButChildren([w EXCEPT !.targetChild = c], w)
           /\ [w EXCEPT !.targetChild = c].targetChild = c
           /\ [w EXCEPT !.targetChild = c].controlChild = w.controlChild
  BY DEF GateNode, SameButChildren

(* SetChild makes a gate the child of its parent along one qubit.          *)
LEMMA SetChildFields ==
    ASSUME NEW N \in Nat, NEW gs \in Seq(GateNode(N)), NEW p \in 0..Len(gs),
           NEW q, NEW c \in 0..N,
           p # NoGate => /\ q \in {gs[p].control, gs[p].target}
                         /\ gs[p].control # gs[p].target,
           NEW r, r = SetChild(gs, p, q, c)
    PROVE  /\ r \in Seq(GateNode(N)) /\ Len(r) = Len(gs)
           /\ \A g \in 1..Len(gs) :
                 /\ r[g] \in GateNode(N)
                 /\ SameButChildren(r[g], gs[g])
                 /\ r[g].controlChild =
                       IF g = p /\ gs[g].control = q THEN c ELSE gs[g].controlChild
                 /\ r[g].targetChild =
                       IF g = p /\ gs[g].target = q THEN c ELSE gs[g].targetChild
  <1>0. Len(gs) \in Nat /\ \A g \in 1..Len(gs) : gs[g] \in GateNode(N)
    OBVIOUS
  <1>1. CASE p = NoGate
    <2>1. r = gs
      BY <1>1 DEF SetChild
    <2>2. \A g \in 1..Len(gs) : g # p
      BY <1>0, <1>1 DEF NoGate
    <2> QED BY <1>0, <2>1, <2>2 DEF SameButChildren
  <1>2. CASE p # NoGate
    <2> DEFINE w == gs[p]
               m == IF w.control = q THEN [w EXCEPT !.controlChild = c]
                                     ELSE [w EXCEPT !.targetChild = c]
    <2>1. p \in 1..Len(gs) /\ w \in GateNode(N)
      BY <1>0, <1>2 DEF NoGate
    <2>2. r = [gs EXCEPT ![p] = m]
      BY <1>2, <2>1 DEF SetChild
    <2>3. /\ m \in GateNode(N) /\ SameButChildren(m, w)
          /\ m.controlChild = IF w.control = q THEN c ELSE w.controlChild
          /\ m.targetChild = IF w.control = q THEN w.targetChild ELSE c
      <3>1. w \in GateNode(N)
        BY <2>1
      <3> HIDE DEF w
      <3> QED BY <3>1, NewChild
    <2>4. w.control = q <=> w.target # q
      BY <1>2
    <2> HIDE DEF m
    <2>5. /\ r \in Seq(GateNode(N)) /\ Len(r) = Len(gs)
          /\ \A g \in 1..Len(gs) : r[g] = IF g = p THEN m ELSE gs[g]
      BY <2>1, <2>2, <2>3
    <2> SUFFICES ASSUME NEW g \in 1..Len(gs)
                 PROVE  /\ r[g] \in GateNode(N)
                        /\ SameButChildren(r[g], gs[g])
                        /\ r[g].controlChild =
                              IF g = p /\ gs[g].control = q THEN c ELSE gs[g].controlChild
                        /\ r[g].targetChild =
                              IF g = p /\ gs[g].target = q THEN c ELSE gs[g].targetChild
      BY <2>5
    <2>6. CASE g = p
      BY <2>3, <2>4, <2>5, <2>6
    <2>7. CASE g # p
      <3>1. r[g] = gs[g]
        BY <2>5, <2>7
      <3> QED BY <1>0, <2>7, <3>1 DEF SameButChildren
    <2> QED BY <2>6, <2>7
  <1> QED BY <1>1, <1>2

(* lastGatePerQubit as buildDependencyGraph maintains it.                  *)
AreLast(gs, last) ==
    /\ last \in [Qubits -> 0..Len(gs)]
    /\ \A q \in Qubits : IsClosestBefore(gs, Len(gs) + 1, q, last[q])

ControlParent(last, op) == IF op.control >= 0 THEN last[op.control] ELSE NoGate

(* The gates after an iteration of the loop over the gate list.            *)
AppendGate(gs, last, op) ==
    SetChild(SetChild(Append(gs, NewGateNode(op, ControlParent(last, op), last[op.target])),
                      ControlParent(last, op), op.control, Len(gs) + 1),
             last[op.target], op.target, Len(gs) + 1)

(* A sequence of GateNodes that are not on one qubit twice.                *)
AreNodes(gs) ==
    /\ gs \in Seq(GateNode(Len(gs)))
    /\ \A g \in 1..Len(gs) :
          /\ gs[g].control # gs[g].target
          /\ ~IsTwoQubit(gs[g]) =>
                gs[g].controlParent = NoGate /\ gs[g].controlChild = NoGate

(* The qubits of a GateOp that is not refused.                             *)
LEMMA OpQubits ==
    ASSUME NEW op \in GateOp, op.control # op.target,
           op.target = -1 => op.control = -1
    PROVE  /\ op.target \in Qubits /\ op.control \in -1..MaxQubits-1
           /\ op.control \in Qubits <=> op.control >= 0
           /\ QubitsOf(op) \subseteq Qubits
           /\ QubitsOf(op) = IF IsTwoQubit(op) THEN {op.control, op.target} ELSE {op.target}
           /\ MaxQubits \in Nat
  <1>1. MaxQubits \in Nat
    BY ProgramsAssumption
  <1>2. op.control \in -1..MaxQubits-1 /\ op.target \in -1..MaxQubits-1
    BY DEF GateOp
  <1> QED BY <1>1, <1>2 DEF Qubits, QubitsOf, IsTwoQubit

(* A gate that is the last one on a qubit uses it.                         *)
LEMMA LastUses ==
    ASSUME NEW gs, AreNodes(gs), NEW last, AreLast(gs, last), NEW q \in Qubits
    PROVE  /\ last[q] \in 0..Len(gs) /\ Len(gs) \in Nat
           /\ last[q] # NoGate => /\ last[q] \in 1..Len(gs)
                                  /\ q \in {gs[last[q]].control, gs[last[q]].target}
           /\ \A k \in last[q]+1..Len(gs) : q \notin QubitsOf(gs[k])
  <1>1. Len(gs) \in Nat /\ last[q] \in 0..Len(gs)
    BY DEF AreNodes, AreLast
  <1>2. IsClosestBefore(gs, Len(gs) + 1, q, last[q])
    BY DEF AreLast
  <1>3. (Len(gs) + 1) - 1 = Len(gs)
    BY <1>1
  <1> QED BY <1>1, <1>2, <1>3 DEF IsClosestBefore, NoGate, QubitsOf

(* What appending a gate does to the others.                               *)
LEMMA AppendGateFields ==
    ASSUME NEW gs, AreNodes(gs), NEW last, AreLast(gs, last),
           NEW op \in GateOp, op.control # op.target, op.target = -1 => op.control = -1,
           NEW r, r = AppendGate(gs, last, op),
           NEW v, v = Len(gs) + 1
    PROVE  /\ v \in Nat /\ v > 0 /\ Len(gs) \in Nat
           /\ r \in Seq(GateNode(v)) /\ Len(r) = v
           /\ \A g \in 1..Len(gs) :
                 /\ SameButChildren(r[g], gs[g])
                 /\ r[g].controlChild =
                       IF gs[g].control \in QubitsOf(op) /\ last[gs[g].control] = g
                       THEN v ELSE gs[g].controlChild
                 /\ r[g].targetChild =
                       IF gs[g].target \in QubitsOf(op) /\ last[gs[g].target] = g
                       THEN v ELSE gs[g].targetChild
           /\ r[v] = NewGateNode(op, ControlParent(last, op), last[op.target])
  <1> DEFINE cp == ControlParent(last, op)
             tp == last[op.target]
             new == NewGateNode(op, cp, tp)
             a == Append(gs, new)
             b == SetChild(a, cp, op.control, v)
  <1>1. /\ op.target \in Qubits /\ op.control \in -1..MaxQubits-1
        /\ op.control \in Qubits <=> op.control >= 0
        /\ QubitsOf(op) = IF IsTwoQubit(op) THEN {op.control, op.target} ELSE {op.target}
    BY OpQubits
  <1>2. v \in Nat /\ v > 0 /\ Len(gs) \in Nat /\ v = Len(gs) + 1
    BY DEF AreNodes
  <1>3. /\ tp \in 0..Len(gs)
        /\ tp # NoGate => /\ tp \in 1..Len(gs)
                          /\ op.target \in {gs[tp].control, gs[tp].target}
    BY <1>1, LastUses
  <1>4. /\ cp \in 0..Len(gs)
        /\ cp # NoGate => /\ cp \in 1..Len(gs) /\ op.control \in Qubits
                          /\ op.control \in {gs[cp].control, gs[cp].target}
    <2>1. CASE op.control >= 0
      BY <1>1, <2>1, LastUses DEF ControlParent
    <2>2. CASE ~(op.control >= 0)
      <3>1. cp = NoGate
        BY <2>2 DEF ControlParent
      <3> QED BY <1>2, <3>1 DEF NoGate
    <2> QED BY <2>1, <2>2
  <1>5. new \in GateNode(v)
    <2>1. op.name \in DOMAIN OptimisticLatency /\ OptimisticLatency[op.name] \in Nat
      BY ProgramsAssumption DEF GateOp
    <2>2. cp \in 0..v /\ tp \in 0..v /\ NoGate \in 0..v /\ 0 \in Nat
      BY <1>2, <1>3, <1>4 DEF NoGate
    <2> HIDE DEF cp, tp
    <2> QED BY <1>1, <2>1, <2>2 DEF NewGateNode, GateNode
  <1>6. \A g \in 1..Len(gs) : gs[g] \in GateNode(v)
    <2> SUFFICES ASSUME NEW g \in 1..Len(gs) PROVE gs[g] \in GateNode(v)
      OBVIOUS
    <2>1. gs[g] \in GateNode(Len(gs))
      BY DEF AreNodes
    <2>2. 0..Len(gs) \subseteq 0..v
      BY <1>2
    <2> QED BY <2>1, <2>2 DEF GateNode
  <1> HIDE DEF new
  <1>7. /\ a \in Seq(GateNode(v)) /\ Len(a) = v
        /\ \A g \in 1..Len(gs) : a[g] = gs[g]
        /\ a[v] = new
    <2>1. gs \in Seq(GateNode(v))
      <3>1. gs \in Seq(GateNode(Len(gs)))
        BY DEF AreNodes
      <3>2. gs = [i \in 1..Len(gs) |-> gs[i]]
        BY <3>1
      <3> QED BY <1>2, <1>6, <3>2
    <2> QED BY <1>2, <1>5, <2>1
  <1>8. \A g \in 1..Len(gs) : gs[g].control # gs[g].target
    BY DEF AreNodes
  <1> HIDE DEF a, cp, tp
  <1>9. /\ b \in Seq(GateNode(v)) /\ Len(b) = v
        /\ \A g \in 1..v :
              /\ SameButChildren(b[g], a[g])
              /\ b[g].controlChild = IF g = cp /\ a[g].control = op.control
                                     THEN v ELSE a[g].controlChild
              /\ b[g].targetChild = IF g = cp /\ a[g].target = op.control
                                    THEN v ELSE a[g].targetChild
              /\ b[g] \in GateNode(v)
    <2>1. cp \in 0..Len(a) /\ v \in 0..v
      BY <1>2, <1>4, <1>7
    <2>2. cp # NoGate => /\ op.control \in {a[cp].control, a[cp].target}
                         /\ a[cp].control # a[cp].target
      BY <1>4, <1>7, <1>8
    <2> QED BY <1>2, <1>7, <2>1, <2>2, SetChildFields
  <1>10. r = SetChild(b, tp, op.target, v)
    BY DEF AppendGate, a, cp, tp, new
  <1> HIDE DEF b
  <1>11. /\ r \in Seq(GateNode(v)) /\ Len(r) = v
         /\ \A g \in 1..v :
               /\ SameButChildren(r[g], b[g])
               /\ r[g].controlChild = IF g = tp /\ b[g].control = op.target
                                      THEN v ELSE b[g].controlChild
               /\ r[g].targetChild = IF g = tp /\ b[g].target = op.target
                                     THEN v ELSE b[g].targetChild
               /\ r[g] \in GateNode(v)
    <2>1. tp \in 0..Len(b) /\ v \in 0..v
      BY <1>2, <1>3, <1>9
    <2>2. tp # NoGate => /\ op.target \in {b[tp].control, b[tp].target}
                         /\ b[tp].control # b[tp].target
      <3> SUFFICES ASSUME tp # NoGate PROVE <2>2
        OBVIOUS
      <3>1. tp \in 1..Len(gs) /\ tp \in 1..v
        BY <1>2, <1>3
      <3>2. b[tp].control = gs[tp].control /\ b[tp].target = gs[tp].target
        BY <1>7, <1>9, <3>1 DEF SameButChildren
      <3> QED BY <1>3, <1>8, <3>1, <3>2
    <2> QED BY <1>2, <1>9, <1>10, <2>1, <2>2, SetChildFields
  <1>12. ASSUME NEW g \in 1..Len(gs)
         PROVE  /\ SameButChildren(r[g], gs[g])
                /\ r[g].controlChild =
                       IF gs[g].control \in QubitsOf(op) /\ last[gs[g].control] = g
                       THEN v ELSE gs[g].controlChild
                /\ r[g].targetChild =
                       IF gs[g].target \in QubitsOf(op) /\ last[gs[g].target] = g
                       THEN v ELSE gs[g].targetChild
    <2>1. g \in 1..v /\ g # NoGate
      BY <1>2 DEF NoGate
    <2>2. /\ SameButChildren(r[g], b[g]) /\ SameButChildren(b[g], a[g]) /\ a[g] = gs[g]
      BY <1>7, <1>9, <1>11, <2>1
    <2>3. /\ r[g].controlChild = IF \/ g = tp /\ gs[g].control = op.target
                                    \/ g = cp /\ gs[g].control = op.control
                                 THEN v ELSE gs[g].controlChild
          /\ r[g].targetChild = IF \/ g = tp /\ gs[g].target = op.target
                                   \/ g = cp /\ gs[g].target = op.control
                                THEN v ELSE gs[g].targetChild
      BY <1>9, <1>11, <2>1, <2>2 DEF SameButChildren
    <2>4. \A k : (k \in QubitsOf(op) /\ last[k] = g)
                    <=> (g = tp /\ k = op.target) \/ (g = cp /\ k = op.control)
      <3>1. CASE IsTwoQubit(op)
        BY <1>1, <3>1 DEF IsTwoQubit, ControlParent, cp, tp
      <3>2. CASE ~IsTwoQubit(op)
        <4>1. cp = NoGate
          BY <3>2 DEF IsTwoQubit, ControlParent, cp
        <4> QED BY <1>1, <2>1, <3>2, <4>1 DEF tp
      <3> QED BY <3>1, <3>2
    <2> QED BY <2>2, <2>3, <2>4 DEF SameButChildren
  <1>13. r[v] = new
    <2>1. v \in 1..v /\ v # cp /\ v # tp /\ a[v] = new
      BY <1>2, <1>3, <1>4, <1>7
    <2>2. /\ SameButChildren(r[v], b[v]) /\ SameButChildren(b[v], new)
          /\ r[v].controlChild = new.controlChild /\ r[v].targetChild = new.targetChild
          /\ r[v] \in GateNode(v) /\ new \in GateNode(v)
      BY <1>5, <1>9, <1>11, <2>1
    <2> QED BY <2>2 DEF SameButChildren, GateNode
  <1> QED BY <1>2, <1>11, <1>12, <1>13 DEF new, cp, tp

(* The qubits of a GateNode.                                               *)
LEMMA NodeQubits ==
    ASSUME NEW gs, AreNodes(gs), NEW g \in 1..Len(gs)
    PROVE  /\ gs[g] \in GateNode(Len(gs))
           /\ QubitsOf(gs[g]) =
                 IF IsTwoQubit(gs[g]) THEN {gs[g].control, gs[g].target} ELSE {gs[g].target}
           /\ gs[g].target \in Qubits
           /\ IsTwoQubit(gs[g]) => gs[g].control \in Qubits
           /\ ~IsTwoQubit(gs[g]) => gs[g].control = -1
           /\ QubitsOf(gs[g]) \subseteq Qubits
           /\ gs[g].control # gs[g].target
           /\ -1 \notin Qubits
  <1>1. MaxQubits \in Nat
    BY ProgramsAssumption
  <1>2. gs[g] \in GateNode(Len(gs)) /\ gs[g].control # gs[g].target
    BY DEF AreNodes
  <1>3. gs[g].control \in -1..MaxQubits-1 /\ gs[g].target \in Qubits
    BY <1>2 DEF GateNode
  <1> QED BY <1>1, <1>2, <1>3 DEF Qubits, QubitsOf, IsTwoQubit

(* The pointers along each qubit after a gate has been appended.           *)
LEMMA AppendGatePointers ==
    ASSUME NEW gs, AreNodes(gs), NEW last, AreLast(gs, last),
           NEW op \in GateOp, op.control # op.target, op.target = -1 => op.control = -1,
           NEW r, r = AppendGate(gs, last, op),
           NEW v, v = Len(gs) + 1
    PROVE  /\ AreNodes(r) /\ Len(r) = v /\ v \in Nat /\ v > 0 /\ Len(gs) \in Nat
           /\ Len(gs) = v - 1
           /\ \A g \in 1..v-1 :
                 /\ SameButChildren(r[g], gs[g])
                 /\ QubitsOf(r[g]) = QubitsOf(gs[g])
                 /\ IsTwoQubit(r[g]) <=> IsTwoQubit(gs[g])
                 /\ \A k \in QubitsOf(gs[g]) :
                       /\ ParentOn(r[g], k) = ParentOn(gs[g], k)
                       /\ ChildOn(r[g], k) = IF k \in QubitsOf(op) /\ last[k] = g
                                             THEN v ELSE ChildOn(gs[g], k)
           /\ r[v] = NewGateNode(op, ControlParent(last, op), last[op.target])
           /\ QubitsOf(r[v]) = QubitsOf(op) /\ (IsTwoQubit(r[v]) <=> IsTwoQubit(op))
           /\ \A k \in QubitsOf(op) : ParentOn(r[v], k) = last[k] /\ ChildOn(r[v], k) = NoGate
  <1>1. /\ v \in Nat /\ v > 0 /\ Len(gs) \in Nat /\ Len(gs) = v - 1
        /\ r \in Seq(GateNode(v)) /\ Len(r) = v
        /\ \A g \in 1..Len(gs) :
              /\ SameButChildren(r[g], gs[g])
              /\ r[g].controlChild =
                    IF gs[g].control \in QubitsOf(op) /\ last[gs[g].control] = g
                    THEN v ELSE gs[g].controlChild
              /\ r[g].targetChild =
                    IF gs[g].target \in QubitsOf(op) /\ last[gs[g].target] = g
                    THEN v ELSE gs[g].targetChild
        /\ r[v] = NewGateNode(op, ControlParent(last, op), last[op.target])
    BY AppendGateFields
  <1>2. /\ QubitsOf(op) = IF IsTwoQubit(op) THEN {op.control, op.target} ELSE {op.target}
        /\ QubitsOf(op) \subseteq Qubits
        /\ op.control \in Qubits <=> op.control >= 0
    BY OpQubits
  <1>3. ASSUME NEW g \in 1..v-1
        PROVE  /\ SameButChildren(r[g], gs[g])
               /\ QubitsOf(r[g]) = QubitsOf(gs[g])
               /\ IsTwoQubit(r[g]) <=> IsTwoQubit(gs[g])
               /\ r[g].control # r[g].target
               /\ ~IsTwoQubit(r[g]) => r[g].controlParent = NoGate /\ r[g].controlChild = NoGate
               /\ \A k \in QubitsOf(gs[g]) :
                     /\ ParentOn(r[g], k) = ParentOn(gs[g], k)
                     /\ ChildOn(r[g], k) = IF k \in QubitsOf(op) /\ last[k] = g
                                           THEN v ELSE ChildOn(gs[g], k)
    <2>1. g \in 1..Len(gs)
      BY <1>1
    <2>2. SameButChildren(r[g], gs[g])
      BY <1>1, <2>1
    <2>3. QubitsOf(r[g]) = QubitsOf(gs[g]) /\ (IsTwoQubit(r[g]) <=> IsTwoQubit(gs[g]))
      BY <2>2 DEF SameButChildren, QubitsOf, IsTwoQubit
    <2>4. /\ QubitsOf(gs[g]) =
                 IF IsTwoQubit(gs[g]) THEN {gs[g].control, gs[g].target} ELSE {gs[g].target}
          /\ gs[g].control # gs[g].target
          /\ ~IsTwoQubit(gs[g]) => gs[g].control = -1
          /\ ~IsTwoQubit(gs[g]) =>
                gs[g].controlParent = NoGate /\ gs[g].controlChild = NoGate
      BY <2>1, NodeQubits DEF AreNodes
    <2>5. -1 \notin QubitsOf(op)
      BY DEF QubitsOf
    <2>6. r[g].control # r[g].target
          /\ (~IsTwoQubit(r[g]) => r[g].controlParent = NoGate /\ r[g].controlChild = NoGate)
      BY <1>1, <2>1, <2>2, <2>3, <2>4, <2>5 DEF SameButChildren
    <2>7. ASSUME NEW k \in QubitsOf(gs[g])
          PROVE  /\ ParentOn(r[g], k) = ParentOn(gs[g], k)
                 /\ ChildOn(r[g], k) = IF k \in QubitsOf(op) /\ last[k] = g
                                       THEN v ELSE ChildOn(gs[g], k)
      <3>1. r[g].control = gs[g].control /\ r[g].controlParent = gs[g].controlParent
            /\ r[g].target = gs[g].target /\ r[g].targetParent = gs[g].targetParent
        BY <2>2 DEF SameButChildren
      <3>2. CASE k = gs[g].control
        BY <1>1, <2>1, <3>1, <3>2 DEF ParentOn, ChildOn
      <3>3. CASE k # gs[g].control
        <4>1. k = gs[g].target
          BY <2>4, <3>3
        <4> QED BY <1>1, <2>1, <3>1, <3>3, <4>1 DEF ParentOn, ChildOn
      <3> QED BY <3>2, <3>3
    <2> QED BY <2>2, <2>3, <2>6, <2>7
  <1> DEFINE new == NewGateNode(op, ControlParent(last, op), last[op.target])
  <1>4. /\ new.control = op.control /\ new.target = op.target
        /\ new.controlParent = ControlParent(last, op)
        /\ new.targetParent = last[op.target]
        /\ new.controlChild = NoGate /\ new.targetChild = NoGate
    BY DEF NewGateNode
  <1>5. r[v] = new
    BY <1>1
  <1> HIDE DEF new
  <1>6. QubitsOf(r[v]) = QubitsOf(op) /\ (IsTwoQubit(r[v]) <=> IsTwoQubit(op))
    BY <1>4, <1>5 DEF QubitsOf, IsTwoQubit
  <1>7. \A k \in QubitsOf(op) : ParentOn(r[v], k) = last[k] /\ ChildOn(r[v], k) = NoGate
    <2> SUFFICES ASSUME NEW k \in QubitsOf(op)
                 PROVE  ParentOn(r[v], k) = last[k] /\ ChildOn(r[v], k) = NoGate
      OBVIOUS
    <2>1. CASE k = op.control
      <3>1. op.control >= 0
        BY <1>2, <2>1
      <3> QED BY <1>4, <1>5, <2>1, <3>1 DEF ParentOn, ChildOn, ControlParent
    <2>2. CASE k # op.control
      <3>1. k = op.target
        BY <1>2, <2>2
      <3> QED BY <1>4, <1>5, <2>2, <3>1 DEF ParentOn, ChildOn
    <2> QED BY <2>1, <2>2
  <1>8. AreNodes(r)
    <2> SUFFICES ASSUME NEW g \in 1..v
                 PROVE  /\ r[g].control # r[g].target
                        /\ ~IsTwoQubit(r[g]) => r[g].controlParent = NoGate
                                                /\ r[g].controlChild = NoGate
      BY <1>1 DEF AreNodes
    <2>1. CASE g \in 1..v-1
      BY <1>3, <2>1
    <2>2. CASE g = v
      BY <1>4, <1>5, <1>6, <2>2 DEF IsTwoQubit, ControlParent
    <2> QED BY <1>1, <2>1, <2>2
  <1> QED BY <1>1, <1>3, <1>5, <1>6, <1>7, <1>8 DEF new

(* lastGatePerQubit and firstCXPerQubit after an iteration.                *)
NowLast(last, op, v) == [q \in Qubits |-> IF q \in QubitsOf(op) THEN v ELSE last[q]]

NowFirstCX(first, op, v) ==
    [q \in Qubits |-> IF IsTwoQubit(op) /\ q \in QubitsOf(op) /\ first[q] = NoGate
                      THEN v ELSE first[q]]

AreFirstCX(gs, first) ==
    /\ first \in [Qubits -> 0..Len(gs)]
    /\ \A q \in Qubits : IsNextCNOT(gs, NoGate, q, first[q])

(* The new gate becomes the child of the last gates on its qubits: the     *)
(* graph stays right.                                                      *)
LEMMA AppendGateGraph ==
    ASSUME NEW gs, AreNodes(gs), IsGraph(gs), NEW last, AreLast(gs, last),
           NEW op \in GateOp, op.control # op.target, op.target = -1 => op.control = -1,
           NEW r, r = AppendGate(gs, last, op),
           NEW v, v = Len(gs) + 1
    PROVE  IsGraph(r) /\ AreLast(r, NowLast(last, op, v))
  <1>1. /\ AreNodes(r) /\ Len(r) = v /\ v \in Nat /\ v > 0 /\ Len(gs) \in Nat
        /\ Len(gs) = v - 1
        /\ \A g \in 1..v-1 :
              /\ QubitsOf(r[g]) = QubitsOf(gs[g])
              /\ \A k \in QubitsOf(gs[g]) :
                    /\ ParentOn(r[g], k) = ParentOn(gs[g], k)
                    /\ ChildOn(r[g], k) = IF k \in QubitsOf(op) /\ last[k] = g
                                          THEN v ELSE ChildOn(gs[g], k)
        /\ QubitsOf(r[v]) = QubitsOf(op)
        /\ \A k \in QubitsOf(op) : ParentOn(r[v], k) = last[k] /\ ChildOn(r[v], k) = NoGate
    BY AppendGatePointers
  <1>2. QubitsOf(op) \subseteq Qubits
    BY OpQubits
  <1>3. \A q \in Qubits :
           /\ last[q] \in 0..v-1
           /\ last[q] # NoGate => q \in QubitsOf(gs[last[q]])
           /\ \A k \in last[q]+1..v-1 : q \notin QubitsOf(gs[k])
    <2> SUFFICES ASSUME NEW q \in Qubits
                 PROVE  /\ last[q] \in 0..v-1
                        /\ last[q] # NoGate => q \in QubitsOf(gs[last[q]])
                        /\ \A k \in last[q]+1..v-1 : q \notin QubitsOf(gs[k])
      OBVIOUS
    <2>1. IsClosestBefore(gs, v, q, last[q])
      BY <1>1 DEF AreLast
    <2> QED BY <2>1 DEF IsClosestBefore
  <1>4. ASSUME NEW g \in 1..v-1, NEW k \in QubitsOf(gs[g])
        PROVE  IsClosestBefore(r, g, k, ParentOn(r[g], k))
    <2> DEFINE p == ParentOn(gs[g], k)
    <2>1. g \in 1..Len(gs)
      BY <1>1
    <2>2. IsClosestBefore(gs, g, k, p)
      BY <2>1, Zenon DEF IsGraph
    <2>3. ParentOn(r[g], k) = p
      BY <1>1
    <2> HIDE DEF p
    <2>4. p # NoGate => p \in 1..v-1
      BY <1>1, <2>2 DEF IsClosestBefore, NoGate
    <2>5. p \in 0..g-1 /\ \A j \in p+1..g-1 : j \in 1..v-1
      BY <1>1, <2>2 DEF IsClosestBefore
    <2> QED BY <1>1, <2>2, <2>3, <2>4, <2>5 DEF IsClosestBefore
  <1>5. ASSUME NEW g \in 1..v-1, NEW k \in QubitsOf(gs[g])
        PROVE  IsClosestAfter(r, g, k, ChildOn(r[g], k))
    <2> DEFINE c == ChildOn(gs[g], k)
    <2>1. g \in 1..Len(gs)
      BY <1>1
    <2>2. IsClosestAfter(gs, g, k, c)
      BY <2>1, Zenon DEF IsGraph
    <2>3. ChildOn(r[g], k) = IF k \in QubitsOf(op) /\ last[k] = g THEN v ELSE c
      BY <1>1
    <2>4. k \in Qubits
      BY <2>1, NodeQubits
    <2>5. last[k] \in g..v-1
      <3>1. last[k] \in 0..v-1 /\ ~(g \in last[k]+1..v-1)
        BY <1>3, <2>4
      <3> QED BY <1>1, <3>1
    <2> HIDE DEF c
    <2>6. CASE k \in QubitsOf(op) /\ last[k] = g
      <3>1. \A j \in g+1..v-1 : k \notin QubitsOf(r[j])
        <4>1. \A j \in g+1..v-1 : j \in 1..v-1 /\ k \notin QubitsOf(gs[j])
          BY <1>1, <1>3, <2>4, <2>6
        <4> QED BY <1>1, <4>1
      <3>2. v \in g+1..v
        BY <1>1
      <3> QED BY <1>1, <2>3, <2>6, <3>1, <3>2 DEF IsClosestAfter
    <2>7. CASE k \in QubitsOf(op) /\ last[k] # g
      <3>1. last[k] \in g+1..v-1 /\ k \in QubitsOf(gs[last[k]])
        BY <1>3, <2>4, <2>5, <2>7 DEF NoGate
      <3>2. /\ c \in g+1..v-1 /\ k \in QubitsOf(gs[c])
            /\ \A j \in g+1..c-1 : k \notin QubitsOf(gs[j])
        BY <1>1, <2>2, <3>1 DEF IsClosestAfter
      <3>3. c \in 1..v-1 /\ c \in g+1..v /\ \A j \in g+1..c-1 : j \in 1..v-1
        BY <1>1, <3>2
      <3>4. k \in QubitsOf(r[c]) /\ \A j \in g+1..c-1 : k \notin QubitsOf(r[j])
        BY <1>1, <3>2, <3>3
      <3> QED BY <1>1, <2>3, <2>7, <3>3, <3>4 DEF IsClosestAfter
    <2>8. CASE k \notin QubitsOf(op)
      <3>1. ChildOn(r[g], k) = c
        BY <2>3, <2>8
      <3>2. CASE c = NoGate
        <4>1. \A j \in g+1..v-1 : j \in 1..v-1 /\ k \notin QubitsOf(gs[j])
          BY <1>1, <2>2, <3>2 DEF IsClosestAfter, NoGate
        <4>2. \A j \in g+1..v : k \notin QubitsOf(r[j])
          <5> SUFFICES ASSUME NEW j \in g+1..v PROVE k \notin QubitsOf(r[j])
            OBVIOUS
          <5>1. j = v \/ j \in g+1..v-1
            BY <1>1
          <5> QED BY <1>1, <2>8, <4>1, <5>1
        <4> QED BY <1>1, <3>1, <3>2, <4>2 DEF IsClosestAfter
      <3>3. CASE c # NoGate
        <4>1. /\ c \in g+1..v-1 /\ k \in QubitsOf(gs[c])
              /\ \A j \in g+1..c-1 : k \notin QubitsOf(gs[j])
          BY <1>1, <2>2, <3>3 DEF IsClosestAfter
        <4>2. c \in 1..v-1 /\ c \in g+1..v /\ \A j \in g+1..c-1 : j \in 1..v-1
          BY <1>1, <4>1
        <4>3. k \in QubitsOf(r[c]) /\ \A j \in g+1..c-1 : k \notin QubitsOf(r[j])
          BY <1>1, <4>1, <4>2
        <4> QED BY <1>1, <3>1, <4>2, <4>3 DEF IsClosestAfter
      <3> QED BY <3>2, <3>3
    <2> QED BY <2>6, <2>7, <2>8
  <1>6. ASSUME NEW k \in QubitsOf(op)
        PROVE  /\ IsClosestBefore(r, v, k, ParentOn(r[v], k))
               /\ IsClosestAfter(r, v, k, ChildOn(r[v], k))
    <2>1. ParentOn(r[v], k) = last[k] /\ ChildOn(r[v], k) = NoGate /\ k \in Qubits
      BY <1>1, <1>2
    <2>2. last[k] \in 0..v-1 /\ (last[k] # NoGate => last[k] \in 1..v-1)
          /\ \A j \in last[k]+1..v-1 : j \in 1..v-1
      BY <1>1, <1>3, <2>1 DEF NoGate
    <2>3. IsClosestBefore(r, v, k, last[k])
      BY <1>1, <1>3, <2>1, <2>2 DEF IsClosestBefore
    <2>4. IsClosestAfter(r, v, k, NoGate)
      BY <1>1 DEF IsClosestAfter
    <2> QED BY <2>1, <2>3, <2>4
  <1>7. IsGraph(r)
    <2> SUFFICES ASSUME NEW g \in 1..v, NEW k \in QubitsOf(r[g])
                 PROVE  /\ IsClosestBefore(r, g, k, ParentOn(r[g], k))
                        /\ IsClosestAfter(r, g, k, ChildOn(r[g], k))
      BY <1>1 DEF IsGraph
    <2>1. CASE g \in 1..v-1
      BY <1>1, <1>4, <1>5, <2>1
    <2>2. CASE g = v
      BY <1>1, <1>6, <2>2
    <2> QED BY <1>1, <2>1, <2>2
  <1>8. AreLast(r, NowLast(last, op, v))
    <2> DEFINE now == NowLast(last, op, v)
    <2>1. \A q \in Qubits : now[q] = IF q \in QubitsOf(op) THEN v ELSE last[q]
      BY DEF NowLast
    <2>2. now \in [Qubits -> 0..v]
      <3>1. \A q \in Qubits : (IF q \in QubitsOf(op) THEN v ELSE last[q]) \in 0..v
        BY <1>1, <1>3
      <3> QED BY <3>1 DEF NowLast
    <2> HIDE DEF now
    <2>3. ASSUME NEW q \in Qubits
          PROVE  IsClosestBefore(r, v + 1, q, now[q])
      <3>1. (v + 1) - 1 = v
        BY <1>1
      <3>2. CASE q \in QubitsOf(op)
        <4>1. now[q] = v /\ v \in 0..v /\ \A j \in v+1..v : FALSE
          BY <1>1, <2>1, <3>2
        <4> QED BY <1>1, <3>1, <3>2, <4>1 DEF IsClosestBefore
      <3>3. CASE q \notin QubitsOf(op)
        <4>1. now[q] = last[q] /\ last[q] \in 0..v
              /\ (last[q] # NoGate => last[q] \in 1..v-1)
          BY <1>1, <1>3, <2>1, <3>3 DEF NoGate
        <4>2. \A j \in last[q]+1..v : q \notin QubitsOf(r[j])
          <5> SUFFICES ASSUME NEW j \in last[q]+1..v PROVE q \notin QubitsOf(r[j])
            OBVIOUS
          <5>1. j = v \/ (j \in last[q]+1..v-1 /\ j \in 1..v-1)
            BY <1>1, <1>3
          <5> QED BY <1>1, <1>3, <3>3, <5>1
        <4> QED BY <1>1, <1>3, <3>1, <4>1, <4>2 DEF IsClosestBefore
      <3> QED BY <3>2, <3>3
    <2> QED BY <1>1, <2>2, <2>3 DEF AreLast, now
  <1> QED BY <1>7, <1>8

(* The new gate is a root if it has no parents.                            *)
LEMMA AppendGateRoots ==
    ASSUME NEW gs, AreNodes(gs), NEW last, AreLast(gs, last),
           NEW op \in GateOp, op.control # op.target, op.target = -1 => op.control = -1,
           NEW r, r = AppendGate(gs, last, op),
           NEW v, v = Len(gs) + 1
    PROVE  Roots(r) = IF IsRoot(ControlParent(last, op), last[op.target])
                      THEN Roots(gs) \cup {v} ELSE Roots(gs)
  <1>1. /\ Len(r) = v /\ v \in Nat /\ v > 0 /\ Len(gs) = v - 1
        /\ \A g \in 1..v-1 : QubitsOf(r[g]) = QubitsOf(gs[g])
        /\ QubitsOf(r[v]) = QubitsOf(op)
    BY AppendGatePointers
  <1>2. /\ op.target \in Qubits
        /\ op.control \in Qubits <=> op.control >= 0
        /\ QubitsOf(op) = IF IsTwoQubit(op) THEN {op.control, op.target} ELSE {op.target}
        /\ QubitsOf(op) \subseteq Qubits
    BY OpQubits
  <1>3. \A q : \A g \in 1..v :
            IsClosestBefore(r, g, q, NoGate) <=> \A k \in 1..g-1 : q \notin QubitsOf(gs[k])
    <2> SUFFICES ASSUME NEW g \in 1..v, NEW q
                 PROVE  IsClosestBefore(r, g, q, NoGate)
                            <=> \A k \in 1..g-1 : q \notin QubitsOf(gs[k])
      OBVIOUS
    <2>1. \A k \in 1..g-1 : k \in 1..v-1
      BY <1>1
    <2>2. NoGate \in 0..g-1 /\ NoGate + 1 = 1
      BY <1>1 DEF NoGate
    <2> QED BY <1>1, <2>1, <2>2 DEF IsClosestBefore
  <1>4. \A q : \A g \in 1..v-1 :
            IsClosestBefore(gs, g, q, NoGate) <=> \A k \in 1..g-1 : q \notin QubitsOf(gs[k])
    BY <1>1 DEF IsClosestBefore, NoGate
  <1>5. \A g \in 1..v-1 : g \in Roots(r) <=> g \in Roots(gs)
    BY <1>1, <1>3, <1>4 DEF Roots
  <1>6. \A q \in Qubits : last[q] = NoGate <=> \A k \in 1..v-1 : q \notin QubitsOf(gs[k])
    <2> SUFFICES ASSUME NEW q \in Qubits
                 PROVE  last[q] = NoGate <=> \A k \in 1..v-1 : q \notin QubitsOf(gs[k])
      OBVIOUS
    <2>1. IsClosestBefore(gs, v, q, last[q])
      BY <1>1 DEF AreLast
    <2>2. last[q] \in 0..v-1
      BY <2>1 DEF IsClosestBefore
    <2> QED BY <1>1, <2>1, <2>2 DEF IsClosestBefore, NoGate
  <1>7. v \in Roots(r) <=> \A q \in QubitsOf(op) : last[q] = NoGate
    <2>1. v \in 1..v
      BY <1>1
    <2> QED BY <1>1, <1>2, <1>3, <1>6, <2>1 DEF Roots
  <1>8. (\A q \in QubitsOf(op) : last[q] = NoGate)
            <=> IsRoot(ControlParent(last, op), last[op.target])
    BY <1>2 DEF IsRoot, ControlParent, IsTwoQubit
  <1>9. Roots(r) \subseteq 1..v /\ Roots(gs) \subseteq 1..v-1
    BY <1>1 DEF Roots
  <1>10. \A g : g \in 1..v => (g \in 1..v-1 \/ g = v)
    BY <1>1
  <1>11. v \notin Roots(gs)
    BY <1>1, <1>9
  <1> DEFINE isRoot == IsRoot(ControlParent(last, op), last[op.target])
  <1>12. v \in Roots(r) <=> isRoot
    BY <1>7, <1>8
  <1> HIDE DEF isRoot
  <1>13. \A g : g \in Roots(r) <=> g \in Roots(gs) \/ (g = v /\ isRoot)
    BY <1>5, <1>9, <1>10, <1>11, <1>12
  <1>14. Roots(r) = IF isRoot THEN Roots(gs) \cup {v} ELSE Roots(gs)
    BY <1>13
  <1> QED BY <1>14 DEF isRoot

(* firstCXPerQubit stays the first two-qubit gate on each qubit.           *)
LEMMA AppendGateFirstCX ==
    ASSUME NEW gs, AreNodes(gs), NEW last, AreLast(gs, last),
           NEW first, AreFirstCX(gs, first),
           NEW op \in GateOp, op.control # op.target, op.target = -1 => op.control = -1,
           NEW r, r = AppendGate(gs, last, op),
           NEW v, v = Len(gs) + 1
    PROVE  AreFirstCX(r, NowFirstCX(first, op, v))
  <1> DEFINE now == NowFirstCX(first, op, v)
  <1>1. /\ Len(r) = v /\ v \in Nat /\ v > 0 /\ Len(gs) = v - 1
        /\ \A g \in 1..v-1 : /\ QubitsOf(r[g]) = QubitsOf(gs[g])
                             /\ IsTwoQubit(r[g]) <=> IsTwoQubit(gs[g])
        /\ QubitsOf(r[v]) = QubitsOf(op) /\ (IsTwoQubit(r[v]) <=> IsTwoQubit(op))
    BY AppendGatePointers
  <1>2. \A q \in Qubits :
            now[q] = IF IsTwoQubit(op) /\ q \in QubitsOf(op) /\ first[q] = NoGate
                     THEN v ELSE first[q]
    BY DEF NowFirstCX
  <1>3. now \in [Qubits -> 0..v]
    <2>1. \A q \in Qubits : (IF IsTwoQubit(op) /\ q \in QubitsOf(op) /\ first[q] = NoGate
                             THEN v ELSE first[q]) \in 0..v
      BY <1>1 DEF AreFirstCX
    <2> QED BY <2>1 DEF NowFirstCX
  <1> HIDE DEF now
  <1>4. ASSUME NEW q \in Qubits
        PROVE  IsNextCNOT(r, NoGate, q, now[q])
    <2>1. IsNextCNOT(gs, NoGate, q, first[q])
      BY DEF AreFirstCX
    <2>2. CASE first[q] = NoGate
      <3>1. \A k \in 1..v-1 : IsTwoQubit(gs[k]) => q \notin QubitsOf(gs[k])
        BY <1>1, <2>1, <2>2 DEF IsNextCNOT, NoGate
      <3>2. \A k \in 1..v-1 : IsTwoQubit(r[k]) => q \notin QubitsOf(r[k])
        BY <1>1, <3>1
      <3>3. CASE IsTwoQubit(op) /\ q \in QubitsOf(op)
        <4>1. now[q] = v /\ v \in NoGate+1..v /\ NoGate + 1 = 1
          BY <1>1, <1>2, <2>2, <3>3 DEF NoGate
        <4> QED BY <1>1, <3>2, <3>3, <4>1 DEF IsNextCNOT
      <3>4. CASE ~(IsTwoQubit(op) /\ q \in QubitsOf(op))
        <4>1. now[q] = NoGate /\ NoGate + 1 = 1
          BY <1>2, <2>2, <3>4 DEF NoGate
        <4>2. \A k \in 1..v : k \in 1..v-1 \/ k = v
          BY <1>1
        <4> QED BY <1>1, <3>2, <3>4, <4>1, <4>2 DEF IsNextCNOT
      <3> QED BY <3>3, <3>4
    <2>3. CASE first[q] # NoGate
      <3>1. now[q] = first[q]
        BY <1>2, <2>3
      <3>2. /\ first[q] \in 1..v-1 /\ IsTwoQubit(gs[first[q]])
            /\ q \in QubitsOf(gs[first[q]])
            /\ \A k \in 1..first[q]-1 : IsTwoQubit(gs[k]) => q \notin QubitsOf(gs[k])
        BY <1>1, <2>1, <2>3 DEF IsNextCNOT, NoGate
      <3>3. first[q] \in 1..v /\ \A k \in 1..first[q]-1 : k \in 1..v-1
        BY <1>1, <3>2
      <3> QED BY <1>1, <3>1, <3>2, <3>3 DEF IsNextCNOT, NoGate
    <2> QED BY <2>2, <2>3
  <1> QED BY <1>1, <1>3, <1>4 DEF AreFirstCX, now

(* A graph with the same pointers.                                         *)
LEMMA SameGraph ==
    ASSUME NEW gs, Len(gs) \in Nat, NEW hs, Len(hs) = Len(gs),
           \A g \in 1..Len(gs) : SameShape(hs[g], gs[g])
    PROVE  /\ IsGraph(gs) => IsGraph(hs)
           /\ \A last : AreLast(gs, last) => AreLast(hs, last)
           /\ \A first : AreFirstCX(gs, first) => AreFirstCX(hs, first)
           /\ Roots(hs) = Roots(gs)
           /\ \A g \in 1..Len(gs) : /\ QubitsOf(hs[g]) = QubitsOf(gs[g])
                                    /\ IsTwoQubit(hs[g]) <=> IsTwoQubit(gs[g])
                                    /\ \A q : /\ ParentOn(hs[g], q) = ParentOn(gs[g], q)
                                              /\ ChildOn(hs[g], q) = ChildOn(gs[g], q)
  <1> DEFINE n == Len(gs)
  <1>1. \A g \in 1..n : /\ QubitsOf(hs[g]) = QubitsOf(gs[g])
                        /\ IsTwoQubit(hs[g]) <=> IsTwoQubit(gs[g])
                        /\ \A q : /\ ParentOn(hs[g], q) = ParentOn(gs[g], q)
                                  /\ ChildOn(hs[g], q) = ChildOn(gs[g], q)
    BY DEF SameShape, QubitsOf, IsTwoQubit, ParentOn, ChildOn
  <1> HIDE DEF n
  <1>2. n \in Nat /\ Len(gs) = n /\ Len(hs) = n
    BY DEF n
  <1>3. \A q, h : \A g \in 1..n+1 :
            IsClosestBefore(gs, g, q, h) <=> IsClosestBefore(hs, g, q, h)
    <2> SUFFICES ASSUME NEW g \in 1..n+1, NEW q, NEW h \in 0..g-1
                 PROVE  IsClosestBefore(gs, g, q, h) <=> IsClosestBefore(hs, g, q, h)
      BY DEF IsClosestBefore
    <2>1. (h # NoGate => h \in 1..n) /\ \A k \in h+1..g-1 : k \in 1..n
      BY <1>2 DEF NoGate
    <2> QED BY <1>1, <2>1 DEF IsClosestBefore
  <1>4. \A q, h : \A g \in 0..n :
            IsClosestAfter(gs, g, q, h) <=> IsClosestAfter(hs, g, q, h)
    <2> SUFFICES ASSUME NEW g \in 0..n, NEW q, NEW h
                 PROVE  IsClosestAfter(gs, g, q, h) <=> IsClosestAfter(hs, g, q, h)
      OBVIOUS
    <2>1. /\ \A k \in g+1..n : k \in 1..n
          /\ h \in g+1..n => \A k \in g+1..h-1 : k \in 1..n
      BY <1>2
    <2> QED BY <1>1, <1>2, <2>1 DEF IsClosestAfter
  <1>5. \A q, h : \A g \in 0..n :
            IsNextCNOT(gs, g, q, h) <=> IsNextCNOT(hs, g, q, h)
    <2> SUFFICES ASSUME NEW g \in 0..n, NEW q, NEW h
                 PROVE  IsNextCNOT(gs, g, q, h) <=> IsNextCNOT(hs, g, q, h)
      OBVIOUS
    <2>1. /\ \A k \in g+1..n : k \in 1..n
          /\ h \in g+1..n => \A k \in g+1..h-1 : k \in 1..n
      BY <1>2
    <2> QED BY <1>1, <1>2, <2>1 DEF IsNextCNOT
  <1>6. IsGraph(gs) => IsGraph(hs)
    <2>1. \A g \in 1..n : g \in 1..n+1 /\ g \in 0..n
      BY <1>2
    <2> QED BY <1>1, <1>2, <1>3, <1>4, <2>1 DEF IsGraph
  <1>7. \A last : AreLast(gs, last) => AreLast(hs, last)
    <2>1. n + 1 \in 1..n+1
      BY <1>2
    <2> QED BY <1>2, <1>3, <2>1 DEF AreLast
  <1>8. \A first : AreFirstCX(gs, first) => AreFirstCX(hs, first)
    <2>1. NoGate \in 0..n
      BY <1>2 DEF NoGate
    <2> QED BY <1>2, <1>5, <2>1 DEF AreFirstCX
  <1>9. Roots(hs) = Roots(gs)
    <2>1. \A g \in 1..n : g \in 1..n+1
      BY <1>2
    <2> QED BY <1>1, <1>2, <1>3, <2>1 DEF Roots
  <1> QED BY <1>1, <1>6, <1>7, <1>8, <1>9 DEF n

-----------------------------------------------------------------------------
(* The invariant of both phases.                                           *)

(* The gates are those of the program, so far.                             *)
IsNodeOf(v, op) ==
    /\ v.name = op.name /\ v.control = op.control /\ v.target = op.target
    /\ v.optimisticLatency = OptimisticLatency[op.name]

GraphInv ==
    /\ program \in Programs
    /\ phase \in {"build", "crit", "done", "failed"}
    /\ AreNodes(gates)
    /\ Len(gates) <= Len(program)
    /\ phase \in {"crit", "done"} => Len(gates) = Len(program)
    /\ \A g \in Built : IsNodeOf(gates[g], program[g])
    /\ IsGraph(gates)
    /\ AreLast(gates, lastGatePerQubit)
    /\ firstGates = Roots(gates)
    /\ AreFirstCX(gates, firstCXPerQubit)
    /\ numQubits \in 0..MaxQubits
    /\ \A g \in Built : QubitsOf(gates[g]) \subseteq 0..numQubits-1

(* The local variables of setCriticality.                                  *)
WalkTyped ==
    /\ cursor \in [Qubits -> 0..Len(gates)]
    /\ visiting \in 0..numQubits
    /\ progress \in BOOLEAN
    /\ idealCycles \in Nat

(* They are what the type invariant and the first properties ask for.      *)
LEMMA GraphInvImplies ==
    GraphInv /\ WalkTyped => TypeOK /\ GraphCorrect /\ RootsCorrect
  <1> SUFFICES ASSUME GraphInv, WalkTyped PROVE TypeOK /\ GraphCorrect /\ RootsCorrect
    OBVIOUS
  <1>1. /\ Len(gates) \in Nat /\ gates \in Seq(GateNode(Len(gates)))
        /\ \A g \in 1..Len(gates) : gates[g] \in GateNode(Len(gates))
    BY DEF GraphInv, AreNodes
  <1>2. MaxQubits \in Nat /\ numQubits \in 0..MaxQubits /\ visiting \in 0..MaxQubits
    BY ProgramsAssumption DEF GraphInv, WalkTyped
  <1>3. TypeOK
    <2>1. firstGates \subseteq Built
      BY DEF GraphInv, Roots, Built
    <2>2. \A g \in Built : gates[g] \in GateNode(Len(gates))
      BY <1>1 DEF Built
    <2>3. /\ lastGatePerQubit \in [Qubits -> 0..Len(gates)]
          /\ firstCXPerQubit \in [Qubits -> 0..Len(gates)]
      BY DEF GraphInv, AreLast, AreFirstCX
    <2>4. /\ program \in Programs /\ phase \in {"build", "crit", "done", "failed"}
          /\ Len(gates) <= Len(program)
      BY DEF GraphInv
    <2> QED BY <1>2, <2>1, <2>2, <2>3, <2>4, Zenon DEF TypeOK, WalkTyped, GateNode
  <1>4. GraphCorrect
    BY DEF GraphInv, GraphCorrect, IsNodeOf, QubitsOf
  <1>5. RootsCorrect
    BY DEF GraphInv, RootsCorrect, AreFirstCX
  <1> QED BY <1>3, <1>4, <1>5

(* Nothing is built yet.                                                   *)
LEMMA GraphInit == Init => GraphInv /\ WalkTyped
  <1> SUFFICES ASSUME Init PROVE GraphInv /\ WalkTyped
    OBVIOUS
  <1>1. /\ gates = <<>> /\ Len(gates) = 0 /\ numQubits = 0 /\ firstGates = {}
        /\ lastGatePerQubit = [q \in Qubits |-> 0] /\ firstCXPerQubit = [q \in Qubits |-> 0]
        /\ cursor = [q \in Qubits |-> 0] /\ phase = "build" /\ program \in Programs
        /\ visiting = 0 /\ progress = FALSE /\ idealCycles = 0
    BY DEF Init, NoGate
  <1>2. Len(program) \in Nat /\ MaxQubits \in Nat
    BY <1>1, ProgramFacts, ProgramsAssumption
  <1>3. AreNodes(gates)
    BY <1>1 DEF AreNodes
  <1>4. IsGraph(gates) /\ Roots(gates) = {}
    BY <1>1 DEF IsGraph, Roots
  <1>5. AreLast(gates, lastGatePerQubit)
    BY <1>1 DEF AreLast, IsClosestBefore, NoGate
  <1>6. AreFirstCX(gates, firstCXPerQubit)
    BY <1>1 DEF AreFirstCX, IsNextCNOT, NoGate
  <1>7. GraphInv
    BY <1>1, <1>2, <1>3, <1>4, <1>5, <1>6 DEF GraphInv, Built
  <1>8. WalkTyped
    <2>1. cursor \in [Qubits -> 0..Len(gates)]
      BY <1>1
    <2>2. visiting \in 0..numQubits /\ idealCycles \in Nat
      BY <1>1
    <2>3. progress \in BOOLEAN
      BY <1>1
    <2> QED BY <2>1, <2>2, <2>3 DEF WalkTyped
  <1> QED BY <1>7, <1>8

(* Adding a gate.                                                          *)
LEMMA GraphAddGate ==
    GraphInv /\ WalkTyped /\ AddGate => GraphInv' /\ WalkTyped'
  <1> SUFFICES ASSUME GraphInv, WalkTyped, AddGate PROVE GraphInv' /\ WalkTyped'
    OBVIOUS
  <1> DEFINE v == Len(gates) + 1
             op == program[v]
             r == AppendGate(gates, lastGatePerQubit, op)
  <1>1. /\ program \in Programs /\ AreNodes(gates) /\ Len(gates) \in Nat
        /\ Len(gates) < Len(program) /\ phase = "build"
    BY DEF GraphInv, AddGate, AreNodes
  <1>2. /\ Len(program) \in Nat /\ v \in 1..Len(program)
        /\ op \in GateOp /\ (op.target = -1 => op.control = -1)
        /\ op.control # op.target
    <2>1. Len(program) \in Nat
      BY <1>1, ProgramFacts
    <2>2. v \in 1..Len(program)
      BY <1>1, <2>1
    <2> QED BY <1>1, <2>1, <2>2, ProgramFacts DEF AddGate
  <1>3. /\ gates' = r
        /\ lastGatePerQubit' = NowLast(lastGatePerQubit, op, v)
        /\ firstGates' = IF IsRoot(ControlParent(lastGatePerQubit, op),
                                   lastGatePerQubit[op.target])
                         THEN firstGates \cup {v} ELSE firstGates
        /\ firstCXPerQubit' = NowFirstCX(firstCXPerQubit, op, v)
        /\ numQubits' = CountQubits(numQubits, op)
        /\ program' = program /\ phase' = phase
        /\ cursor' = cursor /\ visiting' = visiting /\ progress' = progress
        /\ idealCycles' = idealCycles
    BY Zenon DEF AddGate, AppendGate, ControlParent, NowLast, NowFirstCX, critVars
  <1> HIDE DEF op, r
  <1>4. /\ AreNodes(r) /\ Len(r) = v
        /\ \A g \in 1..v-1 : /\ SameButChildren(r[g], gates[g])
                             /\ QubitsOf(r[g]) = QubitsOf(gates[g])
        /\ r[v] = NewGateNode(op, ControlParent(lastGatePerQubit, op),
                              lastGatePerQubit[op.target])
        /\ QubitsOf(r[v]) = QubitsOf(op)
    <2>1. AreLast(gates, lastGatePerQubit)
      BY DEF GraphInv
    <2> HIDE DEF v
    <2>2. v = Len(gates) + 1
      BY DEF v
    <2> QED BY <1>1, <1>2, <2>1, <2>2, AppendGatePointers DEF r
  <1>5. /\ IsGraph(r) /\ AreLast(r, NowLast(lastGatePerQubit, op, v))
        /\ Roots(r) = IF IsRoot(ControlParent(lastGatePerQubit, op),
                                lastGatePerQubit[op.target])
                      THEN Roots(gates) \cup {v} ELSE Roots(gates)
        /\ AreFirstCX(r, NowFirstCX(firstCXPerQubit, op, v))
    <2>1. /\ AreLast(gates, lastGatePerQubit) /\ IsGraph(gates)
          /\ AreFirstCX(gates, firstCXPerQubit)
      BY DEF GraphInv
    <2> HIDE DEF v
    <2>2. v = Len(gates) + 1
      BY DEF v
    <2>3. IsGraph(r) /\ AreLast(r, NowLast(lastGatePerQubit, op, v))
      BY <1>1, <1>2, <2>1, <2>2, AppendGateGraph DEF r
    <2>4. Roots(r) = IF IsRoot(ControlParent(lastGatePerQubit, op),
                               lastGatePerQubit[op.target])
                     THEN Roots(gates) \cup {v} ELSE Roots(gates)
      BY <1>1, <1>2, <2>1, <2>2, AppendGateRoots DEF r
    <2>5. AreFirstCX(r, NowFirstCX(firstCXPerQubit, op, v))
      BY <1>1, <1>2, <2>1, <2>2, AppendGateFirstCX DEF r
    <2> QED BY <2>3, <2>4, <2>5
  <1>6. /\ numQubits' \in 0..MaxQubits /\ numQubits <= numQubits'
        /\ QubitsOf(op) \subseteq 0..numQubits'-1
    <2>1. numQubits \in 0..MaxQubits /\ MaxQubits \in Nat
      BY ProgramsAssumption DEF GraphInv
    <2>2. op.target \in Qubits /\ op.control \in -1..MaxQubits-1
      BY <1>2, OpQubits
    <2>3. op.target \in 0..MaxQubits-1
      BY <2>2 DEF Qubits
    <2>4. numQubits' = IF op.control >= numQubits \/ op.target >= numQubits
                       THEN (IF op.control > op.target THEN op.control ELSE op.target) + 1
                       ELSE numQubits
      BY <1>3 DEF CountQubits
    <2>5. /\ numQubits' \in 0..MaxQubits /\ numQubits <= numQubits'
          /\ op.control < numQubits' /\ op.target < numQubits'
      BY <2>1, <2>2, <2>3, <2>4
    <2>6. QubitsOf(op) \subseteq 0..numQubits'-1
      BY <2>1, <2>2, <2>3, <2>5 DEF QubitsOf
    <2> QED BY <2>5, <2>6
  <1>7. \A g \in 1..v : IsNodeOf(r[g], program[g]) /\ QubitsOf(r[g]) \subseteq 0..numQubits'-1
    <2> SUFFICES ASSUME NEW g \in 1..v
                 PROVE  IsNodeOf(r[g], program[g]) /\ QubitsOf(r[g]) \subseteq 0..numQubits'-1
      OBVIOUS
    <2>1. CASE g \in 1..v-1
      <3>1. IsNodeOf(gates[g], program[g]) /\ QubitsOf(gates[g]) \subseteq 0..numQubits-1
        BY <1>1, <2>1 DEF GraphInv, Built
      <3>2. 0..numQubits-1 \subseteq 0..numQubits'-1
        <4>1. numQubits \in Nat /\ numQubits' \in Nat
          BY <1>6, ProgramsAssumption DEF GraphInv
        <4>2. numQubits <= numQubits'
          BY <1>6
        <4>3. \A a, b \in Nat : a <= b => 0..a-1 \subseteq 0..b-1
          OBVIOUS
        <4> QED BY <4>1, <4>2, <4>3
      <3> QED BY <1>4, <2>1, <3>1, <3>2 DEF IsNodeOf, SameButChildren
    <2>2. CASE g = v
      BY <1>4, <1>6, <2>2 DEF IsNodeOf, NewGateNode, op
    <2> QED BY <1>1, <2>1, <2>2
  <1>8. GraphInv'
    <2>1. /\ program' \in Programs /\ phase' = "build"
          /\ Len(gates') <= Len(program') /\ Built' = 1..v
      BY <1>1, <1>2, <1>3, <1>4 DEF Built
    <2>2. /\ AreNodes(gates)' /\ IsGraph(gates)'
          /\ AreLast(gates, lastGatePerQubit)'
          /\ (firstGates = Roots(gates))'
          /\ AreFirstCX(gates, firstCXPerQubit)'
      BY <1>3, <1>4, <1>5 DEF GraphInv
    <2> HIDE DEF v
    <2> QED BY <1>3, <1>6, <1>7, <2>1, <2>2 DEF GraphInv
  <1>9. WalkTyped'
    <2>1. 0..Len(gates) \subseteq 0..Len(gates') /\ 0..numQubits \subseteq 0..numQubits'
      BY <1>1, <1>3, <1>4, <1>6 DEF GraphInv
    <2> QED BY <1>3, <2>1 DEF WalkTyped
  <1> QED BY <1>8, <1>9

(* What a visited gate g tells its parent p.                               *)
NextCX(gs, g) == IF IsTwoQubit(gs[g]) THEN g ELSE gs[g].nextTargetCNOT

(* In r, the gates in ps have heard from g, and no others have.            *)
Informed(r, gs, N, g, crit, ps) ==
    /\ r \in Seq(GateNode(N)) /\ Len(r) = N
    /\ \A k \in 1..N :
          /\ SameShape(r[k], gs[k]) /\ r[k].name = gs[k].name
          /\ r[k].optimisticLatency = gs[k].optimisticLatency
          /\ r[k].criticality =
                IF k \in ps THEN Longer(gs[k].criticality, crit) ELSE gs[k].criticality
          /\ r[k].nextTargetCNOT =
                IF k \in ps /\ gs[k].target \in QubitsOf(gs[g])
                THEN NextCX(gs, g) ELSE gs[k].nextTargetCNOT
          /\ r[k].nextControlCNOT =
                IF k \in ps /\ gs[k].control \in QubitsOf(gs[g])
                THEN NextCX(gs, g) ELSE gs[k].nextControlCNOT

(* InformParent changes the criticality and the next two-qubit gates of p. *)
LEMMA InformFields ==
    ASSUME NEW N \in Nat, NEW gs \in Seq(GateNode(N)), Len(gs) = N,
           NEW p \in 0..N, NEW g \in 1..N, NEW crit \in Nat,
           NEW r, r = InformParent(gs, p, g, crit)
    PROVE  Informed(r, gs, N, g, crit, {p})
  <1>1. \A k \in 1..N : gs[k] \in GateNode(N)
    OBVIOUS
  <1>2. CASE p = NoGate
    <2>1. r = gs
      BY <1>2 DEF InformParent
    <2>2. \A k \in 1..N : k # p
      BY <1>2 DEF NoGate
    <2> QED BY <2>1, <2>2 DEF SameShape, Informed
  <1>3. CASE p # NoGate
    <2> DEFINE w == gs[p]
               cx == NextCX(gs, g)
               tcx == IF w.target \in QubitsOf(gs[g]) THEN cx ELSE w.nextTargetCNOT
               ccx == IF w.control \in QubitsOf(gs[g]) THEN cx ELSE w.nextControlCNOT
               m == [w EXCEPT !.criticality = Longer(w.criticality, crit),
                              !.nextTargetCNOT = tcx, !.nextControlCNOT = ccx]
    <2>1. p \in 1..N /\ w \in GateNode(N)
      BY <1>1, <1>3 DEF NoGate
    <2>2. cx \in 0..N
      <3>1. gs[g].nextTargetCNOT \in 0..N
        BY <1>1 DEF GateNode
      <3> QED BY <3>1 DEF NextCX
    <2>3. Longer(w.criticality, crit) \in Nat /\ tcx \in 0..N /\ ccx \in 0..N
      <3>1. w.criticality \in Nat /\ w.nextTargetCNOT \in 0..N /\ w.nextControlCNOT \in 0..N
        BY <2>1 DEF GateNode
      <3> HIDE DEF w, cx
      <3> QED BY <2>2, <3>1 DEF Longer
    <2>4. r = [gs EXCEPT ![p] = m]
      BY <1>3, <2>1 DEF InformParent, NextCX
    <2> HIDE DEF cx, tcx, ccx
    <2>5. /\ m \in GateNode(N) /\ SameShape(m, w) /\ m.name = w.name
          /\ m.optimisticLatency = w.optimisticLatency
          /\ m.criticality = Longer(w.criticality, crit)
          /\ m.nextTargetCNOT = tcx /\ m.nextControlCNOT = ccx
      <3> DEFINE l == Longer(w.criticality, crit)
      <3>1. w \in GateNode(N) /\ l \in Nat
        BY <2>1, <2>3
      <3> HIDE DEF w, l
      <3>2. m = [w EXCEPT !.criticality = l, !.nextTargetCNOT = tcx, !.nextControlCNOT = ccx]
        BY DEF l
      <3> HIDE DEF m
      <3>3. /\ m \in GateNode(N) /\ SameShape(m, w) /\ m.name = w.name
            /\ m.optimisticLatency = w.optimisticLatency
            /\ m.criticality = l
            /\ m.nextTargetCNOT = tcx /\ m.nextControlCNOT = ccx
        BY <2>3, <3>1, <3>2 DEF GateNode, SameShape
      <3> QED BY <3>3 DEF l
    <2> HIDE DEF m
    <2>6. /\ r \in Seq(GateNode(N)) /\ Len(r) = N
          /\ \A k \in 1..N : r[k] = IF k = p THEN m ELSE gs[k]
      BY <2>1, <2>4, <2>5
    <2>7. ASSUME NEW k \in 1..N
          PROVE  /\ SameShape(r[k], gs[k]) /\ r[k].name = gs[k].name
                 /\ r[k].optimisticLatency = gs[k].optimisticLatency
                 /\ r[k].criticality =
                       IF k = p THEN Longer(gs[k].criticality, crit) ELSE gs[k].criticality
                 /\ r[k].nextTargetCNOT =
                       IF k = p /\ gs[k].target \in QubitsOf(gs[g])
                       THEN cx ELSE gs[k].nextTargetCNOT
                 /\ r[k].nextControlCNOT =
                       IF k = p /\ gs[k].control \in QubitsOf(gs[g])
                       THEN cx ELSE gs[k].nextControlCNOT
      <3>1. CASE k = p
        BY <2>5, <2>6, <3>1 DEF tcx, ccx
      <3>2. CASE k # p
        BY <2>6, <3>2 DEF SameShape
      <3> QED BY <3>1, <3>2
    <2> QED BY <2>6, <2>7 DEF cx, Informed
  <1> QED BY <1>2, <1>3

(* What the visit of gate g does to the gates.                             *)
VisitGate(gs, g, crit) ==
    InformParent(InformParent(gs, gs[g].targetParent, g, crit),
                 gs[g].controlParent, g, crit)

(* Its parents are informed, and nothing else changes.                     *)
LEMMA VisitFields ==
    ASSUME NEW N \in Nat, NEW gs \in Seq(GateNode(N)), Len(gs) = N,
           NEW g \in 1..N, gs[g].targetParent # g, gs[g].controlParent # g,
           NEW crit \in Nat, NEW r, r = VisitGate(gs, g, crit)
    PROVE  Informed(r, gs, N, g, crit, {gs[g].targetParent, gs[g].controlParent})
  <1> DEFINE tp == gs[g].targetParent
             cp == gs[g].controlParent
             a == InformParent(gs, tp, g, crit)
  <1>1. tp \in 0..N /\ cp \in 0..N
    <2>1. gs[g] \in GateNode(N)
      OBVIOUS
    <2> QED BY <2>1 DEF GateNode
  <1>2. \A k \in 1..N : gs[k].criticality \in Nat
    <2>1. \A k \in 1..N : gs[k] \in GateNode(N)
      OBVIOUS
    <2> QED BY <2>1 DEF GateNode
  <1> HIDE DEF a
  <1>3. Informed(a, gs, N, g, crit, {tp})
    <2> HIDE DEF tp, cp
    <2> QED BY <1>1, InformFields DEF a
  <1>4. r = InformParent(a, cp, g, crit)
    BY DEF VisitGate, a
  <1> HIDE DEF tp, cp
  <1>5. Informed(r, a, N, g, crit, {cp})
    <2>1. a \in Seq(GateNode(N)) /\ Len(a) = N
      BY <1>3 DEF Informed
    <2> QED BY <1>1, <1>4, <2>1, InformFields
  <1>6. QubitsOf(a[g]) = QubitsOf(gs[g]) /\ NextCX(a, g) = NextCX(gs, g)
    <2>1. g # tp
      BY DEF tp
    <2>2. SameShape(a[g], gs[g]) /\ a[g].nextTargetCNOT = gs[g].nextTargetCNOT
      BY <1>3, <2>1 DEF Informed
    <2> QED BY <2>2 DEF SameShape, QubitsOf, NextCX, IsTwoQubit
  <1>8. ASSUME NEW k \in 1..N
        PROVE  /\ SameShape(r[k], gs[k]) /\ r[k].name = gs[k].name
               /\ r[k].optimisticLatency = gs[k].optimisticLatency
               /\ r[k].criticality = IF k \in {tp, cp}
                       THEN Longer(gs[k].criticality, crit) ELSE gs[k].criticality
               /\ r[k].nextTargetCNOT =
                       IF k \in {tp, cp} /\ gs[k].target \in QubitsOf(gs[g])
                       THEN NextCX(gs, g) ELSE gs[k].nextTargetCNOT
               /\ r[k].nextControlCNOT =
                       IF k \in {tp, cp} /\ gs[k].control \in QubitsOf(gs[g])
                       THEN NextCX(gs, g) ELSE gs[k].nextControlCNOT
    <2>1. SameShape(r[k], gs[k]) /\ r[k].name = gs[k].name
          /\ r[k].optimisticLatency = gs[k].optimisticLatency
      BY <1>3, <1>5 DEF SameShape, Informed
    <2>2. a[k].target = gs[k].target /\ a[k].control = gs[k].control
      BY <1>3 DEF SameShape, Informed
    <2>3. r[k].criticality = IF k \in {tp, cp}
                       THEN Longer(gs[k].criticality, crit) ELSE gs[k].criticality
      BY <1>2, <1>3, <1>5 DEF Longer, Informed
    <2>4. /\ r[k].nextTargetCNOT =
                       IF k \in {tp, cp} /\ gs[k].target \in QubitsOf(gs[g])
                       THEN NextCX(gs, g) ELSE gs[k].nextTargetCNOT
          /\ r[k].nextControlCNOT =
                       IF k \in {tp, cp} /\ gs[k].control \in QubitsOf(gs[g])
                       THEN NextCX(gs, g) ELSE gs[k].nextControlCNOT
      BY <1>3, <1>5, <1>6, <2>2 DEF Informed
    <2> QED BY <2>1, <2>3, <2>4
  <1>9. r \in Seq(GateNode(N)) /\ Len(r) = N
    BY <1>5 DEF Informed
  <1> QED BY <1>8, <1>9 DEF Informed, tp, cp

-----------------------------------------------------------------------------
(* The walk of setCriticality.                                             *)

(* The walk has passed gate g on all its qubits, or has not reached it on  *)
(* any.                                                                    *)
Seen(gs, cur, g) == \A q \in QubitsOf(gs[g]) : cur[q] < g
Ahead(gs, cur, g) == \A q \in QubitsOf(gs[g]) : cur[q] >= g

AreCursors(gs, cur) ==
    /\ cur \in [Qubits -> 0..Len(gs)]
    /\ \A q \in Qubits : cur[q] # NoGate => q \in QubitsOf(gs[cur[q]])
    /\ \A g \in 1..Len(gs) : Seen(gs, cur, g) \/ Ahead(gs, cur, g)

(* The length of the longest chain that begins with gate v.                *)
LengthOf(v) == v.criticality + v.optimisticLatency

(* The criticality of a gate is the largest length of its seen children.   *)
IsSeenChild(gs, cur, g, c) ==
    Seen(gs, cur, c) /\ \E q \in QubitsOf(gs[g]) : ChildOn(gs[g], q) = c

CriticalityOf(gs, cur, g) ==
    /\ \A c \in 1..Len(gs) :
          IsSeenChild(gs, cur, g, c) => LengthOf(gs[c]) <= gs[g].criticality
    /\ \/ gs[g].criticality = 0
       \/ \E c \in 1..Len(gs) : /\ IsSeenChild(gs, cur, g, c)
                                /\ LengthOf(gs[c]) = gs[g].criticality

(* The next two-qubit gate of a gate along its qubit q is right as soon as *)
(* its child along q has been seen. Until then it may be a gate further    *)
(* on, which shares q and has the gate as parent along another qubit.      *)
NextOn(v, q) == IF v.control = q THEN v.nextControlCNOT ELSE v.nextTargetCNOT

NextCNOTOf(gs, cur, g) ==
    /\ \A q \in QubitsOf(gs[g]) :
          LET c == ChildOn(gs[g], q)
          IN  c = NoGate \/ Seen(gs, cur, c) => IsNextCNOT(gs, g, q, NextOn(gs[g], q))
    /\ ~IsTwoQubit(gs[g]) => gs[g].nextControlCNOT = NoGate

(* The largest length of a gate that has been seen.                        *)
IsIdeal(gs, cur, ideal) ==
    /\ \A g \in 1..Len(gs) : Seen(gs, cur, g) => LengthOf(gs[g]) <= ideal
    /\ \/ ideal = 0
       \/ \E g \in 1..Len(gs) : Seen(gs, cur, g) /\ LengthOf(gs[g]) = ideal

IsFresh(v) == /\ v.criticality = 0
              /\ v.nextControlCNOT = NoGate /\ v.nextTargetCNOT = NoGate

WalkInv ==
    /\ phase = "build" =>
          /\ \A g \in Built : IsFresh(gates[g])
          /\ visiting = 0 /\ progress = FALSE /\ idealCycles = 0
    /\ phase \in {"crit", "done"} =>
          /\ AreCursors(gates, cursor)
          /\ \A g \in Built : CriticalityOf(gates, cursor, g)
                              /\ NextCNOTOf(gates, cursor, g)
          /\ IsIdeal(gates, cursor, idealCycles)
          /\ \A q \in Qubits : ~progress /\ q < visiting => cursor[q] = NoGate
    /\ phase = "done" => \A q \in Qubits : cursor[q] = NoGate

(* Parents and children are inverse to each other.                         *)
LEMMA ParentChild ==
    ASSUME NEW gs, Len(gs) \in Nat, IsGraph(gs),
           NEW g \in 1..Len(gs), NEW q \in QubitsOf(gs[g])
    PROVE  /\ ParentOn(gs[g], q) \in 0..g-1
           /\ ParentOn(gs[g], q) # NoGate =>
                 /\ ParentOn(gs[g], q) \in 1..Len(gs)
                 /\ q \in QubitsOf(gs[ParentOn(gs[g], q)])
                 /\ ChildOn(gs[ParentOn(gs[g], q)], q) = g
           /\ \A h \in 1..g-1 : q \in QubitsOf(gs[h]) => h <= ParentOn(gs[g], q)
           /\ ChildOn(gs[g], q) # NoGate =>
                 /\ ChildOn(gs[g], q) \in g+1..Len(gs)
                 /\ q \in QubitsOf(gs[ChildOn(gs[g], q)])
                 /\ ParentOn(gs[ChildOn(gs[g], q)], q) = g
           /\ \A h \in g+1..Len(gs) : q \in QubitsOf(gs[h]) =>
                 ChildOn(gs[g], q) # NoGate /\ ChildOn(gs[g], q) <= h
           /\ ChildOn(gs[g], q) = NoGate \/ ChildOn(gs[g], q) \in g+1..Len(gs)
  <1> DEFINE N == Len(gs)
             P(k) == ParentOn(gs[k], q)
             C(k) == ChildOn(gs[k], q)
             On(k) == q \in QubitsOf(gs[k])
  <1>1. \A k \in 1..N : On(k) =>
            /\ IsClosestBefore(gs, k, q, P(k))
            /\ IsClosestAfter(gs, k, q, C(k))
    BY DEF IsGraph
  <1>2. N \in Nat /\ g \in 1..N /\ On(g)
    OBVIOUS
  <1>3. \A k \in 1..N : On(k) =>
            /\ P(k) \in 0..k-1 /\ (P(k) # NoGate => P(k) \in 1..N /\ On(P(k)))
            /\ \A h \in P(k)+1..k-1 : ~On(h)
    <2> SUFFICES ASSUME NEW k \in 1..N, On(k)
                 PROVE  /\ P(k) \in 0..k-1 /\ (P(k) # NoGate => P(k) \in 1..N /\ On(P(k)))
                        /\ \A h \in P(k)+1..k-1 : ~On(h)
      OBVIOUS
    <2>1. IsClosestBefore(gs, k, q, P(k))
      BY <1>1
    <2> HIDE DEF P
    <2> QED BY <1>2, <2>1 DEF IsClosestBefore, NoGate
  <1>4. \A k \in 1..N : On(k) =>
            \/ C(k) = NoGate /\ \A h \in k+1..N : ~On(h)
            \/ C(k) \in k+1..N /\ On(C(k)) /\ \A h \in k+1..C(k)-1 : ~On(h)
    <2> SUFFICES ASSUME NEW k \in 1..N, On(k)
                 PROVE  \/ C(k) = NoGate /\ \A h \in k+1..N : ~On(h)
                        \/ C(k) \in k+1..N /\ On(C(k)) /\ \A h \in k+1..C(k)-1 : ~On(h)
      OBVIOUS
    <2>1. IsClosestAfter(gs, k, q, C(k))
      BY <1>1
    <2> HIDE DEF C
    <2> QED BY <1>2, <2>1 DEF IsClosestAfter, NoGate
  <1> HIDE DEF N, P, C, On
  <1>5. P(g) # NoGate => C(P(g)) = g
    <2> SUFFICES ASSUME P(g) # NoGate PROVE C(P(g)) = g
      OBVIOUS
    <2> DEFINE p == P(g)
    <2>1. p \in 1..g-1 /\ p \in 1..N /\ On(p) /\ \A h \in p+1..g-1 : ~On(h)
      BY <1>2, <1>3 DEF NoGate
    <2> HIDE DEF p
    <2>2. g \in p+1..N
      BY <1>2, <2>1
    <2>3. C(p) \in p+1..N /\ On(C(p)) /\ \A h \in p+1..C(p)-1 : ~On(h)
      BY <1>2, <1>4, <2>1, <2>2
    <2>4. ~(C(p) < g) /\ ~(g < C(p))
      BY <1>2, <2>1, <2>2, <2>3
    <2> QED BY <1>2, <2>3, <2>4 DEF p
  <1>6. C(g) # NoGate => P(C(g)) = g
    <2> SUFFICES ASSUME C(g) # NoGate PROVE P(C(g)) = g
      OBVIOUS
    <2> DEFINE c == C(g)
    <2>1. c \in g+1..N /\ c \in 1..N /\ On(c) /\ \A h \in g+1..c-1 : ~On(h)
      BY <1>2, <1>4
    <2> HIDE DEF c
    <2>2. P(c) \in 0..c-1 /\ (P(c) # NoGate => On(P(c))) /\ \A h \in P(c)+1..c-1 : ~On(h)
      BY <1>3, <2>1
    <2>3. ~(P(c) < g)
      BY <1>2, <2>1, <2>2
    <2>4. ~(g < P(c))
      BY <1>2, <2>1, <2>2 DEF NoGate
    <2> QED BY <1>2, <2>1, <2>2, <2>3, <2>4 DEF c
  <1>7. \A h \in 1..g-1 : On(h) => h <= P(g)
    BY <1>2, <1>3
  <1>8. \A h \in g+1..N : On(h) => C(g) # NoGate /\ C(g) <= h
    <2> SUFFICES ASSUME NEW h \in g+1..N, On(h) PROVE C(g) # NoGate /\ C(g) <= h
      OBVIOUS
    <2>1. C(g) \in g+1..N /\ \A k \in g+1..C(g)-1 : ~On(k)
      BY <1>2, <1>4
    <2> QED BY <1>2, <2>1 DEF NoGate
  <1>9. C(g) # NoGate => C(g) \in g+1..N /\ On(C(g))
    BY <1>2, <1>4
  <1>10. P(g) \in 0..g-1 /\ (P(g) # NoGate => P(g) \in 1..N /\ On(P(g)))
    BY <1>2, <1>3
  <1> QED BY <1>5, <1>6, <1>7, <1>8, <1>9, <1>10 DEF N, P, C, On

(* The visit of a gate that the walk has reached on all its qubits: r are  *)
(* the gates and nxt the cursors afterwards.                               *)
Parents(v) == {v.targetParent, v.controlParent}

IsVisit(gs, cur, g, r, nxt) ==
    /\ AreNodes(gs) /\ IsGraph(gs) /\ AreCursors(gs, cur)
    /\ g \in 1..Len(gs) /\ \A q \in QubitsOf(gs[g]) : cur[q] = g
    /\ r = VisitGate(gs, g, LengthOf(gs[g]))
    /\ nxt = [q \in Qubits |-> IF q \in QubitsOf(gs[g]) THEN ParentOn(gs[g], q)
                                                        ELSE cur[q]]

(* The parents that are informed are the parents along the gate's qubits.  *)
LEMMA ParentsAre ==
    ASSUME NEW gs, AreNodes(gs), NEW g \in 1..Len(gs), NEW p, p # NoGate
    PROVE  p \in Parents(gs[g]) <=> \E q \in QubitsOf(gs[g]) : ParentOn(gs[g], q) = p
  <1>1. /\ QubitsOf(gs[g]) =
              IF IsTwoQubit(gs[g]) THEN {gs[g].control, gs[g].target} ELSE {gs[g].target}
        /\ gs[g].control # gs[g].target
        /\ ~IsTwoQubit(gs[g]) => gs[g].controlParent = NoGate
    BY NodeQubits DEF AreNodes
  <1>2. CASE IsTwoQubit(gs[g])
    <2>1. /\ ParentOn(gs[g], gs[g].control) = gs[g].controlParent
          /\ ParentOn(gs[g], gs[g].target) = gs[g].targetParent
      BY <1>1 DEF ParentOn
    <2> QED BY <1>1, <1>2, <2>1 DEF Parents
  <1>3. CASE ~IsTwoQubit(gs[g])
    <2>1. ParentOn(gs[g], gs[g].target) = gs[g].targetParent
      BY <1>1 DEF ParentOn
    <2> QED BY <1>1, <1>3, <2>1 DEF Parents
  <1> QED BY <1>2, <1>3

(* They come before the gate, and the walk has not reached them.           *)
LEMMA ParentFacts ==
    ASSUME NEW gs, NEW cur, NEW g, NEW r, NEW nxt, IsVisit(gs, cur, g, r, nxt),
           NEW p \in 1..Len(gs), p \in Parents(gs[g])
    PROVE  p < g /\ ~Seen(gs, cur, p)
  <1>1. p # NoGate /\ Len(gs) \in Nat /\ g \in 1..Len(gs)
    BY DEF NoGate, IsVisit, AreNodes
  <1>2. PICK q \in QubitsOf(gs[g]) : ParentOn(gs[g], q) = p
    BY <1>1, ParentsAre DEF IsVisit
  <1>3. p \in 0..g-1 /\ q \in QubitsOf(gs[p])
    BY <1>1, <1>2, ParentChild DEF IsVisit
  <1>4. cur[q] = g
    BY DEF IsVisit
  <1>5. ~(cur[q] < p)
    BY <1>1, <1>3, <1>4
  <1> QED BY <1>1, <1>3, <1>5 DEF Seen

(* A visited gate and those it informs.                                    *)
LEMMA VisitInforms ==
    ASSUME NEW gs, NEW cur, NEW g, NEW r, NEW nxt, IsVisit(gs, cur, g, r, nxt)
    PROVE  /\ Len(gs) \in Nat /\ g \in 1..Len(gs) /\ Len(r) = Len(gs)
           /\ LengthOf(gs[g]) \in Nat
           /\ Informed(r, gs, Len(gs), g, LengthOf(gs[g]), Parents(gs[g]))
           /\ \A k \in 1..Len(gs) : SameShape(r[k], gs[k])
  <1>1. /\ Len(gs) \in Nat /\ gs \in Seq(GateNode(Len(gs))) /\ g \in 1..Len(gs)
        /\ gs[g] \in GateNode(Len(gs))
    BY DEF IsVisit, AreNodes
  <1>2. LengthOf(gs[g]) \in Nat
    <2>1. gs[g].criticality \in Nat /\ gs[g].optimisticLatency \in Nat
      BY <1>1 DEF GateNode
    <2> QED BY <2>1 DEF LengthOf
  <1>3. g # NoGate
    BY <1>1 DEF NoGate
  <1>4. g \notin Parents(gs[g])
    <2>1. \A p \in 1..Len(gs) : p \in Parents(gs[g]) => p < g
      BY ParentFacts
    <2> QED BY <1>1, <2>1
  <1>5. Informed(r, gs, Len(gs), g, LengthOf(gs[g]), Parents(gs[g]))
    <2>1. gs[g].targetParent # g /\ gs[g].controlParent # g
      BY <1>4 DEF Parents
    <2>2. r = VisitGate(gs, g, LengthOf(gs[g]))
      BY DEF IsVisit
    <2> DEFINE l == LengthOf(gs[g])
    <2> HIDE DEF l
    <2>3. l \in Nat /\ r = VisitGate(gs, g, l)
      BY <1>2, <2>2 DEF l
    <2>4. Informed(r, gs, Len(gs), g, l, {gs[g].targetParent, gs[g].controlParent})
      BY <1>1, <2>1, <2>3, VisitFields
    <2> QED BY <2>4 DEF l, Parents
  <1> QED BY <1>1, <1>2, <1>5 DEF Informed

(* The visited gate joins the gates that have been seen.                   *)
LEMMA VisitSeen ==
    ASSUME NEW gs, NEW cur, NEW g, NEW r, NEW nxt, IsVisit(gs, cur, g, r, nxt)
    PROVE  /\ AreCursors(r, nxt)
           /\ \A h \in 1..Len(gs) : Seen(r, nxt, h) <=> Seen(gs, cur, h) \/ h = g
  <1> DEFINE N == Len(gs)
             Q(h) == QubitsOf(gs[h])
             p(q) == ParentOn(gs[g], q)
  <1>1. N \in Nat /\ g \in 1..N /\ Len(r) = N /\ \A k \in 1..N : SameShape(r[k], gs[k])
    BY VisitInforms
  <1>2. /\ \A q \in Qubits : nxt[q] = IF q \in Q(g) THEN p(q) ELSE cur[q]
        /\ DOMAIN nxt = Qubits /\ nxt = [q \in Qubits |-> nxt[q]]
    BY DEF IsVisit
  <1>3. \A h \in 1..N : Q(h) \subseteq Qubits /\ Q(h) # {} /\ QubitsOf(r[h]) = Q(h)
    <2>1. \A h \in 1..N : QubitsOf(r[h]) = Q(h)
      BY <1>1 DEF SameShape, QubitsOf
    <2>2. \A h \in 1..N : Q(h) \subseteq Qubits /\ Q(h) # {}
      <3> SUFFICES ASSUME NEW h \in 1..N PROVE Q(h) \subseteq Qubits /\ Q(h) # {}
        OBVIOUS
      <3>1. AreNodes(gs)
        BY DEF IsVisit
      <3>2. /\ Q(h) = IF IsTwoQubit(gs[h]) THEN {gs[h].control, gs[h].target}
                                          ELSE {gs[h].target}
            /\ gs[h].target \in Qubits
            /\ IsTwoQubit(gs[h]) => gs[h].control \in Qubits
        BY <3>1, NodeQubits
      <3> QED BY <3>2
    <2> QED BY <2>1, <2>2
  <1>4. \A q \in Q(g) : /\ p(q) \in 0..g-1
                        /\ p(q) # NoGate => p(q) \in 1..N /\ q \in Q(p(q))
                        /\ \A h \in 1..g-1 : q \in Q(h) => h <= p(q)
    <2> SUFFICES ASSUME NEW q \in Q(g)
                 PROVE  /\ p(q) \in 0..g-1
                        /\ p(q) # NoGate => p(q) \in 1..N /\ q \in Q(p(q))
                        /\ \A h \in 1..g-1 : q \in Q(h) => h <= p(q)
      OBVIOUS
    <2>1. IsGraph(gs)
      BY DEF IsVisit
    <2> QED BY <1>1, <2>1, ParentChild
  <1>5. \A q \in Qubits : /\ cur[q] \in 0..N
                          /\ cur[q] # NoGate => q \in Q(cur[q])
                          /\ q \in Q(g) => cur[q] = g
    BY DEF IsVisit, AreCursors
  <1>6. \A h \in 1..N : Seen(gs, cur, h) \/ Ahead(gs, cur, h)
    BY DEF IsVisit, AreCursors
  <1> HIDE DEF N, Q, p
  <1>7. \A h \in 1..N : \A q \in Q(h) : h # g => (nxt[q] < h <=> cur[q] < h)
    <2> SUFFICES ASSUME NEW h \in 1..N, NEW q \in Q(h), h # g
                 PROVE  nxt[q] < h <=> cur[q] < h
      OBVIOUS
    <2>1. q \in Qubits
      BY <1>3
    <2>2. CASE q \in Q(g)
      <3>1. nxt[q] = p(q) /\ cur[q] = g /\ p(q) \in 0..g-1
        BY <1>2, <1>4, <1>5, <2>1, <2>2
      <3>2. CASE h < g
        <4>1. h \in 1..g-1
          BY <1>1, <3>2
        <4>2. h <= p(q)
          BY <1>4, <2>2, <4>1
        <4> QED BY <1>1, <3>1, <3>2, <4>2
      <3>3. CASE h > g
        BY <1>1, <3>1, <3>3
      <3> QED BY <1>1, <2>1, <3>2, <3>3
    <2>3. CASE q \notin Q(g)
      BY <1>2, <2>1, <2>3
    <2> QED BY <2>2, <2>3
  <1>8. \A q \in Q(g) : nxt[q] < g
    <2> SUFFICES ASSUME NEW q \in Q(g) PROVE nxt[q] < g
      OBVIOUS
    <2>1. nxt[q] = p(q) /\ p(q) \in 0..g-1
      BY <1>1, <1>2, <1>3, <1>4
    <2> QED BY <1>1, <2>1
  <1>9. \A h \in 1..N : Seen(r, nxt, h) <=> Seen(gs, cur, h) \/ h = g
    <2> SUFFICES ASSUME NEW h \in 1..N
                 PROVE  Seen(r, nxt, h) <=> Seen(gs, cur, h) \/ h = g
      OBVIOUS
    <2>1. /\ Seen(r, nxt, h) <=> \A q \in Q(h) : nxt[q] < h
          /\ Seen(gs, cur, h) <=> \A q \in Q(h) : cur[q] < h
      BY <1>3 DEF Seen, Q
    <2>2. CASE h = g
      BY <1>8, <2>1, <2>2
    <2>3. CASE h # g
      BY <1>7, <2>1, <2>3
    <2> QED BY <2>2, <2>3
  <1>10. \A q \in Qubits : nxt[q] \in 0..N /\ (nxt[q] # NoGate => q \in QubitsOf(r[nxt[q]]))
    <2> SUFFICES ASSUME NEW q \in Qubits
                 PROVE  nxt[q] \in 0..N /\ (nxt[q] # NoGate => q \in QubitsOf(r[nxt[q]]))
      OBVIOUS
    <2>1. nxt[q] \in 0..N /\ (nxt[q] # NoGate => nxt[q] \in 1..N /\ q \in Q(nxt[q]))
      <3>1. CASE q \in Q(g)
        BY <1>1, <1>2, <1>4, <3>1
      <3>2. CASE q \notin Q(g)
        BY <1>1, <1>2, <1>5, <3>2 DEF NoGate
      <3> QED BY <3>1, <3>2
    <2> QED BY <1>3, <2>1
  <1>11. \A h \in 1..N : Seen(r, nxt, h) \/ Ahead(r, nxt, h)
    <2> SUFFICES ASSUME NEW h \in 1..N, ~Seen(r, nxt, h)
                 PROVE  Ahead(r, nxt, h)
      OBVIOUS
    <2>1. h # g /\ Ahead(gs, cur, h)
      BY <1>6, <1>9
    <2>2. \A q \in Q(h) : cur[q] >= h
      BY <2>1 DEF Ahead, Q
    <2>3. \A q \in Q(h) : nxt[q] >= h
      <3> SUFFICES ASSUME NEW q \in Q(h) PROVE nxt[q] >= h
        OBVIOUS
      <3>1. nxt[q] \in Int /\ cur[q] \in Int /\ cur[q] >= h /\ (nxt[q] < h <=> cur[q] < h)
        BY <1>3, <1>5, <1>7, <1>10, <2>1, <2>2
      <3> QED BY <3>1
    <2> QED BY <1>3, <2>3 DEF Ahead
  <1>12. AreCursors(r, nxt)
    <2>1. nxt \in [Qubits -> 0..N]
      BY <1>2, <1>10
    <2> QED BY <1>1, <1>10, <1>11, <2>1 DEF AreCursors
  <1> QED BY <1>9, <1>12 DEF N
(* The gates whose child is the visited gate are those it informs; the     *)
(* length of a gate no longer changes once it has been seen.               *)
LEMMA VisitLengths ==
    ASSUME NEW gs, NEW cur, NEW g, NEW r, NEW nxt, IsVisit(gs, cur, g, r, nxt)
    PROVE  /\ \A h, c \in 1..Len(gs) :
                 IsSeenChild(r, nxt, h, c) <=> \/ IsSeenChild(gs, cur, h, c)
                                               \/ c = g /\ h \in Parents(gs[g])
           /\ \A c \in 1..Len(gs) : LengthOf(gs[c]) \in Nat
           /\ \A c \in 1..Len(gs) :
                 Seen(gs, cur, c) \/ c = g => LengthOf(r[c]) = LengthOf(gs[c])
  <1> DEFINE N == Len(gs)
  <1>1. /\ N \in Nat /\ g \in 1..N /\ Len(r) = N
        /\ Informed(r, gs, N, g, LengthOf(gs[g]), Parents(gs[g]))
        /\ \A k \in 1..N : SameShape(r[k], gs[k])
    BY VisitInforms
  <1>2. \A h \in 1..N : Seen(r, nxt, h) <=> Seen(gs, cur, h) \/ h = g
    BY VisitSeen
  <1>3. AreNodes(gs) /\ IsGraph(gs)
    BY DEF IsVisit
  <1>4. \A h \in 1..N : /\ QubitsOf(r[h]) = QubitsOf(gs[h])
                        /\ \A q : ChildOn(r[h], q) = ChildOn(gs[h], q)
    BY <1>1 DEF SameShape, QubitsOf, ChildOn
  <1>5. \A h \in 1..N : (\E q \in QubitsOf(gs[h]) : ChildOn(gs[h], q) = g)
                             <=> h \in Parents(gs[g])
    <2> SUFFICES ASSUME NEW h \in 1..N
                 PROVE  (\E q \in QubitsOf(gs[h]) : ChildOn(gs[h], q) = g)
                             <=> h \in Parents(gs[g])
      OBVIOUS
    <2>1. h # NoGate /\ g # NoGate
      BY <1>1 DEF NoGate
    <2>2. ASSUME NEW q \in QubitsOf(gs[h]), ChildOn(gs[h], q) = g
          PROVE  h \in Parents(gs[g])
      <3>1. q \in QubitsOf(gs[g]) /\ ParentOn(gs[g], q) = h
        BY <1>1, <1>3, <2>1, <2>2, ParentChild
      <3> QED BY <1>1, <1>3, <2>1, <3>1, ParentsAre
    <2>3. ASSUME h \in Parents(gs[g])
          PROVE  \E q \in QubitsOf(gs[h]) : ChildOn(gs[h], q) = g
      <3>0. h \in Parents(gs[g]) => \E q \in QubitsOf(gs[g]) : ParentOn(gs[g], q) = h
        <4> HIDE DEF N
        <4>1. g \in 1..Len(gs) /\ AreNodes(gs) /\ h # NoGate
          BY <1>1, <1>3, <2>1 DEF N
        <4> QED BY <4>1, ParentsAre
      <3>1. PICK q \in QubitsOf(gs[g]) : ParentOn(gs[g], q) = h
        BY <2>3, <3>0
      <3>2. q \in QubitsOf(gs[h]) /\ ChildOn(gs[h], q) = g
        BY <1>1, <1>3, <2>1, <3>1, ParentChild
      <3> QED BY <3>2
    <2> QED BY <2>2, <2>3
  <1>6. \A h, c \in 1..N :
            IsSeenChild(r, nxt, h, c) <=> \/ IsSeenChild(gs, cur, h, c)
                                          \/ c = g /\ h \in Parents(gs[g])
    <2> SUFFICES ASSUME NEW h \in 1..N, NEW c \in 1..N
                 PROVE  IsSeenChild(r, nxt, h, c) <=>
                              \/ IsSeenChild(gs, cur, h, c)
                              \/ c = g /\ h \in Parents(gs[g])
      OBVIOUS
    <2>1. IsSeenChild(r, nxt, h, c) <=>
            /\ Seen(gs, cur, c) \/ c = g
            /\ \E q \in QubitsOf(gs[h]) : ChildOn(gs[h], q) = c
      BY <1>2, <1>4 DEF IsSeenChild
    <2> QED BY <1>5, <2>1 DEF IsSeenChild
  <1>7. \A c \in 1..N : LengthOf(gs[c]) \in Nat
    <2> SUFFICES ASSUME NEW c \in 1..N PROVE LengthOf(gs[c]) \in Nat
      OBVIOUS
    <2>1. gs[c] \in GateNode(N)
      BY <1>3 DEF AreNodes
    <2>2. gs[c].criticality \in Nat /\ gs[c].optimisticLatency \in Nat
      BY <2>1 DEF GateNode
    <2> QED BY <2>2 DEF LengthOf
  <1>8. \A c \in 1..N : Seen(gs, cur, c) \/ c = g => LengthOf(r[c]) = LengthOf(gs[c])
    <2> SUFFICES ASSUME NEW c \in 1..N, Seen(gs, cur, c) \/ c = g
                 PROVE  LengthOf(r[c]) = LengthOf(gs[c])
      OBVIOUS
    <2>1. c \notin Parents(gs[g])
      <3>1. c \in Parents(gs[g]) => c < g /\ ~Seen(gs, cur, c)
        BY ParentFacts
      <3> QED BY <1>1, <3>1
    <2> QED BY <1>1, <2>1 DEF Informed, LengthOf
  <1> QED BY <1>6, <1>7, <1>8

(* The visit keeps the criticality of every gate the largest length of its *)
(* seen children.                                                          *)
LEMMA VisitCriticality ==
    ASSUME NEW gs, NEW cur, NEW g, NEW r, NEW nxt, IsVisit(gs, cur, g, r, nxt),
           \A h \in 1..Len(gs) : CriticalityOf(gs, cur, h)
    PROVE  \A h \in 1..Len(gs) : CriticalityOf(r, nxt, h)
  <1> DEFINE N == Len(gs)
             L(h) == LengthOf(gs[h])
             ps == Parents(gs[g])
  <1>1. /\ N \in Nat /\ g \in 1..N /\ Len(r) = N
        /\ Informed(r, gs, N, g, L(g), ps)
    BY VisitInforms
  <1>2. /\ \A h, c \in 1..N :
              IsSeenChild(r, nxt, h, c) <=> IsSeenChild(gs, cur, h, c) \/ (c = g /\ h \in ps)
        /\ \A c \in 1..N : L(c) \in Nat
        /\ \A c \in 1..N : Seen(gs, cur, c) \/ c = g => LengthOf(r[c]) = L(c)
    BY VisitLengths
  <1>3. \A h \in 1..N : gs[h].criticality \in Nat
    <2> SUFFICES ASSUME NEW h \in 1..N PROVE gs[h].criticality \in Nat
      OBVIOUS
    <2>1. gs[h] \in GateNode(N)
      BY DEF IsVisit, AreNodes
    <2> QED BY <2>1 DEF GateNode
  <1>4. \A h \in 1..N : r[h].criticality = IF h \in ps /\ L(g) > gs[h].criticality
                                            THEN L(g) ELSE gs[h].criticality
    BY <1>1 DEF Informed, Longer
  <1>5. \A h, c \in 1..N : IsSeenChild(gs, cur, h, c) => Seen(gs, cur, c)
    BY DEF IsSeenChild
  <1> SUFFICES ASSUME NEW h \in 1..N PROVE CriticalityOf(r, nxt, h)
    OBVIOUS
  <1>6. /\ \A c \in 1..N : IsSeenChild(gs, cur, h, c) => L(c) <= gs[h].criticality
        /\ \/ gs[h].criticality = 0
           \/ \E c \in 1..N : IsSeenChild(gs, cur, h, c) /\ L(c) = gs[h].criticality
    BY DEF CriticalityOf
  <1> HIDE DEF N, L, ps
  <1>9. /\ r[h].criticality \in Nat /\ gs[h].criticality \in Nat
        /\ gs[h].criticality <= r[h].criticality
        /\ h \in ps => L(g) <= r[h].criticality
    <2>1. L(g) \in Nat /\ gs[h].criticality \in Nat
      BY <1>1, <1>2, <1>3
    <2>2. CASE h \in ps /\ L(g) > gs[h].criticality
      <3>1. r[h].criticality = L(g)
        BY <1>4, <2>2
      <3> QED BY <2>1, <2>2, <3>1
    <2>3. CASE ~(h \in ps /\ L(g) > gs[h].criticality)
      <3>1. r[h].criticality = gs[h].criticality
        BY <1>4, <2>3
      <3> QED BY <2>1, <2>3, <3>1
    <2> QED BY <2>2, <2>3
  <1>7. \A c \in 1..N : IsSeenChild(r, nxt, h, c) => LengthOf(r[c]) <= r[h].criticality
    <2> SUFFICES ASSUME NEW c \in 1..N, IsSeenChild(r, nxt, h, c)
                 PROVE  LengthOf(r[c]) <= r[h].criticality
      OBVIOUS
    <2>1. CASE IsSeenChild(gs, cur, h, c)
      <3>1. LengthOf(r[c]) = L(c) /\ L(c) <= gs[h].criticality
        BY <1>2, <1>5, <1>6, <2>1
      <3>2. L(c) \in Nat
        BY <1>2
      <3> QED BY <1>9, <3>1, <3>2
    <2>2. CASE c = g /\ h \in ps
      <3>1. LengthOf(r[c]) = L(g)
        BY <1>2, <2>2
      <3> QED BY <1>9, <2>2, <3>1
    <2> QED BY <1>2, <2>1, <2>2
  <1>8. \/ r[h].criticality = 0
        \/ \E c \in 1..N : IsSeenChild(r, nxt, h, c) /\ LengthOf(r[c]) = r[h].criticality
    <2>1. CASE h \in ps /\ L(g) > gs[h].criticality
      BY <1>1, <1>2, <1>4, <2>1
    <2>2. CASE ~(h \in ps /\ L(g) > gs[h].criticality)
      <3>1. r[h].criticality = gs[h].criticality
        BY <1>4, <2>2
      <3>2. CASE gs[h].criticality = 0
        BY <3>1, <3>2
      <3>3. CASE gs[h].criticality # 0
        <4>1. PICK c \in 1..N : IsSeenChild(gs, cur, h, c) /\ L(c) = gs[h].criticality
          BY <1>6, <3>3
        <4> QED BY <1>2, <1>5, <3>1, <4>1
      <3> QED BY <3>2, <3>3
    <2> QED BY <2>1, <2>2
  <1> QED BY <1>1, <1>7, <1>8 DEF CriticalityOf, N

(* It makes the length of the longest gate seen the ideal number of cycles.*)
LEMMA VisitIdeal ==
    ASSUME NEW gs, NEW cur, NEW g, NEW r, NEW nxt, IsVisit(gs, cur, g, r, nxt),
           NEW ideal \in Nat, IsIdeal(gs, cur, ideal)
    PROVE  IsIdeal(r, nxt, Longer(ideal, LengthOf(gs[g])))
  <1> DEFINE N == Len(gs)
             L(h) == LengthOf(gs[h])
             new == Longer(ideal, L(g))
  <1>1. N \in Nat /\ g \in 1..N /\ Len(r) = N
    BY VisitInforms
  <1>2. /\ \A c \in 1..N : L(c) \in Nat
        /\ \A c \in 1..N : Seen(gs, cur, c) \/ c = g => LengthOf(r[c]) = L(c)
    BY VisitLengths
  <1>3. \A h \in 1..N : Seen(r, nxt, h) <=> Seen(gs, cur, h) \/ h = g
    BY VisitSeen
  <1>4. /\ \A h \in 1..N : Seen(gs, cur, h) => L(h) <= ideal
        /\ \/ ideal = 0
           \/ \E h \in 1..N : Seen(gs, cur, h) /\ L(h) = ideal
    BY DEF IsIdeal
  <1> HIDE DEF N, L
  <1>5. new = IF L(g) > ideal THEN L(g) ELSE ideal
    BY DEF Longer
  <1> HIDE DEF new
  <1>6. \A h \in 1..N : Seen(r, nxt, h) => LengthOf(r[h]) <= new
    BY <1>1, <1>2, <1>3, <1>4, <1>5
  <1>7. new = 0 \/ \E h \in 1..N : Seen(r, nxt, h) /\ LengthOf(r[h]) = new
    <2>1. CASE L(g) > ideal
      BY <1>1, <1>2, <1>3, <1>5, <2>1
    <2>2. CASE ~(L(g) > ideal)
      BY <1>2, <1>3, <1>4, <1>5, <2>2
    <2> QED BY <2>1, <2>2
  <1> QED BY <1>1, <1>6, <1>7 DEF IsIdeal, N, L, new

(* The next two-qubit gate of a gate whose child is not one is that of the *)
(* child.                                                                  *)
LEMMA NextBehind ==
    ASSUME NEW gs, Len(gs) \in Nat, NEW q,
           NEW h \in 1..Len(gs), NEW g \in h+1..Len(gs), NEW cx,
           \A k \in h+1..g-1 : q \notin QubitsOf(gs[k]),
           \/ IsTwoQubit(gs[g]) /\ q \in QubitsOf(gs[g]) /\ cx = g
           \/ ~IsTwoQubit(gs[g]) /\ IsNextCNOT(gs, g, q, cx)
    PROVE  IsNextCNOT(gs, h, q, cx)
  <1>1. CASE IsTwoQubit(gs[g]) /\ q \in QubitsOf(gs[g]) /\ cx = g
    BY <1>1 DEF IsNextCNOT
  <1>2. CASE ~IsTwoQubit(gs[g]) /\ IsNextCNOT(gs, g, q, cx)
    <2>1. \A k \in h+1..g : IsTwoQubit(gs[k]) => q \notin QubitsOf(gs[k])
      BY <1>2
    <2>2. CASE /\ cx = NoGate
               /\ \A k \in g+1..Len(gs) : IsTwoQubit(gs[k]) => q \notin QubitsOf(gs[k])
      <3>1. \A k \in h+1..Len(gs) : k \in h+1..g \/ k \in g+1..Len(gs)
        OBVIOUS
      <3> QED BY <2>1, <2>2, <3>1 DEF IsNextCNOT
    <2>3. CASE /\ cx \in g+1..Len(gs)
               /\ IsTwoQubit(gs[cx]) /\ q \in QubitsOf(gs[cx])
               /\ \A k \in g+1..cx-1 : IsTwoQubit(gs[k]) => q \notin QubitsOf(gs[k])
      <3>1. cx \in h+1..Len(gs) /\ \A k \in h+1..cx-1 : k \in h+1..g \/ k \in g+1..cx-1
        BY <2>3
      <3> QED BY <2>1, <2>3, <3>1 DEF IsNextCNOT
    <2> QED BY <1>2, <2>2, <2>3 DEF IsNextCNOT
  <1> QED BY <1>1, <1>2

(* What is next on a qubit depends on the qubits of the gates only.        *)
LEMMA SameNextCNOT ==
    ASSUME NEW gs, Len(gs) \in Nat, NEW hs, Len(hs) = Len(gs),
           \A k \in 1..Len(gs) : /\ QubitsOf(hs[k]) = QubitsOf(gs[k])
                                 /\ IsTwoQubit(hs[k]) <=> IsTwoQubit(gs[k]),
           NEW g \in 0..Len(gs), NEW q, NEW h, IsNextCNOT(gs, g, q, h)
    PROVE  IsNextCNOT(hs, g, q, h)
  <1>1. \A k \in g+1..Len(gs) : k \in 1..Len(gs)
    OBVIOUS
  <1>2. CASE /\ h = NoGate
             /\ \A k \in g+1..Len(gs) : IsTwoQubit(gs[k]) => q \notin QubitsOf(gs[k])
    BY <1>1, <1>2 DEF IsNextCNOT
  <1>3. CASE /\ h \in g+1..Len(gs)
             /\ IsTwoQubit(gs[h]) /\ q \in QubitsOf(gs[h])
             /\ \A k \in g+1..h-1 : IsTwoQubit(gs[k]) => q \notin QubitsOf(gs[k])
    <2>1. \A k \in g+1..h-1 : k \in 1..Len(gs)
      BY <1>3
    <2> QED BY <1>1, <1>3, <2>1 DEF IsNextCNOT
  <1> QED BY <1>2, <1>3 DEF IsNextCNOT

(* A gate that is informed along qubit q by its child is told the next     *)
(* two-qubit gate, and nothing changes along the other qubits.             *)
LEMMA VisitNextOn ==
    ASSUME NEW gs, NEW cur, NEW g, NEW r, NEW nxt, IsVisit(gs, cur, g, r, nxt),
           NEW h \in 1..Len(gs), NEW q \in QubitsOf(gs[h])
    PROVE  /\ h \in Parents(gs[g]) /\ q \in QubitsOf(gs[g]) =>
                 NextOn(r[h], q) = NextCX(gs, g)
           /\ ~(h \in Parents(gs[g]) /\ q \in QubitsOf(gs[g])) =>
                 NextOn(r[h], q) = NextOn(gs[h], q)
           /\ ~IsTwoQubit(gs[h]) => r[h].nextControlCNOT = gs[h].nextControlCNOT
  <1>1. Informed(r, gs, Len(gs), g, LengthOf(gs[g]), Parents(gs[g]))
    BY VisitInforms
  <1>2. AreNodes(gs)
    BY DEF IsVisit
  <1>3. /\ QubitsOf(gs[h]) =
              IF IsTwoQubit(gs[h]) THEN {gs[h].control, gs[h].target} ELSE {gs[h].target}
        /\ ~IsTwoQubit(gs[h]) => gs[h].control = -1
    BY <1>2, NodeQubits
  <1>4. /\ r[h].control = gs[h].control /\ r[h].target = gs[h].target
        /\ r[h].nextTargetCNOT =
              IF h \in Parents(gs[g]) /\ gs[h].target \in QubitsOf(gs[g])
              THEN NextCX(gs, g) ELSE gs[h].nextTargetCNOT
        /\ r[h].nextControlCNOT =
              IF h \in Parents(gs[g]) /\ gs[h].control \in QubitsOf(gs[g])
              THEN NextCX(gs, g) ELSE gs[h].nextControlCNOT
    BY <1>1 DEF Informed, SameShape
  <1>5. -1 \notin QubitsOf(gs[g])
    BY DEF QubitsOf
  <1>6. CASE q = gs[h].control
    BY <1>3, <1>4, <1>5, <1>6 DEF NextOn
  <1>7. CASE q # gs[h].control
    <2>1. q = gs[h].target
      BY <1>3, <1>7
    <2> QED BY <1>3, <1>4, <1>5, <1>7, <2>1 DEF NextOn
  <1> QED BY <1>6, <1>7

(* The visit keeps the next two-qubit gates right, and corrects those that *)
(* a gate further on had given to a parent of the visited one.             *)
LEMMA VisitNextCNOT ==
    ASSUME NEW gs, NEW cur, NEW g, NEW r, NEW nxt, IsVisit(gs, cur, g, r, nxt),
           \A h \in 1..Len(gs) : NextCNOTOf(gs, cur, h)
    PROVE  \A h \in 1..Len(gs) : NextCNOTOf(r, nxt, h)
  <1> DEFINE N == Len(gs)
             Q(k) == QubitsOf(gs[k])
             C(k, q) == ChildOn(gs[k], q)
  <1>1. /\ N \in Nat /\ g \in 1..N /\ Len(r) = N
        /\ \A k \in 1..N : SameShape(r[k], gs[k])
    BY VisitInforms
  <1>2. /\ AreNodes(gs) /\ IsGraph(gs)
        /\ \A q \in Q(g) : cur[q] = g
        /\ \A k \in 1..N : Seen(gs, cur, k) \/ Ahead(gs, cur, k)
    BY DEF IsVisit, AreCursors
  <1>3. \A k \in 1..N : Seen(r, nxt, k) <=> Seen(gs, cur, k) \/ k = g
    BY VisitSeen
  <1>4. \A k \in 1..N : /\ QubitsOf(r[k]) = Q(k)
                        /\ IsTwoQubit(r[k]) <=> IsTwoQubit(gs[k])
                        /\ \A q : ChildOn(r[k], q) = C(k, q)
    BY <1>1 DEF SameShape, QubitsOf, ChildOn, IsTwoQubit
  <1> SUFFICES ASSUME NEW h \in 1..N PROVE NextCNOTOf(r, nxt, h)
    OBVIOUS
  <1>5. ASSUME NEW q \in Q(h), C(h, q) = NoGate \/ Seen(r, nxt, C(h, q))
        PROVE  IsNextCNOT(r, h, q, NextOn(r[h], q))
    <2>1. /\ C(h, q) = NoGate \/ C(h, q) \in h+1..N
          /\ C(h, q) # NoGate => q \in Q(C(h, q)) /\ ParentOn(gs[C(h, q)], q) = h
          /\ \A k \in h+1..N : q \in Q(k) => C(h, q) # NoGate /\ C(h, q) <= k
      BY <1>1, <1>2, ParentChild
    <2>2. IsNextCNOT(gs, h, q, NextOn(r[h], q))
      <3>1. CASE C(h, q) = g
        <4>1. g # NoGate /\ h # NoGate
          BY <1>1 DEF NoGate
        <4>2. g \in h+1..N /\ q \in Q(g) /\ ParentOn(gs[g], q) = h
          BY <2>1, <3>1, <4>1
        <4>3. h \in Parents(gs[g])
          BY <1>1, <1>2, <4>1, <4>2, ParentsAre
        <4>4. NextOn(r[h], q) = NextCX(gs, g)
          BY <4>2, <4>3, VisitNextOn
        <4>5. \A k \in h+1..g-1 : q \notin Q(k)
          <5> SUFFICES ASSUME NEW k \in h+1..g-1, q \in Q(k) PROVE FALSE
            OBVIOUS
          <5>1. k \in h+1..N /\ k \in Int /\ g \in Int /\ k < g
            BY <1>1
          <5>2. C(h, q) <= k
            BY <2>1, <5>1
          <5> QED BY <3>1, <5>1, <5>2
        <4>6. CASE IsTwoQubit(gs[g])
          <5>1. NextCX(gs, g) = g
            BY <4>6 DEF NextCX
          <5> QED BY <1>1, <4>2, <4>4, <4>5, <4>6, <5>1, NextBehind
        <4>7. CASE ~IsTwoQubit(gs[g])
          <5> DEFINE d == C(g, q)
          <5>1. Q(g) = {gs[g].target} /\ gs[g].control = -1 /\ -1 \notin Qubits
                /\ Q(g) \subseteq Qubits
            BY <1>1, <1>2, <4>7, NodeQubits
          <5>2. NextCX(gs, g) = NextOn(gs[g], q)
            BY <4>2, <4>7, <5>1 DEF NextCX, NextOn
          <5>3. d = NoGate \/ (d \in g+1..N /\ q \in Q(d))
            BY <1>1, <1>2, <4>2, ParentChild
          <5>4. d = NoGate \/ Seen(gs, cur, d)
            <6> SUFFICES ASSUME d # NoGate PROVE Seen(gs, cur, d)
              OBVIOUS
            <6>1. d \in 1..N /\ d \in g+1..N /\ q \in Q(d) /\ cur[q] = g
              BY <1>1, <1>2, <4>2, <5>3
            <6> HIDE DEF d
            <6>2. ~(cur[q] >= d)
              BY <1>1, <6>1
            <6>3. ~Ahead(gs, cur, d)
              BY <6>1, <6>2 DEF Ahead
            <6> QED BY <1>2, <6>1, <6>3
          <5>5. IsNextCNOT(gs, g, q, NextOn(gs[g], q))
            <6>1. NextCNOTOf(gs, cur, g)
              BY <1>1
            <6> QED BY <4>2, <5>4, <6>1 DEF NextCNOTOf
          <5> QED BY <1>1, <4>2, <4>4, <4>5, <4>7, <5>2, <5>5, NextBehind
        <4> QED BY <4>6, <4>7
      <3>2. CASE C(h, q) # g
        <4>1. C(h, q) = NoGate \/ Seen(gs, cur, C(h, q))
          <5>1. CASE C(h, q) = NoGate
            BY <5>1
          <5>2. CASE C(h, q) # NoGate
            <6>1. C(h, q) \in 1..N /\ Seen(r, nxt, C(h, q))
              BY <1>1, <1>5, <2>1, <5>2
            <6> QED BY <1>3, <3>2, <6>1
          <5> QED BY <5>1, <5>2
        <4>2. IsNextCNOT(gs, h, q, NextOn(gs[h], q))
          <5>1. NextCNOTOf(gs, cur, h)
            OBVIOUS
          <5> QED BY <4>1, <5>1 DEF NextCNOTOf
        <4>3. ~(h \in Parents(gs[g]) /\ q \in Q(g))
          <5> SUFFICES ASSUME h \in Parents(gs[g]), q \in Q(g) PROVE FALSE
            OBVIOUS
          <5> DEFINE c == C(h, q)
          <5>1. h < g
            BY ParentFacts
          <5>2. g \in h+1..N
            BY <1>1, <5>1
          <5>3. c # NoGate /\ c <= g
            BY <2>1, <5>2
          <5>4. c \in h+1..N /\ q \in Q(c) /\ Seen(gs, cur, c)
            BY <2>1, <4>1, <5>3
          <5>5. c # g
            BY <3>2
          <5> HIDE DEF c
          <5>6. cur[q] < c /\ cur[q] = g
            BY <1>2, <5>4 DEF Seen
          <5> QED BY <1>1, <5>3, <5>4, <5>5, <5>6
        <4>4. NextOn(r[h], q) = NextOn(gs[h], q)
          BY <4>3, VisitNextOn
        <4> QED BY <4>2, <4>4
      <3> QED BY <3>1, <3>2
    <2>3. h \in 0..N
      BY <1>1
    <2> QED BY <1>1, <1>4, <2>2, <2>3, SameNextCNOT
  <1>6. ~IsTwoQubit(r[h]) => r[h].nextControlCNOT = NoGate
    <2> SUFFICES ASSUME ~IsTwoQubit(gs[h]) PROVE r[h].nextControlCNOT = NoGate
      BY <1>4
    <2>1. PICK q \in Q(h) : TRUE
      BY <1>2, NodeQubits
    <2>2. r[h].nextControlCNOT = gs[h].nextControlCNOT
      BY <2>1, VisitNextOn
    <2>3. NextCNOTOf(gs, cur, h)
      OBVIOUS
    <2> QED BY <2>2, <2>3 DEF NextCNOTOf
  <1> QED BY <1>4, <1>5, <1>6 DEF NextCNOTOf

-----------------------------------------------------------------------------
(* The invariant is inductive.                                             *)
DependencyGraphInv == GraphInv /\ WalkTyped /\ WalkInv

(* The gates that are added know nothing of what is below them.            *)
LEMMA WalkAddGate ==
    DependencyGraphInv /\ AddGate => WalkInv'
  <1> SUFFICES ASSUME GraphInv, WalkTyped, WalkInv, AddGate PROVE WalkInv'
    BY DEF DependencyGraphInv
  <1> DEFINE v == Len(gates) + 1
             op == program[v]
             r == AppendGate(gates, lastGatePerQubit, op)
  <1>1. /\ program \in Programs /\ AreNodes(gates) /\ Len(gates) \in Nat
        /\ Len(gates) < Len(program) /\ phase = "build"
        /\ AreLast(gates, lastGatePerQubit)
    BY DEF GraphInv, AddGate, AreNodes
  <1>2. /\ op \in GateOp /\ (op.target = -1 => op.control = -1)
        /\ op.control # op.target
    <2>1. Len(program) \in Nat
      BY <1>1, ProgramFacts
    <2>2. v \in 1..Len(program)
      BY <1>1, <2>1
    <2> QED BY <1>1, <2>1, <2>2, ProgramFacts DEF AddGate
  <1>3. /\ gates' = r /\ phase' = "build"
        /\ visiting' = visiting /\ progress' = progress /\ idealCycles' = idealCycles
    BY <1>1, Zenon DEF AddGate, AppendGate, ControlParent, critVars
  <1> HIDE DEF op, r
  <1>4. /\ Len(r) = v /\ v \in Nat
        /\ \A g \in 1..v-1 : SameButChildren(r[g], gates[g])
        /\ r[v] = NewGateNode(op, ControlParent(lastGatePerQubit, op),
                              lastGatePerQubit[op.target])
    <2> HIDE DEF v
    <2>1. v = Len(gates) + 1
      BY DEF v
    <2> QED BY <1>1, <1>2, <2>1, AppendGatePointers DEF r
  <1>5. \A g \in 1..v-1 : IsFresh(r[g])
    <2>1. \A g \in 1..v-1 : IsFresh(gates[g])
      BY <1>1 DEF WalkInv, Built
    <2> QED BY <1>4, <2>1 DEF IsFresh, SameButChildren
  <1>6. IsFresh(r[v])
    BY <1>4 DEF IsFresh, NewGateNode
  <1>7. \A g \in Built' : IsFresh(gates[g])'
    <2>1. \A g \in 1..v : IsFresh(r[g])
      <3>1. \A g \in 1..v : g \in 1..v-1 \/ g = v
        BY <1>4
      <3> QED BY <1>5, <1>6, <3>1
    <2> QED BY <1>3, <1>4, <2>1 DEF Built, IsFresh
  <1>8. visiting = 0 /\ progress = FALSE /\ idealCycles = 0
    BY <1>1 DEF WalkInv
  <1> QED BY <1>3, <1>7, <1>8 DEF WalkInv

(* A refused gate ends the run.                                            *)
LEMMA GraphRejectGate ==
    DependencyGraphInv /\ RejectGate => DependencyGraphInv'
  BY DEF DependencyGraphInv, GraphInv, WalkTyped, WalkInv, RejectGate, buildVars, critVars,
         Built

(* The walk begins at the last gate of every qubit, ahead of all gates.    *)
LEMMA GraphStartCriticality ==
    DependencyGraphInv /\ StartCriticality => DependencyGraphInv'
  <1> SUFFICES ASSUME GraphInv, WalkTyped, WalkInv, StartCriticality
               PROVE  DependencyGraphInv'
    BY DEF DependencyGraphInv
  <1> DEFINE N == Len(gates)
             nxt == [q \in Qubits |-> IF q < numQubits THEN lastGatePerQubit[q] ELSE NoGate]
             Q(g) == QubitsOf(gates[g])
  <1>1. /\ phase = "build" /\ phase' = "crit" /\ N = Len(program) /\ cursor' = nxt
        /\ UNCHANGED <<program, gates, lastGatePerQubit, firstGates, firstCXPerQubit,
                       numQubits, visiting, progress, idealCycles>>
    BY DEF StartCriticality, buildVars
  <1>2. /\ N \in Nat /\ AreNodes(gates) /\ IsGraph(gates)
        /\ AreLast(gates, lastGatePerQubit)
        /\ \A g \in 1..N : Q(g) \subseteq 0..numQubits-1
        /\ numQubits \in 0..MaxQubits /\ MaxQubits \in Nat
    <2>1. MaxQubits \in Nat
      BY ProgramsAssumption
    <2>2. AreNodes(gates) /\ N \in Nat
      BY DEF GraphInv, AreNodes
    <2>3. /\ IsGraph(gates) /\ AreLast(gates, lastGatePerQubit)
          /\ \A g \in 1..N : Q(g) \subseteq 0..numQubits-1
          /\ numQubits \in 0..MaxQubits
      BY DEF GraphInv, Built
    <2> QED BY <2>1, <2>2, <2>3
  <1>3. /\ \A g \in 1..N : IsFresh(gates[g])
        /\ visiting = 0 /\ progress = FALSE /\ idealCycles = 0
    BY <1>1 DEF WalkInv, Built
  <1>4. \A g \in 1..N : Q(g) # {} /\ Q(g) \subseteq Qubits
    <2> SUFFICES ASSUME NEW g \in 1..N PROVE Q(g) # {} /\ Q(g) \subseteq Qubits
      OBVIOUS
    <2>1. Q(g) = IF IsTwoQubit(gates[g]) THEN {gates[g].control, gates[g].target}
                                         ELSE {gates[g].target}
      BY <1>2, NodeQubits
    <2>2. Q(g) \subseteq Qubits
      BY <1>2, NodeQubits
    <2> QED BY <2>1, <2>2
  <1>5. \A q \in Qubits :
            /\ lastGatePerQubit[q] \in 0..N
            /\ lastGatePerQubit[q] # NoGate => q \in Q(lastGatePerQubit[q])
            /\ \A k \in lastGatePerQubit[q]+1..N : q \notin Q(k)
    <2> SUFFICES ASSUME NEW q \in Qubits
                 PROVE  /\ lastGatePerQubit[q] \in 0..N
                        /\ lastGatePerQubit[q] # NoGate => q \in Q(lastGatePerQubit[q])
                        /\ \A k \in lastGatePerQubit[q]+1..N : q \notin Q(k)
      OBVIOUS
    <2>1. /\ lastGatePerQubit[q] \in 0..N
          /\ lastGatePerQubit[q] # NoGate =>
                q \in {gates[lastGatePerQubit[q]].control, gates[lastGatePerQubit[q]].target}
          /\ \A k \in lastGatePerQubit[q]+1..N : q \notin Q(k)
      BY <1>2, LastUses
    <2>2. q # -1
      BY <1>2 DEF Qubits
    <2> QED BY <2>1, <2>2 DEF QubitsOf
  <1>6. \A g \in 1..N : \A q \in Q(g) : nxt[q] \in 0..N /\ nxt[q] >= g
    <2> SUFFICES ASSUME NEW g \in 1..N, NEW q \in Q(g)
                 PROVE  nxt[q] \in 0..N /\ nxt[q] >= g
      OBVIOUS
    <2>1. q \in Qubits /\ q \in 0..numQubits-1
      BY <1>2, <1>4
    <2>2. q < numQubits
      BY <1>2, <2>1
    <2>3. nxt[q] = lastGatePerQubit[q] /\ lastGatePerQubit[q] \in 0..N
      BY <1>5, <2>1, <2>2
    <2>4. g \notin lastGatePerQubit[q]+1..N
      BY <1>5, <2>1
    <2> QED BY <1>2, <2>3, <2>4
  <1>7. \A g \in 1..N : Ahead(gates, nxt, g) /\ ~Seen(gates, nxt, g)
    <2> SUFFICES ASSUME NEW g \in 1..N PROVE Ahead(gates, nxt, g) /\ ~Seen(gates, nxt, g)
      OBVIOUS
    <2>1. \A q \in Q(g) : nxt[q] >= g /\ ~(nxt[q] < g)
      <3> HIDE DEF nxt, Q, N
      <3> QED BY <1>2, <1>6
    <2>2. PICK q \in Q(g) : TRUE
      BY <1>4
    <2> HIDE DEF nxt
    <2> QED BY <2>1, <2>2 DEF Ahead, Seen
  <1>8. AreCursors(gates, nxt)
    <2>1. NoGate \in 0..N
      BY <1>2 DEF NoGate
    <2>2. nxt \in [Qubits -> 0..N]
      BY <1>5, <2>1
    <2>3. \A q \in Qubits : nxt[q] # NoGate => q \in Q(nxt[q])
      BY <1>5
    <2> HIDE DEF nxt
    <2> QED BY <1>7, <2>2, <2>3 DEF AreCursors
  <1> HIDE DEF nxt
  <1>9. \A g, c \in 1..N : ~IsSeenChild(gates, nxt, g, c)
    BY <1>7 DEF IsSeenChild
  <1>10. ASSUME NEW g \in 1..N
         PROVE  CriticalityOf(gates, nxt, g) /\ NextCNOTOf(gates, nxt, g)
    <2>1. IsFresh(gates[g])
      BY <1>3
    <2>2. CriticalityOf(gates, nxt, g)
      BY <1>9, <2>1 DEF CriticalityOf, IsFresh
    <2>3. ASSUME NEW q \in Q(g), ChildOn(gates[g], q) = NoGate
                                 \/ Seen(gates, nxt, ChildOn(gates[g], q))
          PROVE  IsNextCNOT(gates, g, q, NextOn(gates[g], q))
      <3>1. ChildOn(gates[g], q) = NoGate
        <4>1. ChildOn(gates[g], q) = NoGate \/ ChildOn(gates[g], q) \in 1..N
          <5>1. ChildOn(gates[g], q) = NoGate \/ ChildOn(gates[g], q) \in g+1..N
            BY <1>2, ParentChild
          <5> QED BY <1>2, <5>1
        <4> QED BY <1>7, <2>3, <4>1
      <3>2. \A h \in g+1..N : q \notin Q(h)
        BY <1>2, <3>1, ParentChild
      <3>3. NextOn(gates[g], q) = NoGate
        BY <2>1 DEF NextOn, IsFresh
      <3> QED BY <3>2, <3>3 DEF IsNextCNOT
    <2>4. gates[g].nextControlCNOT = NoGate
      BY <2>1 DEF IsFresh
    <2> QED BY <2>2, <2>3, <2>4 DEF NextCNOTOf
  <1>11. IsIdeal(gates, nxt, idealCycles)
    BY <1>3, <1>7 DEF IsIdeal
  <1>12. WalkInv'
    <2>1. \A q \in Qubits : ~(q < visiting) \/ q \notin Nat
      BY <1>3
    <2>2. Qubits \subseteq Nat
      BY <1>2 DEF Qubits
    <2>3. AreCursors(gates, cursor)' /\ IsIdeal(gates, cursor, idealCycles)'
      BY <1>1, <1>8, <1>11 DEF AreCursors, Seen, Ahead, IsIdeal
    <2>4. \A g \in Built' : (CriticalityOf(gates, cursor, g) /\ NextCNOTOf(gates, cursor, g))'
      BY <1>1, <1>10 DEF Built, CriticalityOf, NextCNOTOf, IsSeenChild, Seen
    <2> QED BY <1>1, <2>1, <2>2, <2>3, <2>4 DEF WalkInv
  <1>13. GraphInv'
    BY <1>1 DEF GraphInv, Built
  <1>14. WalkTyped'
    BY <1>1, <1>8 DEF WalkTyped, AreCursors
  <1> QED BY <1>12, <1>13, <1>14 DEF DependencyGraphInv

(* A visit of a qubit: the gate there is informing its parents, or nothing *)
(* changes because another of its qubits is not yet there.                 *)
LEMMA GraphVisitQubit ==
    DependencyGraphInv /\ VisitQubit => DependencyGraphInv'
  <1> SUFFICES ASSUME GraphInv, WalkTyped, WalkInv, VisitQubit
               PROVE  DependencyGraphInv'
    BY DEF DependencyGraphInv
  <1> DEFINE N == Len(gates)
             g == cursor[visiting]
             v == gates[g]
             crit == LengthOf(v)
             ready == ~IsTwoQubit(v) \/ cursor[v.control] = cursor[v.target]
  <1>1. /\ phase = "crit" /\ phase' = "crit" /\ visiting < numQubits
        /\ visiting' = visiting + 1
        /\ progress' = (progress \/ g # NoGate)
        /\ UNCHANGED <<program, lastGatePerQubit, firstGates, firstCXPerQubit, numQubits>>
    BY DEF VisitQubit
  <1>2. /\ N \in Nat /\ AreNodes(gates) /\ IsGraph(gates)
        /\ numQubits \in 0..MaxQubits
    BY DEF GraphInv, AreNodes
  <1>3. visiting \in 0..numQubits /\ visiting \in Qubits /\ visiting + 1 \in 0..numQubits
    <2>1. MaxQubits \in Nat
      BY ProgramsAssumption
    <2>2. visiting \in 0..numQubits
      BY DEF WalkTyped
    <2> QED BY <1>1, <1>2, <2>1, <2>2 DEF Qubits
  <1>4. /\ AreCursors(gates, cursor) /\ IsIdeal(gates, cursor, idealCycles)
        /\ \A h \in 1..N : CriticalityOf(gates, cursor, h)
        /\ \A h \in 1..N : NextCNOTOf(gates, cursor, h)
        /\ \A q \in Qubits : ~progress /\ q < visiting => cursor[q] = NoGate
    BY <1>1 DEF WalkInv, Built
  <1>5. progress' \in BOOLEAN
    BY <1>1
  <1>6. CASE g # NoGate /\ ready
    <2>1. /\ gates' = VisitGate(gates, g, crit) /\ cursor' = Behind(v)
          /\ idealCycles' = Longer(idealCycles, crit)
      BY <1>6 DEF VisitQubit, VisitGate, LengthOf
    <2>2. g \in 1..N /\ visiting \in QubitsOf(v)
      BY <1>2, <1>3, <1>4, <1>6 DEF AreCursors, NoGate
    <2>3. \A q \in QubitsOf(v) : cursor[q] = g
      <3>1. QubitsOf(v) = IF IsTwoQubit(v) THEN {v.control, v.target} ELSE {v.target}
        BY <1>2, <2>2, NodeQubits
      <3>2. CASE IsTwoQubit(v)
        <4>1. cursor[v.control] = cursor[v.target]
          BY <1>6, <3>2
        <4>2. visiting = v.control \/ visiting = v.target
          BY <2>2, <3>1, <3>2
        <4> HIDE DEF v
        <4> QED BY <3>1, <3>2, <4>1, <4>2
      <3>3. CASE ~IsTwoQubit(v)
        <4> HIDE DEF v
        <4> QED BY <2>2, <3>1, <3>3
      <3> QED BY <3>2, <3>3
    <2>4. IsVisit(gates, cursor, g, gates', cursor')
      BY <1>2, <1>4, <2>1, <2>2, <2>3 DEF IsVisit, Behind
    <2>5. /\ LengthOf(gates[g]) \in Nat /\ Len(gates') = N
          /\ Informed(gates', gates, N, g, LengthOf(gates[g]), Parents(gates[g]))
          /\ \A k \in 1..N : SameShape(gates'[k], gates[k])
      BY <2>4, VisitInforms
    <2>6. AreCursors(gates', cursor')
      BY <2>4, VisitSeen
    <2>7. \A h \in 1..N : CriticalityOf(gates', cursor', h)
      BY <1>4, <2>4, VisitCriticality
    <2>8. \A h \in 1..N : NextCNOTOf(gates', cursor', h)
      BY <1>4, <2>4, VisitNextCNOT
    <2>9. idealCycles \in Nat
      BY DEF WalkTyped
    <2>10. idealCycles' = Longer(idealCycles, LengthOf(gates[g]))
      BY <2>1
    <2>11. idealCycles' \in Nat
      BY <2>5, <2>9, <2>10 DEF Longer
    <2>12. IsIdeal(gates', cursor', idealCycles')
      BY <1>4, <2>4, <2>9, <2>10, VisitIdeal
    <2>13. progress' = TRUE
      BY <1>1, <1>6
    <2>14. WalkInv'
      <3>1. AreCursors(gates, cursor)' /\ IsIdeal(gates, cursor, idealCycles)'
        BY <2>6, <2>12 DEF AreCursors, Seen, Ahead, IsIdeal
      <3>2. \A h \in Built' : (CriticalityOf(gates, cursor, h) /\ NextCNOTOf(gates, cursor, h))'
        BY <2>5, <2>7, <2>8 DEF Built, CriticalityOf, NextCNOTOf, IsSeenChild, Seen
      <3> QED BY <1>1, <2>13, <3>1, <3>2 DEF WalkInv
    <2>15. WalkTyped'
      <3>1. cursor' \in [Qubits -> 0..Len(gates')]
        BY <2>6 DEF AreCursors
      <3>2. (visiting \in 0..numQubits)'
        BY <1>1, <1>3
      <3> QED BY <1>5, <2>11, <3>1, <3>2 DEF WalkTyped
    <2>16. GraphInv'
      <3>1. AreNodes(gates')
        <4>1. gates' \in Seq(GateNode(Len(gates')))
          BY <2>5 DEF Informed
        <4>2. \A k \in 1..N : IsTwoQubit(gates'[k]) <=> IsTwoQubit(gates[k])
          BY <2>5 DEF SameShape, IsTwoQubit
        <4> QED BY <1>2, <2>5, <4>1, <4>2 DEF AreNodes, SameShape
      <3>2. /\ IsGraph(gates') /\ AreLast(gates', lastGatePerQubit)
            /\ AreFirstCX(gates', firstCXPerQubit)
            /\ Roots(gates') = Roots(gates)
            /\ \A k \in 1..N : QubitsOf(gates'[k]) = QubitsOf(gates[k])
        <4>1. AreLast(gates, lastGatePerQubit) /\ AreFirstCX(gates, firstCXPerQubit)
          BY DEF GraphInv
        <4> QED BY <1>2, <2>5, <4>1, SameGraph
      <3>3. \A k \in 1..N : IsNodeOf(gates'[k], program[k])
        <4>1. \A k \in 1..N : IsNodeOf(gates[k], program[k])
          BY DEF GraphInv, Built
        <4> QED BY <2>5, <4>1 DEF IsNodeOf, Informed, SameShape
      <3>4. /\ AreNodes(gates)' /\ IsGraph(gates)' /\ AreLast(gates, lastGatePerQubit)'
            /\ AreFirstCX(gates, firstCXPerQubit)' /\ (firstGates = Roots(gates))'
        <4>1. firstGates = Roots(gates)
          BY DEF GraphInv
        <4> QED BY <1>1, <3>1, <3>2, <4>1
                DEF AreNodes, IsGraph, AreLast, AreFirstCX, Roots, IsClosestBefore,
                    IsClosestAfter, IsNextCNOT
      <3>5. \A k \in Built' : QubitsOf(gates'[k]) \subseteq 0..numQubits'-1
        BY <1>1, <2>5, <3>2 DEF GraphInv, Built
      <3>6. Built' = 1..N /\ Len(gates') = N
        BY <2>5 DEF Built
      <3>7. /\ program' \in Programs /\ Len(gates') <= Len(program')
            /\ Len(gates') = Len(program') /\ numQubits' \in 0..MaxQubits
        BY <1>1, <2>5 DEF GraphInv
      <3> QED BY <1>1, <3>3, <3>4, <3>5, <3>6, <3>7 DEF GraphInv, IsNodeOf
    <2> QED BY <2>14, <2>15, <2>16 DEF DependencyGraphInv
  <1>7. CASE ~(g # NoGate /\ ready)
    <2>1. UNCHANGED <<gates, cursor, idealCycles>>
      BY <1>7 DEF VisitQubit
    <2>2. \A q \in Qubits : ~progress' /\ q < visiting' => cursor[q] = NoGate
      <3> SUFFICES ASSUME NEW q \in Qubits, ~progress', q < visiting'
                   PROVE  cursor[q] = NoGate
        OBVIOUS
      <3>1. ~progress /\ g = NoGate
        BY <1>1
      <3>2. q < visiting \/ q = visiting
        <4>1. q \in Int /\ visiting \in Int
          BY <1>3 DEF Qubits
        <4> QED BY <1>1, <4>1
      <3> QED BY <1>4, <3>1, <3>2
    <2>3. WalkInv'
      <3>1. AreCursors(gates, cursor)' /\ IsIdeal(gates, cursor, idealCycles)'
        BY <1>4, <2>1 DEF AreCursors, Seen, Ahead, IsIdeal
      <3>2. \A h \in Built' : (CriticalityOf(gates, cursor, h) /\ NextCNOTOf(gates, cursor, h))'
        BY <1>4, <2>1 DEF Built, CriticalityOf, NextCNOTOf, IsSeenChild, Seen
      <3> QED BY <1>1, <2>1, <2>2, <3>1, <3>2 DEF WalkInv
    <2>4. WalkTyped'
      <3>1. visiting' \in 0..numQubits'
        BY <1>1, <1>3
      <3> QED BY <1>5, <2>1, <3>1 DEF WalkTyped
    <2>5. GraphInv'
      BY <1>1, <2>1 DEF GraphInv, Built
    <2> QED BY <2>3, <2>4, <2>5 DEF DependencyGraphInv
  <1> QED BY <1>6, <1>7

(* The walk is over when a sweep has met no gate.                          *)
LEMMA GraphEndSweep ==
    DependencyGraphInv /\ EndSweep => DependencyGraphInv'
  <1> SUFFICES ASSUME GraphInv, WalkTyped, WalkInv, EndSweep
               PROVE  DependencyGraphInv'
    BY DEF DependencyGraphInv
  <1>1. /\ phase = "crit" /\ visiting = numQubits /\ visiting' = 0 /\ progress' = FALSE
        /\ phase' = IF progress THEN "crit" ELSE "done"
        /\ UNCHANGED <<program, gates, lastGatePerQubit, firstGates, firstCXPerQubit,
                       numQubits, cursor, idealCycles>>
    BY DEF EndSweep, buildVars
  <1>2. MaxQubits \in Nat /\ numQubits \in 0..MaxQubits /\ Qubits \subseteq Nat
    <2>1. MaxQubits \in Nat
      BY ProgramsAssumption
    <2> QED BY <2>1 DEF GraphInv, Qubits
  <1>3. ~progress => \A q \in Qubits : cursor[q] = NoGate
    <2> SUFFICES ASSUME ~progress, NEW q \in Qubits PROVE cursor[q] = NoGate
      OBVIOUS
    <2>1. CASE q < numQubits
      BY <1>1, <2>1 DEF WalkInv
    <2>2. CASE ~(q < numQubits)
      <3> SUFFICES ASSUME cursor[q] # NoGate PROVE FALSE
        OBVIOUS
      <3>1. cursor[q] \in Built /\ q \in QubitsOf(gates[cursor[q]])
        <4>1. AreCursors(gates, cursor) /\ Len(gates) \in Nat
          BY <1>1 DEF WalkInv, GraphInv, AreNodes
        <4> QED BY <4>1 DEF AreCursors, Built, NoGate
      <3>2. q \in 0..numQubits-1
        BY <3>1 DEF GraphInv
      <3> QED BY <1>2, <2>2, <3>2
    <2> QED BY <2>1, <2>2
  <1>4. WalkInv'
    <2>1. /\ AreCursors(gates, cursor) /\ IsIdeal(gates, cursor, idealCycles)
          /\ \A h \in Built : CriticalityOf(gates, cursor, h) /\ NextCNOTOf(gates, cursor, h)
      BY <1>1 DEF WalkInv
    <2>2. AreCursors(gates, cursor)' /\ IsIdeal(gates, cursor, idealCycles)'
      BY <1>1, <2>1 DEF AreCursors, Seen, Ahead, IsIdeal
    <2>3. \A h \in Built' : (CriticalityOf(gates, cursor, h) /\ NextCNOTOf(gates, cursor, h))'
      BY <1>1, <2>1 DEF Built, CriticalityOf, NextCNOTOf, IsSeenChild, Seen
    <2>4. \A q \in Qubits : ~(q < visiting')
      BY <1>1, <1>2
    <2>5. phase' = "done" => \A q \in Qubits : cursor'[q] = NoGate
      BY <1>1, <1>3
    <2>6. phase' # "build"
      BY <1>1
    <2> QED BY <2>2, <2>3, <2>4, <2>5, <2>6 DEF WalkInv
  <1>5. WalkTyped'
    <2>1. visiting' \in 0..numQubits'
      BY <1>1, <1>2
    <2>2. progress' \in BOOLEAN
      BY <1>1
    <2> QED BY <1>1, <2>1, <2>2 DEF WalkTyped
  <1>6. GraphInv'
    BY <1>1 DEF GraphInv, Built
  <1> QED BY <1>4, <1>5, <1>6 DEF DependencyGraphInv

(* Nothing is built, nothing is walked.                                    *)
LEMMA DependencyGraphInit == Init => DependencyGraphInv
  <1> SUFFICES ASSUME Init PROVE DependencyGraphInv
    OBVIOUS
  <1>1. WalkInv
    BY DEF Init, WalkInv, Built
  <1> QED BY <1>1, GraphInit DEF DependencyGraphInv

(* Every step keeps the invariant.                                         *)
LEMMA DependencyGraphNext == DependencyGraphInv /\ [Next]_vars => DependencyGraphInv'
  <1> SUFFICES ASSUME DependencyGraphInv, [Next]_vars PROVE DependencyGraphInv'
    OBVIOUS
  <1>1. CASE AddGate
    BY <1>1, GraphAddGate, WalkAddGate DEF DependencyGraphInv
  <1>2. CASE RejectGate
    BY <1>2, GraphRejectGate
  <1>3. CASE StartCriticality
    BY <1>3, GraphStartCriticality
  <1>4. CASE VisitQubit
    BY <1>4, GraphVisitQubit
  <1>5. CASE EndSweep
    BY <1>5, GraphEndSweep
  <1>6. CASE UNCHANGED vars
    BY <1>6 DEF DependencyGraphInv, GraphInv, WalkTyped, WalkInv, vars, buildVars, critVars,
                Built
  <1> QED BY <1>1, <1>2, <1>3, <1>4, <1>5, <1>6 DEF Next

-----------------------------------------------------------------------------
(* What the walk returns.                                                  *)

(* At the end every gate has been seen.                                    *)
LEMMA AllSeen ==
    ASSUME DependencyGraphInv, phase = "done"
    PROVE  \A g \in 1..Len(gates) : Seen(gates, cursor, g)
  <1> SUFFICES ASSUME NEW g \in 1..Len(gates), NEW q \in QubitsOf(gates[g])
               PROVE  cursor[q] < g
    BY DEF Seen
  <1>1. AreNodes(gates) /\ Len(gates) \in Nat
    BY DEF DependencyGraphInv, GraphInv, AreNodes
  <1>2. q \in Qubits
    BY <1>1, NodeQubits
  <1>3. cursor[q] = 0
    BY <1>2 DEF DependencyGraphInv, WalkInv, NoGate
  <1> QED BY <1>1, <1>3

(* So the ideal number of cycles is the length of the longest chain.       *)
LEMMA IdealAtEnd == DependencyGraphInv => IdealCyclesCorrect
  <1> SUFFICES ASSUME DependencyGraphInv, phase = "done" PROVE IdealCyclesCorrect
    BY DEF IdealCyclesCorrect
  <1>1. \A g \in Built : Seen(gates, cursor, g)
    BY AllSeen DEF Built
  <1>2. /\ \A g \in Built : Seen(gates, cursor, g) => LengthOf(gates[g]) <= idealCycles
        /\ \/ idealCycles = 0
           \/ \E g \in Built : Seen(gates, cursor, g) /\ LengthOf(gates[g]) = idealCycles
    BY DEF DependencyGraphInv, WalkInv, IsIdeal, Built
  <1>3. \A g \in Built : LengthOf(gates[g]) \in Nat
    <2> SUFFICES ASSUME NEW g \in Built PROVE LengthOf(gates[g]) \in Nat
      OBVIOUS
    <2>1. gates[g] \in GateNode(Len(gates))
      BY DEF DependencyGraphInv, GraphInv, AreNodes, Built
    <2>2. gates[g].criticality \in Nat /\ gates[g].optimisticLatency \in Nat
      BY <2>1 DEF GateNode
    <2> QED BY <2>2 DEF LengthOf
  <1>4. \A g \in Built : LengthOf(gates[g]) <= idealCycles
    BY <1>1, <1>2
  <1>5. Built # {} => \E g \in Built : LengthOf(gates[g]) = idealCycles
    <2>1. CASE idealCycles = 0
      <3>1. \A g \in Built : LengthOf(gates[g]) = 0
        BY <1>3, <1>4, <2>1
      <3> QED BY <2>1, <3>1
    <2>2. CASE idealCycles # 0
      BY <1>2, <2>2
    <2> QED BY <2>1, <2>2
  <1> QED BY <1>4, <1>5 DEF IdealCyclesCorrect, LengthOf

(* The gates after g that share a qubit with it.                           *)
Later(ops, g) == {k \in g+1..Len(ops) : QubitsOf(ops[k]) \cap QubitsOf(ops[g]) # {}}

(* The recursive function of LongestAfter.                                 *)
LongestOf(ops, lat, after, g) ==
    CHOOSE k \in Later(ops, g) :
        \A j \in Later(ops, g) : lat[j] + after[Len(ops) - j] <= lat[k] + after[Len(ops) - k]

IsAfter(ops, lat, after) ==
    after = [i \in 0..Len(ops)-1 |->
                IF Later(ops, Len(ops) - i) = {} THEN 0
                ELSE lat[LongestOf(ops, lat, after, Len(ops) - i)]
                     + after[Len(ops) - LongestOf(ops, lat, after, Len(ops) - i)]]

(* LongestAfter counts gates from the end of the circuit.                  *)
LEMMA LongestAfterIs ==
    ASSUME NEW ops, NEW lat
    PROVE  LongestAfter(ops, lat) =
              [g \in 1..Len(ops) |-> (CHOOSE f : IsAfter(ops, lat, f))[Len(ops) - g]]
  BY Zenon DEF LongestAfter, IsAfter, LongestOf, Later

(* crit[g] is the largest length lat[k] + crit[k] of the gates k that      *)
(* share a qubit with g later, 0 if there is none.                         *)
IsLongest(ops, lat, crit) ==
    \A g \in 1..Len(ops) :
        /\ \A k \in Later(ops, g) : lat[k] + crit[k] <= crit[g]
        /\ IF Later(ops, g) = {} THEN crit[g] = 0
           ELSE \E k \in Later(ops, g) : lat[k] + crit[k] = crit[g]

(* Where the recursive function is right for the gates after g, it is for  *)
(* g.                                                                      *)
LEMMA LongestStep ==
    ASSUME NEW ops, Len(ops) \in Nat, NEW lat \in [1..Len(ops) -> Nat],
           NEW crit \in [1..Len(ops) -> Nat], IsLongest(ops, lat, crit),
           NEW g \in 1..Len(ops), NEW after,
           \A k \in g+1..Len(ops) : after[Len(ops) - k] = crit[k]
    PROVE  crit[g] = IF Later(ops, g) = {} THEN 0
                     ELSE lat[LongestOf(ops, lat, after, g)]
                          + after[Len(ops) - LongestOf(ops, lat, after, g)]
  <1> DEFINE S == Later(ops, g)
             length(k) == lat[k] + after[Len(ops) - k]
  <1>1. S \subseteq g+1..Len(ops) /\ S \subseteq 1..Len(ops)
    BY DEF Later
  <1>2. \A k \in S : length(k) = lat[k] + crit[k] /\ length(k) \in Nat
    BY <1>1
  <1>3. /\ \A k \in S : lat[k] + crit[k] <= crit[g]
        /\ S = {} => crit[g] = 0
        /\ S # {} => \E k \in S : lat[k] + crit[k] = crit[g]
    BY DEF IsLongest
  <1>4. CASE S = {}
    BY <1>3, <1>4
  <1>5. CASE S # {}
    <2> DEFINE c == CHOOSE k \in S : \A j \in S : length(j) <= length(k)
    <2> HIDE DEF S, length
    <2>1. PICK m \in S : length(m) = crit[g]
      BY <1>2, <1>3, <1>5
    <2>2. \A j \in S : length(j) <= length(m)
      BY <1>2, <1>3, <2>1
    <2>3. c \in S /\ \A j \in S : length(j) <= length(c)
      BY <2>2
    <2> HIDE DEF c
    <2>4. length(c) = crit[g]
      <3>1. length(c) <= crit[g] /\ crit[g] <= length(c)
        BY <1>2, <1>3, <2>1, <2>3
      <3>2. length(c) \in Nat /\ crit[g] \in Nat
        BY <1>2, <2>3
      <3> QED BY <3>1, <3>2
    <2>5. c = LongestOf(ops, lat, after, g)
      BY DEF c, S, length, LongestOf
    <2> QED BY <1>5, <2>4, <2>5 DEF length, S
  <1> QED BY <1>4, <1>5

(* So there is one such crit, and LongestAfter returns it.                 *)
LEMMA LongestAfterUnique ==
    ASSUME NEW ops, Len(ops) \in Nat, NEW lat \in [1..Len(ops) -> Nat],
           NEW crit \in [1..Len(ops) -> Nat], IsLongest(ops, lat, crit)
    PROVE  LongestAfter(ops, lat) = crit
  <1> DEFINE n == Len(ops)
             a == [i \in 0..n-1 |-> crit[n - i]]
             f == CHOOSE h : IsAfter(ops, lat, h)
             Value(h, g) == IF Later(ops, g) = {} THEN 0
                            ELSE lat[LongestOf(ops, lat, h, g)]
                                 + h[n - LongestOf(ops, lat, h, g)]
  <1>1. n \in Nat
    OBVIOUS
  <1>2. \A h : IsAfter(ops, lat, h) <=> h = [i \in 0..n-1 |-> Value(h, n - i)]
    BY DEF IsAfter
  <1>3. ASSUME NEW h, NEW g \in 1..n, \A k \in g+1..n : h[n - k] = crit[k]
        PROVE  crit[g] = Value(h, g)
    BY <1>3, LongestStep
  <1>4. \A g \in 1..n : n - g \in 0..n-1 /\ n - (n - g) = g
    BY <1>1
  <1>5. \A i \in 0..n-1 : n - i \in 1..n /\ n - (n - i) = i
    BY <1>1
  <1> HIDE DEF n, Value
  <1>6. \A g \in 1..n : a[n - g] = crit[g]
    BY <1>4
  <1>7. IsAfter(ops, lat, a)
    <2>1. \A g \in 1..n : crit[g] = Value(a, g)
      <3> SUFFICES ASSUME NEW g \in 1..n PROVE crit[g] = Value(a, g)
        OBVIOUS
      <3>1. \A k \in g+1..n : k \in 1..n
        BY <1>1
      <3>2. \A k \in g+1..n : a[n - k] = crit[k]
        BY <1>6, <3>1
      <3> HIDE DEF a
      <3> QED BY <1>3, <3>2
    <2>2. \A i \in 0..n-1 : crit[n - i] = Value(a, n - i)
      <3> HIDE DEF a
      <3> QED BY <1>5, <2>1
    <2>3. a = [i \in 0..n-1 |-> Value(a, n - i)]
      <3> DEFINE b == a
      <3>1. b = [i \in 0..n-1 |-> crit[n - i]]
        OBVIOUS
      <3>2. \A i \in 0..n-1 : crit[n - i] = Value(b, n - i)
        BY <2>2
      <3> HIDE DEF a, b
      <3>3. b = [i \in 0..n-1 |-> Value(b, n - i)]
        BY <3>1, <3>2
      <3> QED BY <3>3 DEF b
    <2> HIDE DEF a
    <2> QED BY <1>2, <2>3
  <1> HIDE DEF a
  <1>8. IsAfter(ops, lat, f)
    BY <1>7
  <1> HIDE DEF f
  <1>9. \A i \in 0..n-1 : f[i] = Value(f, n - i)
    <2>1. f = [i \in 0..n-1 |-> Value(f, n - i)]
      BY <1>2, <1>8
    <2> QED BY <2>1
  <1>10. \A i \in 0..n-1 : f[i] = crit[n - i]
    <2> DEFINE Bad == {i \in 0..n-1 : f[i] # crit[n - i]}
    <2> SUFFICES ASSUME Bad # {} PROVE FALSE
      OBVIOUS
    <2>1. PICK m \in Bad : \A i \in Bad : m <= i
      <3>1. Bad \in SUBSET Nat
        OBVIOUS
      <3> HIDE DEF Bad
      <3> QED BY <3>1, Least
    <2>2. m \in 0..n-1 /\ f[m] # crit[n - m] /\ n - m \in 1..n
      BY <1>5
    <2>3. \A k \in (n - m) + 1..n : f[n - k] = crit[k]
      <3> SUFFICES ASSUME NEW k \in (n - m) + 1..n PROVE f[n - k] = crit[k]
        OBVIOUS
      <3>1. k \in 1..n /\ n - k \in 0..n-1 /\ n - k < m /\ n - (n - k) = k
        BY <1>1, <2>2
      <3>2. n - k \notin Bad
        <4> HIDE DEF Bad
        <4> QED BY <1>1, <2>1, <2>2, <3>1
      <3> QED BY <3>1, <3>2
    <2>4. crit[n - m] = Value(f, n - m)
      BY <1>3, <2>2, <2>3
    <2> QED BY <1>9, <2>2, <2>4
  <1>11. \A g \in 1..n : f[n - g] = crit[g]
    BY <1>4, <1>10
  <1>12. LongestAfter(ops, lat) = [g \in 1..n |-> f[n - g]]
    BY LongestAfterIs, Zenon DEF f, n
  <1> QED BY <1>11, <1>12 DEF n

(* At the end the criticality of a gate is that of the longest chain of    *)
(* all later gates, although only its children have informed it.           *)
LEMMA CriticalityAtEnd ==
    ASSUME DependencyGraphInv, phase = "done",
           NEW crit, crit = [g \in Built |-> gates[g].criticality],
           NEW lat, lat = [g \in Built |-> gates[g].optimisticLatency]
    PROVE  /\ crit \in [Built -> Nat] /\ lat \in [Built -> Nat]
           /\ IsLongest(gates, lat, crit)
  <1> DEFINE N == Len(gates)
             Q(g) == QubitsOf(gates[g])
  <1>1. /\ N \in Nat /\ Built = 1..N /\ AreNodes(gates) /\ IsGraph(gates)
    BY DEF DependencyGraphInv, GraphInv, AreNodes, Built
  <1>2. \A g \in 1..N : gates[g].criticality \in Nat /\ gates[g].optimisticLatency \in Nat
    <2> SUFFICES ASSUME NEW g \in 1..N
                 PROVE  gates[g].criticality \in Nat /\ gates[g].optimisticLatency \in Nat
      OBVIOUS
    <2>1. gates[g] \in GateNode(N)
      BY <1>1 DEF AreNodes
    <2> QED BY <2>1 DEF GateNode
  <1>3. \A g \in 1..N : /\ crit[g] \in Nat /\ lat[g] \in Nat
                        /\ LengthOf(gates[g]) = lat[g] + crit[g]
                        /\ crit[g] = gates[g].criticality
    BY <1>1, <1>2 DEF LengthOf
  <1>4. \A g \in 1..N :
            /\ \A c \in 1..N : (\E q \in Q(g) : ChildOn(gates[g], q) = c)
                                  => lat[c] + crit[c] <= crit[g]
            /\ \/ crit[g] = 0
               \/ \E c \in 1..N : /\ \E q \in Q(g) : ChildOn(gates[g], q) = c
                                  /\ lat[c] + crit[c] = crit[g]
    <2> SUFFICES ASSUME NEW g \in 1..N
                 PROVE  /\ \A c \in 1..N : (\E q \in Q(g) : ChildOn(gates[g], q) = c)
                                              => lat[c] + crit[c] <= crit[g]
                        /\ \/ crit[g] = 0
                           \/ \E c \in 1..N : /\ \E q \in Q(g) : ChildOn(gates[g], q) = c
                                              /\ lat[c] + crit[c] = crit[g]
      OBVIOUS
    <2>1. \A c \in 1..N : IsSeenChild(gates, cursor, g, c)
                             <=> \E q \in Q(g) : ChildOn(gates[g], q) = c
      BY AllSeen DEF IsSeenChild
    <2>2. CriticalityOf(gates, cursor, g)
      BY <1>1 DEF DependencyGraphInv, WalkInv
    <2> QED BY <1>3, <2>1, <2>2 DEF CriticalityOf
  <1>5. \A g \in 1..N : \A q \in Q(g) :
            /\ ChildOn(gates[g], q) # NoGate =>
                  ChildOn(gates[g], q) \in g+1..N /\ q \in Q(ChildOn(gates[g], q))
            /\ \A h \in g+1..N : q \in Q(h) =>
                  ChildOn(gates[g], q) # NoGate /\ ChildOn(gates[g], q) <= h
    BY <1>1, ParentChild
  <1>6. \A g \in 1..N : \A k : k \in Later(gates, g)
                                  <=> k \in g+1..N /\ \E q \in Q(g) : q \in Q(k)
    BY DEF Later
  <1> HIDE DEF N, Q
  <1>7. \A g \in 1..N : \A k \in Later(gates, g) : lat[k] + crit[k] <= crit[g]
    <2> DEFINE Bad == {g \in 1..N : \E k \in Later(gates, g) : ~(lat[k] + crit[k] <= crit[g])}
    <2> SUFFICES ASSUME Bad # {} PROVE FALSE
      OBVIOUS
    <2>1. PICK g \in Bad : \A h \in Bad : h <= g
      <3>1. Bad \in SUBSET (0..N)
        BY <1>1
      <3> HIDE DEF Bad
      <3> QED BY <1>1, <3>1, Greatest
    <2>2. PICK k \in Later(gates, g) : ~(lat[k] + crit[k] <= crit[g])
      OBVIOUS
    <2>3. g \in 1..N /\ k \in g+1..N /\ k \in 1..N
      BY <1>1, <1>6
    <2>4. PICK q \in Q(g) : q \in Q(k)
      BY <1>6, <2>3
    <2> DEFINE c == ChildOn(gates[g], q)
    <2>5. c \in g+1..N /\ q \in Q(c) /\ c <= k
      BY <1>5, <2>3, <2>4
    <2>6. c \in 1..N /\ c > g /\ lat[c] + crit[c] <= crit[g]
      <3>1. c \in 1..N /\ c > g
        <4> HIDE DEF c
        <4> QED BY <1>1, <2>3, <2>5
      <3>2. \E j \in Q(g) : ChildOn(gates[g], j) = c
        BY <2>4
      <3> HIDE DEF c
      <3> QED BY <1>4, <2>3, <3>1, <3>2
    <2>7. c \notin Bad
      <3> HIDE DEF c, Bad
      <3> QED BY <1>1, <2>1, <2>3, <2>6
    <2> HIDE DEF c
    <2>8. CASE c = k
      BY <2>2, <2>6, <2>8
    <2>9. CASE c # k
      <3>1. k \in Later(gates, c)
        <4>1. k \in c+1..N
          BY <1>1, <2>3, <2>5, <2>6, <2>9
        <4> QED BY <1>6, <2>4, <2>5, <2>6, <4>1
      <3>2. lat[k] + crit[k] <= crit[c]
        BY <2>6, <2>7, <3>1
      <3>3. /\ lat[k] \in Nat /\ crit[k] \in Nat /\ lat[c] \in Nat /\ crit[c] \in Nat
            /\ crit[g] \in Nat
        BY <1>3, <2>3, <2>6
      <3> QED BY <2>2, <2>6, <3>2, <3>3
    <2> QED BY <2>8, <2>9
  <1>8. ASSUME NEW g \in 1..N
        PROVE  IF Later(gates, g) = {} THEN crit[g] = 0
               ELSE \E k \in Later(gates, g) : lat[k] + crit[k] = crit[g]
    <2>1. ASSUME NEW c \in 1..N, NEW q \in Q(g), ChildOn(gates[g], q) = c
          PROVE  c \in Later(gates, g)
      <3>1. c # NoGate
        BY <1>1 DEF NoGate
      <3> QED BY <1>5, <1>6, <2>1, <3>1
    <2>2. crit[g] = 0 \/ \E k \in Later(gates, g) : lat[k] + crit[k] = crit[g]
      BY <1>4, <2>1
    <2>3. CASE Later(gates, g) = {}
      BY <2>2, <2>3
    <2>4. CASE Later(gates, g) # {}
      <3>1. CASE crit[g] = 0
        <4>1. PICK k \in Later(gates, g) : TRUE
          BY <2>4
        <4>2. k \in 1..N /\ lat[k] + crit[k] <= 0
          <5>1. k \in g+1..N
            BY <1>6
          <5>2. lat[k] + crit[k] <= crit[g]
            BY <1>7
          <5> QED BY <1>1, <3>1, <5>1, <5>2
        <4>3. lat[k] \in Nat /\ crit[k] \in Nat
          BY <1>3, <4>2
        <4>4. lat[k] + crit[k] = crit[g]
          BY <3>1, <4>2, <4>3
        <4> QED BY <2>4, <4>1, <4>4
      <3> QED BY <2>2, <2>4, <3>1
    <2> QED BY <2>3, <2>4
  <1>9. crit \in [Built -> Nat] /\ lat \in [Built -> Nat]
    BY <1>1, <1>2
  <1> QED BY <1>7, <1>8, <1>9 DEF IsLongest, N

(* There is one closest gate before, one after, and one next two-qubit     *)
(* gate.                                                                   *)
LEMMA ClosestUnique ==
    ASSUME NEW ops, Len(ops) \in Nat, NEW g \in 1..Len(ops), NEW q, NEW h
    PROVE  /\ IsClosestBefore(ops, g, q, h) =>
                 /\ h \in 0..Len(ops)
                 /\ \A k \in 0..Len(ops) : IsClosestBefore(ops, g, q, k) => k = h
           /\ IsClosestAfter(ops, g, q, h) =>
                 /\ h \in 0..Len(ops)
                 /\ \A k \in 0..Len(ops) : IsClosestAfter(ops, g, q, k) => k = h
           /\ IsNextCNOT(ops, g, q, h) =>
                 /\ h \in 0..Len(ops)
                 /\ \A k \in 0..Len(ops) : IsNextCNOT(ops, g, q, k) => k = h
  <1> DEFINE N == Len(ops)
             On(k) == q \in QubitsOf(ops[k])
             CX(k) == IsTwoQubit(ops[k]) /\ On(k)
  <1>1. N \in Nat /\ g \in 1..N
    OBVIOUS
  <1>2. \A k : /\ IsClosestBefore(ops, g, q, k) <=>
                     /\ k \in 0..g-1 /\ (k # 0 => On(k)) /\ \A j \in k+1..g-1 : ~On(j)
               /\ IsClosestAfter(ops, g, q, k) <=>
                     \/ k = 0 /\ \A j \in g+1..N : ~On(j)
                     \/ k \in g+1..N /\ On(k) /\ \A j \in g+1..k-1 : ~On(j)
               /\ IsNextCNOT(ops, g, q, k) <=>
                     \/ k = 0 /\ \A j \in g+1..N : ~CX(j)
                     \/ k \in g+1..N /\ CX(k) /\ \A j \in g+1..k-1 : ~CX(j)
    BY DEF IsClosestBefore, IsClosestAfter, IsNextCNOT, NoGate
  <1> HIDE DEF N, On, CX
  <1>3. ASSUME IsClosestBefore(ops, g, q, h)
        PROVE  h \in 0..N /\ \A k \in 0..N : IsClosestBefore(ops, g, q, k) => k = h
    <2>1. h \in 0..g-1 /\ (h # 0 => On(h)) /\ \A j \in h+1..g-1 : ~On(j)
      BY <1>2, <1>3
    <2>2. ASSUME NEW k \in 0..N, IsClosestBefore(ops, g, q, k) PROVE k = h
      <3>1. k \in 0..g-1 /\ (k # 0 => On(k)) /\ \A j \in k+1..g-1 : ~On(j)
        BY <1>2, <2>2
      <3>2. ~(k < h) /\ ~(h < k)
        BY <1>1, <2>1, <3>1
      <3> QED BY <1>1, <2>1, <3>1, <3>2
    <2> QED BY <1>1, <2>1, <2>2
  <1>4. ASSUME IsClosestAfter(ops, g, q, h)
        PROVE  h \in 0..N /\ \A k \in 0..N : IsClosestAfter(ops, g, q, k) => k = h
    <2>1. \/ h = 0 /\ \A j \in g+1..N : ~On(j)
          \/ h \in g+1..N /\ On(h) /\ \A j \in g+1..h-1 : ~On(j)
      BY <1>2, <1>4
    <2>2. ASSUME NEW k \in 0..N, IsClosestAfter(ops, g, q, k) PROVE k = h
      <3>1. \/ k = 0 /\ \A j \in g+1..N : ~On(j)
            \/ k \in g+1..N /\ On(k) /\ \A j \in g+1..k-1 : ~On(j)
        BY <1>2, <2>2
      <3>2. CASE h = 0
        BY <1>1, <2>1, <3>1, <3>2
      <3>3. CASE h # 0
        <4>1. h \in g+1..N /\ k \in g+1..N
          BY <1>1, <2>1, <3>1, <3>3
        <4>2. ~(k < h) /\ ~(h < k)
          BY <1>1, <2>1, <3>1, <4>1
        <4> QED BY <4>1, <4>2
      <3> QED BY <3>2, <3>3
    <2> QED BY <1>1, <2>1, <2>2
  <1>5. ASSUME IsNextCNOT(ops, g, q, h)
        PROVE  h \in 0..N /\ \A k \in 0..N : IsNextCNOT(ops, g, q, k) => k = h
    <2>1. \/ h = 0 /\ \A j \in g+1..N : ~CX(j)
          \/ h \in g+1..N /\ CX(h) /\ \A j \in g+1..h-1 : ~CX(j)
      BY <1>2, <1>5
    <2>2. ASSUME NEW k \in 0..N, IsNextCNOT(ops, g, q, k) PROVE k = h
      <3>1. \/ k = 0 /\ \A j \in g+1..N : ~CX(j)
            \/ k \in g+1..N /\ CX(k) /\ \A j \in g+1..k-1 : ~CX(j)
        BY <1>2, <2>2
      <3>2. CASE h = 0
        BY <1>1, <2>1, <3>1, <3>2
      <3>3. CASE h # 0
        <4>1. h \in g+1..N /\ k \in g+1..N
          BY <1>1, <2>1, <3>1, <3>3
        <4>2. ~(k < h) /\ ~(h < k)
          BY <1>1, <2>1, <3>1, <4>1
        <4> QED BY <4>1, <4>2
      <3> QED BY <3>2, <3>3
    <2> QED BY <1>1, <2>1, <2>2
  <1> QED BY <1>3, <1>4, <1>5 DEF N

(* The references of GraphOf.                                              *)
Before(ops, g, q) == CHOOSE h \in 0..Len(ops) : IsClosestBefore(ops, g, q, h)
After(ops, g, q) == CHOOSE h \in 0..Len(ops) : IsClosestAfter(ops, g, q, h)
NextOf(ops, g, q) == CHOOSE h \in 0..Len(ops) : IsNextCNOT(ops, g, q, h)
IfTwo(ops, g, h) == IF IsTwoQubit(ops[g]) THEN h ELSE NoGate

(* GraphOf, with names for what it chooses.                                *)
LEMMA GraphOfIs ==
    ASSUME NEW ops, NEW lat
    PROVE  GraphOf(ops, lat) = [g \in 1..Len(ops) |->
              [name |-> ops[g].name, control |-> ops[g].control, target |-> ops[g].target,
               optimisticLatency |-> lat[g], criticality |-> LongestAfter(ops, lat)[g],
               controlParent |-> IfTwo(ops, g, Before(ops, g, ops[g].control)),
               targetParent |-> Before(ops, g, ops[g].target),
               controlChild |-> IfTwo(ops, g, After(ops, g, ops[g].control)),
               targetChild |-> After(ops, g, ops[g].target),
               nextControlCNOT |-> IfTwo(ops, g, NextOf(ops, g, ops[g].control)),
               nextTargetCNOT |-> NextOf(ops, g, ops[g].target)]]
  BY Zenon DEF GraphOf, Before, After, NextOf, IfTwo

(* What is close to a gate depends on the qubits of the gates only.        *)
LEMMA SameClosest ==
    ASSUME NEW gs, Len(gs) \in Nat, NEW ops, Len(ops) = Len(gs),
           \A k \in 1..Len(gs) : /\ QubitsOf(ops[k]) = QubitsOf(gs[k])
                                 /\ IsTwoQubit(ops[k]) <=> IsTwoQubit(gs[k]),
           NEW g \in 1..Len(gs), NEW q, NEW h
    PROVE  /\ IsClosestBefore(gs, g, q, h) => Before(ops, g, q) = h
           /\ IsClosestAfter(gs, g, q, h) => After(ops, g, q) = h
           /\ IsNextCNOT(gs, g, q, h) => NextOf(ops, g, q) = h
  <1>1. IsClosestBefore(gs, g, q, h) => IsClosestBefore(ops, g, q, h)
    <2> SUFFICES ASSUME IsClosestBefore(gs, g, q, h) PROVE IsClosestBefore(ops, g, q, h)
      OBVIOUS
    <2>1. h \in 0..g-1 /\ (h # NoGate => h \in 1..Len(gs))
      BY DEF IsClosestBefore, NoGate
    <2>2. \A k \in h+1..g-1 : k \in 1..Len(gs)
      BY <2>1
    <2> QED BY <2>1, <2>2 DEF IsClosestBefore
  <1>2. IsClosestAfter(gs, g, q, h) => IsClosestAfter(ops, g, q, h)
    <2>1. \A k \in g+1..Len(gs) : k \in 1..Len(gs)
      OBVIOUS
    <2>2. h \in g+1..Len(gs) => \A k \in g+1..h-1 : k \in 1..Len(gs)
      OBVIOUS
    <2> QED BY <2>1, <2>2 DEF IsClosestAfter
  <1>3. IsNextCNOT(gs, g, q, h) => IsNextCNOT(ops, g, q, h)
    <2>1. g \in 0..Len(gs)
      OBVIOUS
    <2> QED BY <2>1, SameNextCNOT
  <1>4. IsClosestBefore(ops, g, q, h) => Before(ops, g, q) = h
    <2>1. IsClosestBefore(ops, g, q, h) =>
             /\ h \in 0..Len(ops)
             /\ \A k \in 0..Len(ops) : IsClosestBefore(ops, g, q, k) => k = h
      BY ClosestUnique
    <2> QED BY <2>1 DEF Before
  <1>5. IsClosestAfter(ops, g, q, h) => After(ops, g, q) = h
    <2>1. IsClosestAfter(ops, g, q, h) =>
             /\ h \in 0..Len(ops)
             /\ \A k \in 0..Len(ops) : IsClosestAfter(ops, g, q, k) => k = h
      BY ClosestUnique
    <2> QED BY <2>1 DEF After
  <1>6. IsNextCNOT(ops, g, q, h) => NextOf(ops, g, q) = h
    <2>1. IsNextCNOT(ops, g, q, h) =>
             /\ h \in 0..Len(ops)
             /\ \A k \in 0..Len(ops) : IsNextCNOT(ops, g, q, k) => k = h
      BY ClosestUnique
    <2> QED BY <2>1 DEF NextOf
  <1> QED BY <1>1, <1>2, <1>3, <1>4, <1>5, <1>6

(* In the end a gate refers to the next two-qubit gates on its qubits.     *)
LEMMA NextAtEnd ==
    ASSUME DependencyGraphInv, phase = "done", NEW g \in 1..Len(gates),
           NEW q \in QubitsOf(gates[g])
    PROVE  IsNextCNOT(gates, g, q, NextOn(gates[g], q))
  <1> DEFINE N == Len(gates)
             w == gates[g]
  <1>1. /\ N \in Nat /\ IsGraph(gates) /\ NextCNOTOf(gates, cursor, g)
    BY DEF DependencyGraphInv, GraphInv, WalkInv, AreNodes, Built
  <1>2. ChildOn(w, q) = NoGate \/ Seen(gates, cursor, ChildOn(w, q))
    <2>1. ChildOn(w, q) = NoGate \/ ChildOn(w, q) \in g+1..N
      BY <1>1, ParentChild
    <2>2. ChildOn(w, q) \in g+1..N => ChildOn(w, q) \in 1..N
      BY <1>1
    <2> QED BY <2>1, <2>2, AllSeen
  <1> QED BY <1>1, <1>2 DEF NextCNOTOf

(* The walk of setCriticality returns the graph of the gate list.          *)
LEMMA GraphAtEnd == DependencyGraphInv => ImplementsGraphOf
  <1> SUFFICES ASSUME DependencyGraphInv, phase = "done" PROVE ImplementsGraphOf
    BY DEF ImplementsGraphOf
  <1> DEFINE N == Len(gates)
             lat == [g \in Built |-> OptimisticLatency[program[g].name]]
             crit == [g \in Built |-> gates[g].criticality]
             G == GraphOf(program, lat)
  <1>1. /\ N \in Nat /\ Built = 1..N /\ Len(program) = N
        /\ AreNodes(gates) /\ IsGraph(gates)
        /\ \A g \in 1..N : IsNodeOf(gates[g], program[g])
        /\ \A g \in 1..N : CriticalityOf(gates, cursor, g) /\ NextCNOTOf(gates, cursor, g)
    BY DEF DependencyGraphInv, GraphInv, WalkInv, AreNodes, Built
  <1>2. \A g \in 1..N : /\ QubitsOf(program[g]) = QubitsOf(gates[g])
                        /\ IsTwoQubit(program[g]) <=> IsTwoQubit(gates[g])
    BY <1>1 DEF IsNodeOf, QubitsOf, IsTwoQubit
  <1>3. lat = [g \in Built |-> gates[g].optimisticLatency]
    BY <1>1 DEF IsNodeOf
  <1> HIDE DEF N, lat, crit, G
  <1>4. LongestAfter(program, lat) = crit
    <2>1. /\ crit \in [Built -> Nat] /\ lat \in [Built -> Nat]
          /\ IsLongest(gates, lat, crit)
      BY <1>3, CriticalityAtEnd DEF crit
    <2>2. \A g \in 1..N : Later(program, g) = Later(gates, g)
      <3> SUFFICES ASSUME NEW g \in 1..N PROVE Later(program, g) = Later(gates, g)
        OBVIOUS
      <3>1. \A k \in g+1..N : k \in 1..N
        BY <1>1
      <3>2. \A k \in g+1..N : QubitsOf(program[k]) = QubitsOf(gates[k])
        BY <1>2, <3>1
      <3> QED BY <1>1, <1>2, <3>2 DEF Later, N
    <2>3. IsLongest(program, lat, crit)
      BY <1>1, <2>1, <2>2 DEF IsLongest, N
    <2> QED BY <1>1, <2>1, <2>3, LongestAfterUnique
  <1>5. ASSUME NEW g \in 1..N PROVE gates[g] = G[g]
    <2> DEFINE w == gates[g]
               o == program[g]
    <2>1. /\ w \in GateNode(N)
          /\ QubitsOf(w) = IF IsTwoQubit(w) THEN {w.control, w.target} ELSE {w.target}
          /\ w.control # w.target
          /\ ~IsTwoQubit(w) => /\ w.control = -1
                               /\ w.controlParent = NoGate /\ w.controlChild = NoGate
      BY <1>1, NodeQubits DEF AreNodes, N
    <2>2. /\ w.name = o.name /\ w.control = o.control /\ w.target = o.target
          /\ w.optimisticLatency = lat[g] /\ w.criticality = crit[g]
          /\ IsTwoQubit(o) <=> IsTwoQubit(w)
      BY <1>1, <1>2, <1>3 DEF IsNodeOf, crit
    <2>3. \A q \in QubitsOf(w) : /\ IsClosestBefore(gates, g, q, ParentOn(w, q))
                                 /\ IsClosestAfter(gates, g, q, ChildOn(w, q))
                                 /\ IsNextCNOT(gates, g, q, NextOn(w, q))
      <3> SUFFICES ASSUME NEW q \in QubitsOf(w)
                   PROVE  /\ IsClosestBefore(gates, g, q, ParentOn(w, q))
                          /\ IsClosestAfter(gates, g, q, ChildOn(w, q))
                          /\ IsNextCNOT(gates, g, q, NextOn(w, q))
        OBVIOUS
      <3>1. /\ IsClosestBefore(gates, g, q, ParentOn(w, q))
            /\ IsClosestAfter(gates, g, q, ChildOn(w, q))
        BY <1>1 DEF IsGraph, N
      <3>3. IsNextCNOT(gates, g, q, NextOn(w, q))
        BY <1>1, NextAtEnd DEF N
      <3> QED BY <3>1, <3>3
    <2>4. \A q \in QubitsOf(w) : /\ Before(program, g, q) = ParentOn(w, q)
                                 /\ After(program, g, q) = ChildOn(w, q)
                                 /\ NextOf(program, g, q) = NextOn(w, q)
      <3> HIDE DEF w
      <3> QED BY <1>1, <1>2, <2>3, SameClosest DEF N
    <2>5. ~IsTwoQubit(w) => w.nextControlCNOT = NoGate
      BY <1>1 DEF NextCNOTOf
    <2> HIDE DEF w
    <2>6. /\ w.targetParent = Before(program, g, w.target)
          /\ w.targetChild = After(program, g, w.target)
          /\ w.nextTargetCNOT = NextOf(program, g, w.target)
      BY <2>1, <2>4 DEF ParentOn, ChildOn, NextOn
    <2>7. /\ w.controlParent = IfTwo(program, g, Before(program, g, w.control))
          /\ w.controlChild = IfTwo(program, g, After(program, g, w.control))
          /\ w.nextControlCNOT = IfTwo(program, g, NextOf(program, g, w.control))
      <3>1. CASE IsTwoQubit(w)
        BY <2>1, <2>2, <2>4, <3>1 DEF ParentOn, ChildOn, NextOn, IfTwo
      <3>2. CASE ~IsTwoQubit(w)
        BY <2>1, <2>2, <2>5, <3>2 DEF IfTwo
      <3> QED BY <3>1, <3>2
    <2>8. w = [name |-> w.name, control |-> w.control, target |-> w.target,
               optimisticLatency |-> w.optimisticLatency, criticality |-> w.criticality,
               controlParent |-> w.controlParent, targetParent |-> w.targetParent,
               controlChild |-> w.controlChild, targetChild |-> w.targetChild,
               nextControlCNOT |-> w.nextControlCNOT, nextTargetCNOT |-> w.nextTargetCNOT]
      BY <2>1 DEF GateNode
    <2>9. G[g] = [name |-> o.name, control |-> o.control, target |-> o.target,
                  optimisticLatency |-> lat[g], criticality |-> LongestAfter(program, lat)[g],
                  controlParent |-> IfTwo(program, g, Before(program, g, o.control)),
                  targetParent |-> Before(program, g, o.target),
                  controlChild |-> IfTwo(program, g, After(program, g, o.control)),
                  targetChild |-> After(program, g, o.target),
                  nextControlCNOT |-> IfTwo(program, g, NextOf(program, g, o.control)),
                  nextTargetCNOT |-> NextOf(program, g, o.target)]
      BY <1>1, GraphOfIs DEF G
    <2> HIDE DEF o
    <2>10. w = G[g]
      BY <1>4, <2>2, <2>6, <2>7, <2>8, <2>9
    <2> QED BY <2>10 DEF w
  <1>6. gates = [g \in 1..N |-> gates[g]] /\ G = [g \in 1..N |-> G[g]]
    <2>1. gates \in Seq(GateNode(N))
      BY <1>1 DEF AreNodes, N
    <2>2. gates = [g \in 1..N |-> gates[g]]
      BY <2>1 DEF N
    <2>3. G = [g \in 1..N |-> G[g]]
      BY <1>1, GraphOfIs DEF G
    <2> QED BY <2>2, <2>3
  <1>7. gates = G
    BY <1>5, <1>6
  <1> QED BY <1>7 DEF G, lat, ImplementsGraphOf

-----------------------------------------------------------------------------
(* The pairs of qubits that at most k couplings join.                      *)

Grown(E, n, s) == {p \in PairsOf(n) :
                    \/ Adjacent(E, p[1], p[2])
                    \/ \E q \in 0..n-1 : <<p[1], q>> \in s
                                         /\ Adjacent(E, q, p[2])}

IsWithin(E, n, w) ==
    w = [k \in 0..n-1 |-> IF k = 0 THEN {} ELSE Grown(E, n, w[k-1])]

(* The recursive function of HopDistances exists.                          *)
LEMMA WithinExists ==
    ASSUME NEW n \in Nat \ {0}, NEW E
    PROVE  \E w : IsWithin(E, n, w)
  <1> DEFINE S == SUBSET PairsOf(n)
             F == [a \in Nat \X S |-> Grown(E, n, a[2])]
  <1>1. F \in [Nat \X S -> S] /\ {} \in S /\ n - 1 \in Nat
    BY DEF Grown
  <1>2. PICK f \in [0..n-1 -> S] :
            f[0] = {} /\ \A k \in 1..n-1 : f[k] = F[<<k, f[k-1]>>]
    <2>1. \E f : IsRecursive(f, n - 1, S, {}, F)
      <3> HIDE DEF F, S
      <3> QED BY <1>1, Recursion
    <2> QED BY <2>1, Zenon DEF IsRecursive
  <1>3. ASSUME NEW k \in 1..n-1 PROVE f[k] = Grown(E, n, f[k-1])
    <2>1. f[k-1] \in S /\ <<k, f[k-1]>> \in Nat \X S
      BY <1>2
    <2>2. F[<<k, f[k-1]>>] = Grown(E, n, <<k, f[k-1]>>[2])
      BY <2>1
    <2> QED BY <1>2, <2>2
  <1>4. \A k \in 0..n-1 : f[k] = IF k = 0 THEN {} ELSE Grown(E, n, f[k-1])
    <2> SUFFICES ASSUME NEW k \in 0..n-1
                 PROVE  f[k] = IF k = 0 THEN {} ELSE Grown(E, n, f[k-1])
      OBVIOUS
    <2>1. k = 0 \/ k \in 1..n-1
      OBVIOUS
    <2> QED BY <1>2, <1>3, <2>1
  <1> QED BY <1>2, <1>4 DEF IsWithin

(* So HopDistances is what it says.                                        *)
LEMMA HopsAre ==
    ASSUME NEW n \in Nat \ {0}, NEW E
    PROVE  \E w : /\ IsWithin(E, n, w)
                  /\ HopDistances(E, n) =
                        [p \in PairsOf(n) |->
                            IF p \notin w[n-1] THEN n - 1
                            ELSE CHOOSE k \in 1..n-1 : p \in w[k] \ w[k-1]]
  <1> DEFINE w == CHOOSE f : IsWithin(E, n, f)
  <1>1. IsWithin(E, n, w)
    BY WithinExists
  <1>2. HopDistances(E, n) =
            [p \in PairsOf(n) |->
                IF p \notin w[n-1] THEN n - 1
                ELSE CHOOSE k \in 1..n-1 : p \in w[k] \ w[k-1]]
    BY Zenon DEF HopDistances, IsWithin, Grown
  <1> HIDE DEF w
  <1> QED BY <1>1, <1>2

(* One more coupling reaches more.                                         *)
LEMMA WithinStep ==
    ASSUME NEW n \in Nat \ {0}, NEW E, NEW w, IsWithin(E, n, w),
           NEW k \in 0..n-2
    PROVE  w[0] = {} /\ w[k+1] = Grown(E, n, w[k])
  <1>1. k + 1 \in 0..n-1 /\ (k + 1) - 1 = k /\ k + 1 # 0 /\ 0 \in 0..n-1
    OBVIOUS
  <1>2. w = [i \in 0..n-1 |-> IF i = 0 THEN {} ELSE Grown(E, n, w[i-1])]
    BY DEF IsWithin
  <1> QED BY <1>1, <1>2

(* The sets grow.                                                          *)
LEMMA WithinGrows ==
    ASSUME NEW n \in Nat \ {0}, NEW E, NEW w, IsWithin(E, n, w),
           NEW i \in 0..n-1, NEW j \in 0..n-1, i <= j
    PROVE  w[i] \subseteq w[j]
  <1> DEFINE T == {k \in 0..n-1 : k + 1 <= n - 1 => w[k] \subseteq w[k+1]}
             U == {k \in 0..n-1 : i <= k => w[i] \subseteq w[k]}
  <1>1. ASSUME n - 1 # 0
        PROVE  0 \in T
    <2>1. 0 \in 0..n-2
      BY <1>1
    <2>2. w[0] = {}
      BY <2>1, WithinStep
    <2> QED BY <2>2
  <1>2. ASSUME NEW k \in 0..n-2, k \in T
        PROVE  k + 1 \in T
    <2>1. SUFFICES ASSUME k + 2 <= n - 1
                   PROVE  w[k+1] \subseteq w[(k+1)+1]
      OBVIOUS
    <2>2. k + 1 \in 0..n-2 /\ k + 1 <= n - 1 /\ w[k] \subseteq w[k+1]
      BY <1>2, <2>1
    <2>3. w[k+1] = Grown(E, n, w[k]) /\ w[(k+1)+1] = Grown(E, n, w[k+1])
      <3>1. \A m \in 0..n-2 : w[m+1] = Grown(E, n, w[m])
        BY WithinStep
      <3> QED BY <2>2, <3>1
    <2> QED BY <2>2, <2>3 DEF Grown
  <1>3. n - 1 # 0 => 0..n-1 \subseteq T
    <2>1. n - 1 \in Nat /\ (n - 1) - 1 = n - 2
      OBVIOUS
    <2> HIDE DEF T
    <2> QED BY <1>1, <1>2, <2>1, UpTo
  <1>4. 0 \in U
    OBVIOUS
  <1>5. ASSUME NEW k \in 0..n-2, k \in U
        PROVE  k + 1 \in U
    <2>1. k \in T
      BY <1>3
    <2> QED BY <1>5, <2>1
  <1>6. 0..n-1 \subseteq U
    <2>1. n - 1 \in Nat /\ (n - 1) - 1 = n - 2
      OBVIOUS
    <2> HIDE DEF U
    <2> QED BY <1>4, <1>5, <2>1, UpTo
  <1> QED BY <1>6

(* They are pairs, and those of coupled qubits are in all but the first.   *)
LEMMA WithinPairs ==
    ASSUME NEW n \in Nat \ {0}, NEW E, NEW w, IsWithin(E, n, w),
           NEW k \in 0..n-1
    PROVE  /\ w[k] \subseteq PairsOf(n)
           /\ k # 0 => \A p \in PairsOf(n) : Adjacent(E, p[1], p[2]) => p \in w[k]
           /\ k = 0 => w[k] = {}
  <1>1. CASE k = 0
    BY <1>1 DEF IsWithin
  <1>2. CASE k # 0
    <2>1. k - 1 \in 0..n-2 /\ (k - 1) + 1 = k
      BY <1>2
    <2>2. w[k] = Grown(E, n, w[k-1])
      BY <2>1, WithinStep
    <2> QED BY <1>2, <2>2 DEF Grown
  <1> QED BY <1>1, <1>2

(* Two paths in a row are a path.                                          *)
LEMMA WithinJoin ==
    ASSUME NEW n \in Nat \ {0}, NEW E, NEW w, IsWithin(E, n, w),
           NEW a, NEW b, NEW c, a # c,
           NEW i \in 0..n-1, NEW j \in 0..n-1, i + j <= n - 1,
           <<a, b>> \in w[i], <<b, c>> \in w[j]
    PROVE  <<a, c>> \in w[i+j]
  <1> DEFINE T == {k \in 0..n-1 : i + k <= n - 1 =>
                      \A d \in 0..n-1 : <<b, d>> \in w[k] /\ a # d => <<a, d>> \in w[i+k]}
  <1>1. /\ n - 1 \in Nat /\ (n - 1) - 1 = n - 2
        /\ a \in 0..n-1 /\ b \in 0..n-1 /\ c \in 0..n-1
    <2>1. <<a, b>> \in PairsOf(n) /\ <<b, c>> \in PairsOf(n)
      BY WithinPairs
    <2> QED BY <2>1 DEF PairsOf
  <1>2. 0 \in T
    <2>1. w[0] = {}
      BY <1>1, WithinPairs
    <2> QED BY <1>1, <2>1
  <1>3. ASSUME NEW k \in 0..n-2, k \in T
        PROVE  k + 1 \in T
    <2>1. SUFFICES ASSUME i + (k + 1) <= n - 1, NEW d \in 0..n-1,
                          <<b, d>> \in w[k+1], a # d
                   PROVE  <<a, d>> \in w[i+(k+1)]
      BY <1>1
    <2>2. /\ i + (k + 1) \in 0..n-1 /\ i + k \in 0..n-2 /\ i + (k + 1) = (i + k) + 1
          /\ i + (k + 1) # 0 /\ i <= i + k
      BY <2>1
    <2>3. <<a, d>> \in PairsOf(n)
      BY <1>1, <2>1 DEF PairsOf
    <2>4. \/ Adjacent(E, b, d)
          \/ \E q \in 0..n-1 : <<b, q>> \in w[k] /\ Adjacent(E, q, d)
      <3>1. w[k+1] = Grown(E, n, w[k])
        <4> HIDE DEF T
        <4>1. \A m \in 0..n-2 : w[m+1] = Grown(E, n, w[m])
          BY WithinStep
        <4> QED BY <4>1
      <3>2. <<b, d>>[1] = b /\ <<b, d>>[2] = d
        OBVIOUS
      <3> QED BY <2>1, <3>1, <3>2 DEF Grown
    <2>5. \/ Adjacent(E, a, d)
          \/ \E q \in 0..n-1 : <<a, q>> \in w[i+k] /\ Adjacent(E, q, d)
      <3>1. CASE Adjacent(E, b, d)
        <4>1. i + k \in 0..n-1
          BY <2>2
        <4>2. <<a, b>> \in w[i+k]
          BY <2>2, <4>1, WithinGrows
        <4> QED BY <1>1, <3>1, <4>2
      <3>2. ASSUME NEW q \in 0..n-1, <<b, q>> \in w[k], Adjacent(E, q, d)
            PROVE  <2>5
        <4>1. CASE q = a
          BY <3>2, <4>1
        <4>2. CASE q # a
          BY <1>3, <2>2, <3>2, <4>2
        <4> QED BY <4>1, <4>2
      <3> QED BY <2>4, <3>1, <3>2
    <2>6. w[(i+k)+1] = Grown(E, n, w[i+k])
      BY <2>2, WithinStep
    <2>7. <<a, d>>[1] = a /\ <<a, d>>[2] = d
      OBVIOUS
    <2> QED BY <2>2, <2>3, <2>5, <2>6, <2>7 DEF Grown
  <1>4. 0..n-1 \subseteq T
    <2> HIDE DEF T
    <2> QED BY <1>1, <1>2, <1>3, UpTo
  <1> QED BY <1>1, <1>4

(* Paths can be gone in both directions.                                   *)
LEMMA WithinSymmetric ==
    ASSUME NEW n \in Nat \ {0}, NEW E, NEW w, IsWithin(E, n, w),
           NEW i \in 0..n-1, NEW a, NEW b, <<a, b>> \in w[i]
    PROVE  <<b, a>> \in w[i]
  <1> DEFINE T == {k \in 0..n-1 : \A d, e \in 0..n-1 :
                                      <<d, e>> \in w[k] => <<e, d>> \in w[k]}
  <1>1. n - 1 \in Nat /\ (n - 1) - 1 = n - 2 /\ a \in 0..n-1 /\ b \in 0..n-1
    <2>1. <<a, b>> \in PairsOf(n)
      BY WithinPairs
    <2> QED BY <2>1 DEF PairsOf
  <1>2. 0 \in T
    BY <1>1, WithinPairs
  <1>3. ASSUME NEW k \in 0..n-2, k \in T
        PROVE  k + 1 \in T
    <2>1. SUFFICES ASSUME NEW d \in 0..n-1, NEW e \in 0..n-1, <<d, e>> \in w[k+1]
                   PROVE  <<e, d>> \in w[k+1]
      BY <1>1
    <2>2. k + 1 \in 0..n-1 /\ 1 \in 0..n-1 /\ k + 1 = 1 + k /\ k \in 0..n-1
      OBVIOUS
    <2>3. <<d, e>> \in PairsOf(n) /\ <<e, d>> \in PairsOf(n)
      <3>1. <<d, e>> \in PairsOf(n)
        BY <2>1, <2>2, WithinPairs
      <3> QED BY <3>1 DEF PairsOf
    <2>4. w[k+1] = Grown(E, n, w[k])
      BY WithinStep
    <2>5. <<d, e>>[1] = d /\ <<d, e>>[2] = e /\ <<e, d>>[1] = e /\ <<e, d>>[2] = d
      OBVIOUS
    <2>6. CASE Adjacent(E, d, e)
      <3>1. Adjacent(E, e, d)
        BY <2>6 DEF Adjacent
      <3> QED BY <2>3, <2>4, <2>5, <3>1 DEF Grown
    <2>7. ASSUME NEW q \in 0..n-1, <<d, q>> \in w[k], Adjacent(E, q, e)
          PROVE  <<e, d>> \in w[k+1]
      <3>1. <<q, d>> \in w[k]
        BY <1>3, <2>7
      <3>2. CASE q = e
        <4>1. k <= k + 1
          OBVIOUS
        <4>2. w[k] \subseteq w[k+1]
          BY <2>2, <4>1, WithinGrows
        <4> QED BY <3>1, <3>2, <4>2
      <3>3. CASE q # e
        <4>1. Adjacent(E, e, q)
          BY <2>7 DEF Adjacent
        <4>2. <<e, q>> \in PairsOf(n)
          BY <3>3 DEF PairsOf
        <4>3. <<e, q>> \in w[1]
          <5>1. <<e, q>>[1] = e /\ <<e, q>>[2] = q
            OBVIOUS
          <5> QED BY <2>2, <4>1, <4>2, <5>1, WithinPairs
        <4>4. e # d
          BY <2>3 DEF PairsOf
        <4>5. 1 + k <= n - 1
          OBVIOUS
        <4>6. <<e, d>> \in w[1+k]
          BY <2>2, <3>1, <4>3, <4>4, <4>5, WithinJoin
        <4> QED BY <2>2, <4>6
      <3> QED BY <3>2, <3>3
    <2> QED BY <2>1, <2>4, <2>5, <2>6, <2>7 DEF Grown
  <1>4. 0..n-1 \subseteq T
    <2> HIDE DEF T
    <2> QED BY <1>1, <1>2, <1>3, UpTo
  <1> QED BY <1>1, <1>4

-----------------------------------------------------------------------------
(* The distances between qubits.                                           *)

(* What HopDistances says of a pair: a path of so many couplings joins it  *)
(* and no shorter one, or no path joins it.                                *)
LEMMA HopFacts ==
    ASSUME NEW n \in Nat \ {0}, NEW E, NEW w, IsWithin(E, n, w),
           NEW h, h = [p \in PairsOf(n) |->
                            IF p \notin w[n-1] THEN n - 1
                            ELSE CHOOSE k \in 1..n-1 : p \in w[k] \ w[k-1]],
           NEW p \in PairsOf(n)
    PROVE  /\ h[p] \in 1..n-1
           /\ p \in w[n-1] => p \in w[h[p]]
           /\ p \notin w[n-1] => h[p] = n - 1
           /\ \A k \in 0..n-1 : p \in w[k] => h[p] <= k
  <1>1. n - 1 \in 1..n-1
    BY DEF PairsOf
  <1>2. CASE p \notin w[n-1]
    <2>1. h[p] = n - 1
      BY <1>2
    <2>2. ASSUME NEW k \in 0..n-1 PROVE p \notin w[k]
      <3>1. k <= n - 1 /\ n - 1 \in 0..n-1
        OBVIOUS
      <3>2. w[k] \subseteq w[n-1]
        BY <3>1, WithinGrows
      <3> QED BY <1>2, <3>2
    <2> QED BY <1>1, <1>2, <2>1, <2>2
  <1>3. CASE p \in w[n-1]
    <2> DEFINE T == {k \in 0..n-1 : p \in w[k]}
    <2>1. PICK m \in T : \A k \in T : m <= k
      <3>1. T \in SUBSET Nat /\ n - 1 \in T
        BY <1>1, <1>3
      <3> HIDE DEF T
      <3> QED BY <3>1, Least
    <2>2. m # 0
      <3>1. 0 \in 0..n-1
        OBVIOUS
      <3>2. w[0] = {}
        BY <3>1, WithinPairs
      <3> QED BY <2>1, <3>2
    <2>3. m \in 1..n-1 /\ p \in w[m] \ w[m-1]
      <3>1. m \in 1..n-1 /\ m - 1 \in 0..n-1 /\ ~(m <= m - 1)
        BY <2>1, <2>2
      <3> QED BY <2>1, <3>1
    <2> DEFINE c == CHOOSE k \in 1..n-1 : p \in w[k] \ w[k-1]
    <2>4. c \in 1..n-1 /\ p \in w[c] \ w[c-1]
      BY <2>3
    <2>5. h[p] = c
      BY <1>3
    <2> HIDE DEF c
    <2>6. ASSUME NEW k \in 0..n-1, p \in w[k]
          PROVE  c <= k
      <3>1. SUFFICES ASSUME k <= c - 1 PROVE FALSE
        BY <2>4
      <3>2. c - 1 \in 0..n-1
        BY <2>4
      <3>3. w[k] \subseteq w[c-1]
        BY <3>1, <3>2, WithinGrows
      <3> QED BY <2>4, <2>6, <3>3
    <2> QED BY <1>3, <2>4, <2>5, <2>6
  <1> QED BY <1>2, <1>3

(* The distances are a metric on different qubits, 1 between coupled ones. *)
LEMMA HopsAreMetric ==
    ASSUME NEW n \in Nat \ {0}, NEW E, NEW h, h = HopDistances(E, n)
    PROVE  /\ h \in [PairsOf(n) -> 1..n-1]
           /\ \A p \in PairsOf(n) : Adjacent(E, p[1], p[2]) => h[p] = 1
           /\ \A p \in PairsOf(n) : h[<<p[2], p[1]>>] = h[p]
           /\ \A a, b, c \in 0..n-1 : a # b /\ a # c /\ b # c =>
                  h[<<a, c>>] <= h[<<a, b>>] + h[<<b, c>>]
  <1>1. PICK w : /\ IsWithin(E, n, w)
                 /\ h = [p \in PairsOf(n) |->
                            IF p \notin w[n-1] THEN n - 1
                            ELSE CHOOSE k \in 1..n-1 : p \in w[k] \ w[k-1]]
    BY HopsAre
  <1>2. \A p \in PairsOf(n) :
           /\ h[p] \in 1..n-1
           /\ p \in w[n-1] => p \in w[h[p]]
           /\ p \notin w[n-1] => h[p] = n - 1
           /\ \A k \in 0..n-1 : p \in w[k] => h[p] <= k
    BY <1>1, HopFacts
  <1>3. DOMAIN h = PairsOf(n) /\ h = [p \in PairsOf(n) |-> h[p]]
    BY <1>1
  <1>4. h \in [PairsOf(n) -> 1..n-1]
    BY <1>2, <1>3
  <1>5. ASSUME NEW p \in PairsOf(n), Adjacent(E, p[1], p[2])
        PROVE  h[p] = 1
    <2>1. 1 \in 0..n-1 /\ 1 # 0
      BY DEF PairsOf
    <2>2. p \in w[1]
      BY <1>1, <1>5, <2>1, WithinPairs
    <2>3. h[p] <= 1 /\ h[p] \in 1..n-1
      BY <1>2, <2>1, <2>2
    <2> QED BY <2>3
  <1>6. ASSUME NEW p \in PairsOf(n)
        PROVE  h[<<p[2], p[1]>>] <= h[p]
    <2>1. /\ <<p[2], p[1]>> \in PairsOf(n) /\ p = <<p[1], p[2]>>
          /\ n - 1 \in 0..n-1
      BY DEF PairsOf
    <2>2. CASE p \in w[n-1]
      <3>1. h[p] \in 0..n-1 /\ <<p[1], p[2]>> \in w[h[p]]
        <4>1. h[p] \in 1..n-1 /\ p \in w[h[p]]
          BY <1>2, <2>2
        <4>2. h[p] \in 0..n-1
          BY <4>1
        <4> QED BY <2>1, <4>1, <4>2
      <3>2. <<p[2], p[1]>> \in w[h[p]]
        BY <1>1, <3>1, WithinSymmetric
      <3> QED BY <1>2, <2>1, <3>1, <3>2
    <2>3. CASE p \notin w[n-1]
      <3>1. h[p] = n - 1 /\ h[<<p[2], p[1]>>] \in 1..n-1
        BY <1>2, <2>1, <2>3
      <3> QED BY <3>1
    <2> QED BY <2>2, <2>3
  <1>7. ASSUME NEW p \in PairsOf(n)
        PROVE  h[<<p[2], p[1]>>] = h[p]
    <2> DEFINE o == <<p[2], p[1]>>
    <2>1. o \in PairsOf(n) /\ <<o[2], o[1]>> = p
      BY DEF PairsOf
    <2>2. h[o] \in 1..n-1 /\ h[p] \in 1..n-1
      BY <1>2, <2>1
    <2>3. h[o] <= h[p] /\ h[<<o[2], o[1]>>] <= h[o]
      BY <1>6, <2>1
    <2> HIDE DEF o
    <2>4. h[p] = h[o]
      BY <2>1, <2>2, <2>3
    <2> QED BY <2>4 DEF o
  <1>8. ASSUME NEW a \in 0..n-1, NEW b \in 0..n-1, NEW c \in 0..n-1,
               a # b, a # c, b # c
        PROVE  h[<<a, c>>] <= h[<<a, b>>] + h[<<b, c>>]
    <2> DEFINE ab == <<a, b>>
               bc == <<b, c>>
               ac == <<a, c>>
    <2>1. ab \in PairsOf(n) /\ bc \in PairsOf(n) /\ ac \in PairsOf(n)
      BY <1>8 DEF PairsOf
    <2>2. h[ab] \in 1..n-1 /\ h[bc] \in 1..n-1 /\ h[ac] \in 1..n-1
      BY <1>2, <2>1
    <2>3. CASE h[ab] + h[bc] >= n - 1
      BY <2>2, <2>3
    <2>4. CASE h[ab] + h[bc] < n - 1
      <3>1. h[ab] \in 0..n-1 /\ h[bc] \in 0..n-1 /\ h[ab] + h[bc] \in 0..n-1
            /\ h[ab] # n - 1 /\ h[bc] # n - 1
        BY <2>2, <2>4
      <3>2. ab \in w[h[ab]] /\ bc \in w[h[bc]]
        BY <1>2, <2>1, <3>1
      <3>3. ac \in w[h[ab] + h[bc]]
        <4>1. h[ab] + h[bc] <= n - 1
          BY <2>2, <2>4
        <4> DEFINE i == h[ab]
                   j == h[bc]
        <4>2. i \in 0..n-1 /\ j \in 0..n-1 /\ i + j <= n - 1
              /\ <<a, b>> \in w[i] /\ <<b, c>> \in w[j]
          BY <3>1, <3>2, <4>1
        <4> HIDE DEF i, j
        <4>3. <<a, c>> \in w[i + j]
          BY <1>1, <1>8, <4>2, WithinJoin
        <4> QED BY <4>3 DEF i, j
      <3> QED BY <1>2, <2>1, <3>1, <3>3
    <2> QED BY <2>2, <2>3, <2>4
  <1> QED BY <1>4, <1>5, <1>7, <1>8

(* And no metric of this kind has larger ones: a detour can always be      *)
(* found if a distance is too long.                                        *)
LEMMA HopsAreLargest ==
    ASSUME NEW n \in Nat \ {0}, NEW E \in SUBSET PairsOf(n),
           NEW d \in [PairsOf(n) -> 1..n-1],
           \A p \in PairsOf(n) : Adjacent(E, p[1], p[2]) => d[p] = 1,
           \A a, b, c \in 0..n-1 : a # b /\ a # c /\ b # c =>
                  d[<<a, c>>] <= d[<<a, b>>] + d[<<b, c>>],
           NEW o \in PairsOf(n)
    PROVE  d[o] <= HopDistances(E, n)[o]
  <1> DEFINE h == HopDistances(E, n)
  <1>1. PICK w : /\ IsWithin(E, n, w)
                 /\ h = [p \in PairsOf(n) |->
                            IF p \notin w[n-1] THEN n - 1
                            ELSE CHOOSE k \in 1..n-1 : p \in w[k] \ w[k-1]]
    BY HopsAre
  <1> DEFINE T == {k \in 0..n-1 : \A a, c \in 0..n-1 :
                      <<a, c>> \in w[k] => d[<<a, c>>] <= k}
  <1>2. n - 1 \in Nat /\ (n - 1) - 1 = n - 2 /\ n - 1 \in 0..n-1
    OBVIOUS
  <1>3. 0 \in T
    BY <1>1, WithinPairs
  <1>4. ASSUME NEW k \in 0..n-2, k \in T
        PROVE  k + 1 \in T
    <2>1. SUFFICES ASSUME NEW a \in 0..n-1, NEW c \in 0..n-1, <<a, c>> \in w[k+1]
                   PROVE  d[<<a, c>>] <= k + 1
      OBVIOUS
    <2>2. w[k+1] = Grown(E, n, w[k])
      BY <1>1, WithinStep
    <2>3. /\ <<a, c>> \in PairsOf(n) /\ a # c
          /\ <<a, c>>[1] = a /\ <<a, c>>[2] = c
      BY <2>1, <2>2 DEF Grown, PairsOf
    <2>4. \/ Adjacent(E, a, c)
          \/ \E q \in 0..n-1 : <<a, q>> \in w[k] /\ Adjacent(E, q, c)
      BY <2>1, <2>2, <2>3 DEF Grown
    <2>5. CASE Adjacent(E, a, c)
      <3>1. d[<<a, c>>] = 1
        BY <2>3, <2>5
      <3> QED BY <3>1
    <2>6. ASSUME NEW q \in 0..n-1, <<a, q>> \in w[k], Adjacent(E, q, c)
          PROVE  d[<<a, c>>] <= k + 1
      <3>1. k \in 0..n-1 /\ d[<<a, q>>] <= k
        BY <1>4, <2>6
      <3>2. <<a, q>> \in PairsOf(n)
        BY <1>1, <2>6, <3>1, WithinPairs
      <3>3. a # q /\ q # c
        BY <2>6, <3>2 DEF PairsOf, Adjacent
      <3>4. <<q, c>> \in PairsOf(n) /\ <<q, c>>[1] = q /\ <<q, c>>[2] = c
        BY <3>3 DEF PairsOf
      <3>5. d[<<q, c>>] = 1
        BY <2>6, <3>4
      <3>6. d[<<a, c>>] <= d[<<a, q>>] + d[<<q, c>>]
        BY <2>3, <3>3
      <3>7. d[<<a, c>>] \in Nat /\ d[<<a, q>>] \in Nat
        BY <2>3, <3>2
      <3> QED BY <3>1, <3>5, <3>6, <3>7
    <2> QED BY <2>4, <2>5, <2>6
  <1>5. 0..n-1 \subseteq T
    <2> HIDE DEF T
    <2> QED BY <1>2, <1>3, <1>4, UpTo
  <1>6. /\ h[o] \in 1..n-1
        /\ o \in w[n-1] => o \in w[h[o]]
        /\ o \notin w[n-1] => h[o] = n - 1
    <2> HIDE DEF h
    <2> QED BY <1>1, HopFacts
  <1> HIDE DEF h
  <1>7. o = <<o[1], o[2]>> /\ o[1] \in 0..n-1 /\ o[2] \in 0..n-1
    BY DEF PairsOf
  <1>8. \A k \in 0..n-1 : o \in w[k] => d[o] <= k
    BY <1>5, <1>7
  <1>9. d[o] \in 1..n-1
    OBVIOUS
  <1> HIDE DEF T
  <1>10. d[o] <= h[o]
    <2>1. CASE o \in w[n-1]
      <3>1. h[o] \in 0..n-1 /\ o \in w[h[o]]
        BY <1>6, <2>1
      <3> QED BY <1>8, <3>1
    <2>2. CASE o \notin w[n-1]
      BY <1>6, <1>9, <2>2
    <2> QED BY <2>1, <2>2
  <1> QED BY <1>10 DEF h

(* What calcDistances maintains. Beside the facts about single distances:  *)
(* if nothing was shortened since the while loop was entered, the triples  *)
(* the loops have passed offer no shortcut; and when the function has      *)
(* returned, no triple does.                                               *)
CoupledAreNext ==
    \A p \in Dist!Pairs :
        Adjacent(couplingMap.edges, p[1], p[2]) => distances[p] = 1

Passed(a, b, c) ==
    a < x \/ (a = x /\ b < y) \/ (a = x /\ b = y /\ c < z)

NoShortcutPassed ==
    done => \A a, b, c \in Dist!Qubits :
                Passed(a, b, c) => ~Dist!IsShortcut(distances, a, b, c)

NoShortcutLeft ==
    returned => \A a, b, c \in Dist!Qubits : ~Dist!IsShortcut(distances, a, b, c)

DistInv == /\ Dist!TypeOK /\ Dist!NeverTooShort
           /\ CoupledAreNext /\ NoShortcutPassed /\ NoShortcutLeft

(* Module Distances has the operators of CouplingMap too.                  *)
LEMMA SamePairs == Dist!Pairs = PairsOf(Dist!NumQubits)
  BY DEF Dist!Pairs, Dist!PairsOf, PairsOf

(* And what it calls Hops is what CouplingMap calls HopDistances.         *)
LEMMA SameHops == Dist!Hops = HopDistances(couplingMap.edges, Dist!NumQubits)
  BY Zenon DEF Dist!Hops, Dist!HopDistances, HopDistances, Dist!PairsOf, PairsOf,
               Dist!Adjacent, Adjacent

(* Its initial distances, in the operators of CouplingMap.                 *)
LEMMA SameInit ==
    Dist!Init => distances = [p \in Dist!Pairs |->
                                IF Adjacent(couplingMap.edges, p[1], p[2])
                                THEN 1 ELSE Dist!NumQubits - 1]
  BY DEF Dist!Init, Dist!Adjacent, Adjacent

(* The coupling maps are what they should be.                              *)
LEMMA CouplingMapFacts ==
    ASSUME NEW m \in CouplingMaps
    PROVE  /\ m.numPhysicalQubits \in Nat \ {0}
           /\ m.edges \in SUBSET PairsOf(m.numPhysicalQubits)
  BY SetUpAssumption DEF IsCouplingMap

(* The initial distances are an upper bound.                               *)
LEMMA DistInit == Dist!Init => DistInv
  <1> SUFFICES ASSUME Dist!Init PROVE DistInv
    OBVIOUS
  <1> DEFINE n == couplingMap.numPhysicalQubits
             E == couplingMap.edges
             h == HopDistances(E, n)
  <1>1. n \in Nat \ {0} /\ E \in SUBSET PairsOf(n)
    BY CouplingMapFacts DEF Dist!Init
  <1>2. /\ couplingMap \in CouplingMaps
        /\ distances = [p \in PairsOf(n) |-> IF Adjacent(E, p[1], p[2]) THEN 1 ELSE n - 1]
        /\ x = 0 /\ y = 0 /\ z = 0 /\ done = TRUE /\ returned = FALSE
    BY SamePairs, SameInit DEF Dist!Init, Dist!NumQubits
  <1>3. /\ h \in [PairsOf(n) -> 1..n-1]
        /\ \A p \in PairsOf(n) : Adjacent(E, p[1], p[2]) => h[p] = 1
    <2> HIDE DEF h, n, E
    <2>1. \A hh : hh = HopDistances(E, n) =>
              /\ hh \in [PairsOf(n) -> 1..n-1]
              /\ \A p \in PairsOf(n) : Adjacent(E, p[1], p[2]) => hh[p] = 1
      BY <1>1, HopsAreMetric
    <2> QED BY <2>1 DEF h
  <1> HIDE DEF n, E, h
  <1>4. \A p \in PairsOf(n) :
            /\ distances[p] \in 1..n-1
            /\ distances[p] >= h[p]
            /\ Adjacent(E, p[1], p[2]) => distances[p] = 1
            /\ distances[<<p[2], p[1]>>] = distances[p]
    <2> SUFFICES ASSUME NEW p \in PairsOf(n)
                 PROVE  /\ distances[p] \in 1..n-1
                        /\ distances[p] >= h[p]
                        /\ Adjacent(E, p[1], p[2]) => distances[p] = 1
                        /\ distances[<<p[2], p[1]>>] = distances[p]
      OBVIOUS
    <2>1. h[p] \in 1..n-1 /\ (Adjacent(E, p[1], p[2]) => h[p] = 1)
      BY <1>3
    <2>2. distances[p] = IF Adjacent(E, p[1], p[2]) THEN 1 ELSE n - 1
      BY <1>2
    <2>3. <<p[2], p[1]>> \in PairsOf(n)
          /\ <<p[2], p[1]>>[1] = p[2] /\ <<p[2], p[1]>>[2] = p[1]
      BY DEF PairsOf
    <2>4. distances[<<p[2], p[1]>>] = IF Adjacent(E, p[2], p[1]) THEN 1 ELSE n - 1
      BY <1>2, <2>3
    <2>5. Adjacent(E, p[2], p[1]) <=> Adjacent(E, p[1], p[2])
      BY DEF Adjacent
    <2> QED BY <1>1, <2>1, <2>2, <2>4, <2>5
  <1>5. Dist!TypeOK
    <2>1. Dist!NumQubits = n /\ Dist!Pairs = PairsOf(n) /\ 0 \in 0..n-1
      BY <1>1, SamePairs DEF Dist!NumQubits, n
    <2>2. distances \in [Dist!Pairs -> 1..n-1]
      BY <1>2, <1>4, <2>1
    <2> QED BY <1>2, <1>4, <2>1, <2>2 DEF Dist!TypeOK, Dist!Qubits
  <1>6. Dist!NeverTooShort
    BY <1>4, SamePairs, SameHops DEF Dist!NeverTooShort, Dist!NumQubits, n, E, h
  <1>7. CoupledAreNext
    BY <1>4, SamePairs DEF CoupledAreNext, Dist!NumQubits, n, E
  <1>8. NoShortcutPassed
    BY <1>1, <1>2 DEF NoShortcutPassed, Passed, Dist!Qubits, Dist!NumQubits, n
  <1>9. NoShortcutLeft
    BY <1>2 DEF NoShortcutLeft
  <1> QED BY <1>5, <1>6, <1>7, <1>8, <1>9 DEF DistInv

(* The loop variables after an iteration.                                  *)
LEMMA NextIndex ==
    ASSUME NEW n \in Nat \ {0}, NEW i \in 0..n-1
    PROVE  (i + 1) % n = IF i = n - 1 THEN 0 ELSE i + 1
  <1>1. CASE i = n - 1
    <2>1. i + 1 = n
      BY <1>1
    <2>2. n % n = 0
      OBVIOUS
    <2> QED BY <1>1, <2>1, <2>2
  <1>2. CASE i # n - 1
    <2>1. i + 1 \in 0..n-1
      BY <1>2
    <2>2. \A k \in 0..n-1 : k % n = k
      OBVIOUS
    <2> QED BY <1>2, <2>1, <2>2
  <1> QED BY <1>1, <1>2

(* Taking a shortcut: a distance becomes the length of a detour.           *)
LEMMA ShortcutKeeps ==
    ASSUME NEW n \in Nat \ {0}, NEW E,
           NEW h, h = HopDistances(E, n),
           NEW d \in [PairsOf(n) -> 1..n-1],
           \A p \in PairsOf(n) : d[<<p[2], p[1]>>] = d[p],
           \A p \in PairsOf(n) : d[p] >= h[p],
           \A p \in PairsOf(n) : Adjacent(E, p[1], p[2]) => d[p] = 1,
           NEW a \in 0..n-1, NEW b \in 0..n-1, NEW c \in 0..n-1,
           Dist!IsShortcut(d, a, b, c),
           NEW r, r = Dist!Update(d, a, c, Dist!Via(d, a, b, c))
    PROVE  /\ r \in [PairsOf(n) -> 1..n-1]
           /\ \A p \in PairsOf(n) : r[<<p[2], p[1]>>] = r[p]
           /\ \A p \in PairsOf(n) : r[p] >= h[p]
           /\ \A p \in PairsOf(n) : Adjacent(E, p[1], p[2]) => r[p] = 1
  <1> DEFINE ab == <<a, b>>
             bc == <<b, c>>
             ac == <<a, c>>
             ca == <<c, a>>
             v == d[ab] + d[bc]
  <1>1. a # b /\ a # c /\ b # c /\ v < d[ac]
    BY DEF Dist!IsShortcut
  <1>2. /\ ab \in PairsOf(n) /\ bc \in PairsOf(n)
        /\ ac \in PairsOf(n) /\ ca \in PairsOf(n)
    BY <1>1 DEF PairsOf
  <1>3. /\ \A p \in PairsOf(n) : h[p] \in 1..n-1
        /\ h[ca] = h[ac]
        /\ h[ac] <= h[ab] + h[bc]
    <2>1. /\ h \in [PairsOf(n) -> 1..n-1]
          /\ h[<<ac[2], ac[1]>>] = h[ac]
          /\ h[<<a, c>>] <= h[<<a, b>>] + h[<<b, c>>]
      <3> HIDE DEF ac
      <3> QED BY <1>1, <1>2, HopsAreMetric
    <2>2. <<ac[2], ac[1]>> = ca
      OBVIOUS
    <2> QED BY <2>1, <2>2
  <1>4. r = [d EXCEPT ![ac] = v, ![ca] = v]
    BY DEF Dist!Update, Dist!Via
  <1>5. /\ d[ab] \in 1..n-1 /\ d[bc] \in 1..n-1 /\ d[ac] \in 1..n-1
        /\ d[ab] >= h[ab] /\ d[bc] >= h[bc]
        /\ h[ab] \in 1..n-1 /\ h[bc] \in 1..n-1 /\ h[ac] \in 1..n-1
    BY <1>2, <1>3
  <1> HIDE DEF v
  <1>6. v \in 1..n-1 /\ v >= h[ac] /\ v # 1 /\ d[ac] # 1
    BY <1>1, <1>3, <1>5 DEF v
  <1>7. ~Adjacent(E, a, c) /\ ~Adjacent(E, c, a)
    <2>1. ~Adjacent(E, ac[1], ac[2])
      BY <1>2, <1>6
    <2> QED BY <2>1 DEF Adjacent
  <1>8. \A p \in PairsOf(n) : r[p] = IF p = ac \/ p = ca THEN v ELSE d[p]
    BY <1>2, <1>4
  <1>9. r \in [PairsOf(n) -> 1..n-1]
    BY <1>4, <1>6
  <1>10. ASSUME NEW p \in PairsOf(n)
         PROVE  /\ r[<<p[2], p[1]>>] = r[p]
                /\ r[p] >= h[p]
                /\ Adjacent(E, p[1], p[2]) => r[p] = 1
    <2>1. <<p[2], p[1]>> \in PairsOf(n) /\ p = <<p[1], p[2]>>
      BY DEF PairsOf
    <2>2. /\ p = ac <=> <<p[2], p[1]>> = ca
          /\ p = ca <=> <<p[2], p[1]>> = ac
      BY <2>1
    <2>3. r[<<p[2], p[1]>>] = r[p]
      BY <1>8, <2>1, <2>2
    <2>4. r[p] >= h[p]
      BY <1>3, <1>6, <1>8
    <2>5. Adjacent(E, p[1], p[2]) => r[p] = 1
      BY <1>7, <1>8
    <2> QED BY <2>3, <2>4, <2>5
  <1> QED BY <1>9, <1>10

(* An iteration of the innermost loop.                                     *)
LEMMA DistVisit == DistInv /\ Dist!Visit => DistInv'
  <1> SUFFICES ASSUME DistInv, Dist!Visit PROVE DistInv'
    OBVIOUS
  <1> DEFINE n == couplingMap.numPhysicalQubits
             E == couplingMap.edges
             h == HopDistances(E, n)
             shortcut == Dist!IsShortcut(distances, x, y, z)
             last == x = n - 1 /\ y = n - 1 /\ z = n - 1
  <1>1. couplingMap \in CouplingMaps /\ couplingMap' = couplingMap
    BY DEF DistInv, Dist!TypeOK, Dist!Visit
  <1>2. n \in Nat \ {0} /\ E \in SUBSET PairsOf(n)
    BY <1>1, CouplingMapFacts
  <1>3. /\ distances \in [PairsOf(n) -> 1..n-1]
        /\ \A p \in PairsOf(n) : distances[<<p[2], p[1]>>] = distances[p]
        /\ \A p \in PairsOf(n) : distances[p] >= h[p]
        /\ \A p \in PairsOf(n) : Adjacent(E, p[1], p[2]) => distances[p] = 1
        /\ x \in 0..n-1 /\ y \in 0..n-1 /\ z \in 0..n-1
        /\ done \in BOOLEAN /\ returned \in BOOLEAN
    BY SamePairs, SameHops
       DEF DistInv, Dist!TypeOK, Dist!NeverTooShort, CoupledAreNext, Dist!Qubits,
           Dist!NumQubits
  <1>4. /\ ~returned
        /\ distances' = IF shortcut
              THEN Dist!Update(distances, x, z, Dist!Via(distances, x, y, z))
              ELSE distances
        /\ z' = (z + 1) % n
        /\ y' = IF z = n - 1 THEN (y + 1) % n ELSE y
        /\ x' = IF z = n - 1 /\ y = n - 1 THEN (x + 1) % n ELSE x
        /\ returned' = (last /\ done /\ ~shortcut)
        /\ done' = ((done /\ ~shortcut) \/ last)
    BY DEF Dist!Visit, Dist!NextTriple, Dist!IsLastTriple, Dist!NumQubits
  <1>5. done => \A a, b, c \in 0..n-1 :
                   Passed(a, b, c) => ~Dist!IsShortcut(distances, a, b, c)
    BY DEF DistInv, NoShortcutPassed, Dist!Qubits, Dist!NumQubits
  <1> HIDE DEF n, E, h, shortcut, last
  <1>6. /\ distances' \in [PairsOf(n) -> 1..n-1]
        /\ \A p \in PairsOf(n) : distances'[<<p[2], p[1]>>] = distances'[p]
        /\ \A p \in PairsOf(n) : distances'[p] >= h[p]
        /\ \A p \in PairsOf(n) : Adjacent(E, p[1], p[2]) => distances'[p] = 1
    <2>1. CASE shortcut
      <3>1. /\ Dist!IsShortcut(distances, x, y, z)
            /\ distances' = Dist!Update(distances, x, z, Dist!Via(distances, x, y, z))
        BY <1>4, <2>1 DEF shortcut
      <3>2. h = HopDistances(E, n)
        BY DEF h
      <3> QED BY <1>2, <1>3, <3>1, <3>2, ShortcutKeeps
    <2>2. CASE ~shortcut
      BY <1>3, <1>4, <2>2
    <2> QED BY <2>1, <2>2
  <1>7. /\ z' = IF z = n - 1 THEN 0 ELSE z + 1
        /\ y' = IF z = n - 1 THEN (IF y = n - 1 THEN 0 ELSE y + 1) ELSE y
        /\ x' = IF z = n - 1 /\ y = n - 1 THEN (IF x = n - 1 THEN 0 ELSE x + 1) ELSE x
    <2>1. /\ (x + 1) % n = IF x = n - 1 THEN 0 ELSE x + 1
          /\ (y + 1) % n = IF y = n - 1 THEN 0 ELSE y + 1
          /\ (z + 1) % n = IF z = n - 1 THEN 0 ELSE z + 1
      BY <1>2, <1>3, NextIndex
    <2> QED BY <1>4, <2>1
  <1>8. /\ x' \in 0..n-1 /\ y' \in 0..n-1 /\ z' \in 0..n-1
        /\ done' \in BOOLEAN /\ returned' \in BOOLEAN
    <2>1. x' \in 0..n-1 /\ y' \in 0..n-1 /\ z' \in 0..n-1
      BY <1>2, <1>3, <1>7
    <2> QED BY <1>4, <2>1
  <1>9. ASSUME done /\ ~shortcut, NEW a \in 0..n-1, NEW b \in 0..n-1, NEW c \in 0..n-1,
               Passed(a, b, c) \/ (a = x /\ b = y /\ c = z)
        PROVE  ~Dist!IsShortcut(distances', a, b, c)
    <2>1. distances' = distances
      BY <1>4, <1>9
    <2>2. ~Dist!IsShortcut(distances, a, b, c)
      <3>1. CASE Passed(a, b, c)
        BY <1>5, <1>9, <3>1
      <3>2. CASE a = x /\ b = y /\ c = z
        BY <1>9, <3>2 DEF shortcut
      <3> QED BY <1>9, <3>1, <3>2
    <2> QED BY <2>1, <2>2
  <1>10. ASSUME done', NEW a \in 0..n-1, NEW b \in 0..n-1, NEW c \in 0..n-1,
                Passed(a, b, c)'
         PROVE  ~Dist!IsShortcut(distances', a, b, c)
    <2>1. ~last
      <3>1. a >= 0 /\ b >= 0 /\ c >= 0 /\ (a < x' \/ b < y' \/ c < z')
        BY <1>10 DEF Passed
      <3> QED BY <1>2, <1>3, <1>7, <3>1 DEF last
    <2>2. done /\ ~shortcut
      BY <1>4, <1>10, <2>1
    <2>3. a < x' \/ (a = x' /\ b < y') \/ (a = x' /\ b = y' /\ c < z')
      BY <1>10 DEF Passed
    <2>4. Passed(a, b, c) \/ (a = x /\ b = y /\ c = z)
      BY <1>2, <1>3, <1>7, <2>1, <2>3 DEF Passed, last
    <2> QED BY <1>9, <2>2, <2>4
  <1>11. ASSUME returned', NEW a \in 0..n-1, NEW b \in 0..n-1, NEW c \in 0..n-1
         PROVE  ~Dist!IsShortcut(distances', a, b, c)
    <2>1. last /\ done /\ ~shortcut
      BY <1>4, <1>11
    <2>2. Passed(a, b, c) \/ (a = x /\ b = y /\ c = z)
      BY <1>2, <2>1 DEF Passed, last
    <2> QED BY <1>9, <2>1, <2>2
  <1>12. n' = n /\ E' = E /\ h' = h
    BY <1>1 DEF n, E, h
  <1>13. Dist!TypeOK'
    <2>1. Dist!Pairs' = PairsOf(n)
      BY <1>1, SamePairs DEF Dist!Pairs, Dist!PairsOf, Dist!NumQubits, n
    <2> QED BY <1>1, <1>6, <1>8, <1>12, <2>1 DEF Dist!TypeOK, Dist!NumQubits, Dist!Qubits, n
  <1>14. Dist!NeverTooShort'
    <2>1. Dist!Pairs' = PairsOf(n)
      BY <1>1, SamePairs DEF Dist!Pairs, Dist!PairsOf, Dist!NumQubits, n
    <2>2. Dist!Hops' = Dist!Hops
      BY <1>1 DEF Dist!Hops, Dist!NumQubits
    <2>3. Dist!Hops = h
      BY SameHops DEF Dist!NumQubits, n, E, h
    <2> QED BY <1>6, <2>1, <2>2, <2>3 DEF Dist!NeverTooShort
  <1>15. CoupledAreNext'
    <2>1. Dist!Pairs' = PairsOf(n)
      BY <1>1, SamePairs DEF Dist!Pairs, Dist!PairsOf, Dist!NumQubits, n
    <2> QED BY <1>1, <1>6, <2>1 DEF CoupledAreNext, E
  <1>16. NoShortcutPassed'
    BY <1>1, <1>10 DEF NoShortcutPassed, Dist!Qubits, Dist!NumQubits, n
  <1>17. NoShortcutLeft'
    BY <1>1, <1>11 DEF NoShortcutLeft, Dist!Qubits, Dist!NumQubits, n
  <1> QED BY <1>13, <1>14, <1>15, <1>16, <1>17 DEF DistInv

(* Once calcDistances has returned, no distance is too long either.        *)
LEMMA DistReturned == DistInv => Dist!DistancesCorrect
  <1> SUFFICES ASSUME DistInv, returned PROVE distances = Dist!Hops
    BY DEF Dist!DistancesCorrect
  <1> DEFINE n == couplingMap.numPhysicalQubits
             E == couplingMap.edges
             h == HopDistances(E, n)
  <1>1. n \in Nat \ {0} /\ E \in SUBSET PairsOf(n)
    BY CouplingMapFacts DEF DistInv, Dist!TypeOK
  <1>2. /\ distances \in [PairsOf(n) -> 1..n-1]
        /\ \A p \in PairsOf(n) : distances[p] >= h[p]
        /\ \A p \in PairsOf(n) : Adjacent(E, p[1], p[2]) => distances[p] = 1
        /\ \A a, b, c \in 0..n-1 : ~Dist!IsShortcut(distances, a, b, c)
    BY SamePairs, SameHops
       DEF DistInv, Dist!TypeOK, Dist!NeverTooShort, CoupledAreNext, NoShortcutLeft,
           Dist!Qubits, Dist!NumQubits
  <1> HIDE DEF n, E, h
  <1>3. ASSUME NEW a \in 0..n-1, NEW b \in 0..n-1, NEW c \in 0..n-1,
               a # b, a # c, b # c
        PROVE  distances[<<a, c>>] <= distances[<<a, b>>] + distances[<<b, c>>]
    <2>1. ~(distances[<<a, b>>] + distances[<<b, c>>] < distances[<<a, c>>])
      BY <1>2, <1>3 DEF Dist!IsShortcut
    <2>2. <<a, b>> \in PairsOf(n) /\ <<b, c>> \in PairsOf(n) /\ <<a, c>> \in PairsOf(n)
      BY <1>3 DEF PairsOf
    <2>3. /\ distances[<<a, b>>] \in Int /\ distances[<<b, c>>] \in Int
          /\ distances[<<a, c>>] \in Int
      BY <1>2, <2>2
    <2> QED BY <2>1, <2>3
  <1>4. \A p \in PairsOf(n) : distances[p] <= HopDistances(E, n)[p]
    BY <1>1, <1>2, <1>3, HopsAreLargest
  <1>5. h \in [PairsOf(n) -> 1..n-1]
    <2>1. h = HopDistances(E, n)
      BY DEF h
    <2> QED BY <1>1, <2>1, HopsAreMetric
  <1>6. \A p \in PairsOf(n) : distances[p] = h[p]
    <2> SUFFICES ASSUME NEW p \in PairsOf(n) PROVE distances[p] = h[p]
      OBVIOUS
    <2>1. distances[p] \in Int /\ h[p] \in Int
      BY <1>2, <1>5
    <2>2. distances[p] <= h[p]
      BY <1>4 DEF h
    <2> QED BY <1>2, <2>1, <2>2
  <1>7. distances = h
    BY <1>2, <1>5, <1>6
  <1> QED BY <1>7, SameHops DEF Dist!NumQubits, n, E, h

(* A step of run changes the distances only in this way.                   *)
LEMMA DistStep == DistInv /\ [SetUpNext]_setUpVars => DistInv'
  <1> SUFFICES ASSUME DistInv, [SetUpNext]_setUpVars PROVE DistInv'
    OBVIOUS
  <1>1. Dist!Visit \/ UNCHANGED distVars
    BY DEF SetUpNext, setUpVars, BuildGraph, CheckSize, ComputeDistances,
           ChooseSearchCycles
  <1>2. CASE UNCHANGED distVars
    BY <1>2 DEF distVars, DistInv, Dist!TypeOK, Dist!NeverTooShort, CoupledAreNext,
           NoShortcutPassed, NoShortcutLeft, Passed, Dist!Hops, Dist!Pairs,
           Dist!Qubits, Dist!NumQubits, Dist!IsShortcut
  <1> QED BY <1>1, <1>2, DistVisit

(* So what calcDistances maintains is always true.                         *)
LEMMA DistInvCorrect == SetUpSpec => []DistInv
  <1>1. SetUpInit => DistInv
    BY DistInit DEF SetUpInit
  <1> QED BY <1>1, DistStep, PTL DEF SetUpSpec

(* calcDistances computes the least numbers of couplings, and is never     *)
(* below them on the way, for every coupling map.                          *)
THEOREM SetUpDistances == SetUpSpec => []DistancesCorrect
  <1>1. DistInv => DistancesCorrect
    BY DistReturned DEF DistancesCorrect, DistInv
  <1> QED BY <1>1, DistInvCorrect, PTL

-----------------------------------------------------------------------------
(* The number of search cycles.                                            *)

(* Diameter finds a largest distance.                                      *)
LEMMA DiameterIsLargest ==
    ASSUME NEW n \in Nat \ {0}, NEW d \in [PairsOf(n) -> 1..n-1],
           \A p \in PairsOf(n) : d[<<p[2], p[1]>>] = d[p]
    PROVE  \/ PairsOf(n) = {} /\ Diameter(d, n) = 0
           \/ /\ \A p \in PairsOf(n) : d[p] <= Diameter(d, n)
              /\ \E p \in PairsOf(n) : d[p] = Diameter(d, n)
  <1> DEFINE pairs == {p \in PairsOf(n) : p[1] < p[2]}
  <1>1. ASSUME NEW p \in PairsOf(n)
        PROVE  \E o \in pairs : d[o] = d[p]
    <2>1. <<p[2], p[1]>> \in PairsOf(n) /\ (p[1] < p[2] \/ p[2] < p[1])
          /\ <<p[2], p[1]>>[1] = p[2] /\ <<p[2], p[1]>>[2] = p[1]
      BY DEF PairsOf
    <2> QED BY <2>1
  <1>2. CASE pairs = {}
    <2>1. PairsOf(n) = {}
      BY <1>1, <1>2
    <2>2. Diameter(d, n) = 0
      BY <1>2 DEF Diameter
    <2> QED BY <2>1, <2>2
  <1>3. CASE pairs # {}
    <2> DEFINE T == {k \in 0..n : \E p \in pairs : d[p] = k}
    <2>1. \A p \in pairs : d[p] \in T
      OBVIOUS
    <2>2. PICK m \in T : \A k \in T : k <= m
      <3>1. T \in SUBSET (0..n) /\ T # {}
        BY <1>3, <2>1
      <3> HIDE DEF T
      <3> QED BY <3>1, Greatest
    <2>3. PICK t \in pairs : d[t] = m
      BY <2>2
    <2>4. \A o \in pairs : d[o] <= d[t]
      BY <2>1, <2>2, <2>3
    <2> DEFINE c == CHOOSE p \in pairs : \A o \in pairs : d[o] <= d[p]
    <2>5. c \in pairs /\ \A o \in pairs : d[o] <= d[c]
      <3> HIDE DEF pairs
      <3> QED BY <2>3, <2>4
    <2>6. Diameter(d, n) = d[c]
      BY <1>3 DEF Diameter
    <2>7. c \in PairsOf(n)
      BY <2>5
    <2> HIDE DEF c, pairs
    <2> QED BY <1>1, <2>5, <2>6, <2>7
  <1> QED BY <1>2, <1>3

(* What the search is given when run has come to it.                       *)
SearchInv ==
    stage = "ready" =>
        /\ returned
        /\ initialSearchCycles =
              IF run.initialSearchCycles < 0
              THEN Diameter(distances, couplingMap.numPhysicalQubits)
              ELSE run.initialSearchCycles

(* Nothing changes any more then.                                          *)
LEMMA SearchStep == SearchInv /\ [SetUpNext]_setUpVars => SearchInv'
  <1> SUFFICES ASSUME SearchInv, [SetUpNext]_setUpVars PROVE SearchInv'
    OBVIOUS
  <1>1. CASE BuildGraph \/ CheckSize \/ ComputeDistances
    BY <1>1 DEF SearchInv, BuildGraph, CheckSize, ComputeDistances
  <1>2. CASE ChooseSearchCycles
    BY <1>2 DEF SearchInv, ChooseSearchCycles, distVars
  <1>3. CASE UNCHANGED setUpVars
    BY <1>3 DEF SearchInv, setUpVars, distVars
  <1> QED BY <1>1, <1>2, <1>3 DEF SetUpNext

(* The number of search cycles that run chooses is the diameter of the     *)
(* device, for every coupling map.                                         *)
THEOREM SetUpSearchCycles == SetUpSpec => []SearchCyclesReach
  <1>1. SetUpInit => SearchInv
    BY DEF SetUpInit, SearchInv
  <1>2. SetUpSpec => []SearchInv
    BY <1>1, SearchStep, PTL DEF SetUpSpec
  <1>3. DistInv /\ SearchInv => SearchCyclesReach
    <2> SUFFICES ASSUME DistInv, SearchInv, stage = "ready", run.initialSearchCycles < 0
                 PROVE  \/ DOMAIN distances = {} /\ initialSearchCycles = 0
                        \/ /\ \A p \in DOMAIN distances : Dist!Hops[p] <= initialSearchCycles
                           /\ \E p \in DOMAIN distances : Dist!Hops[p] = initialSearchCycles
      BY DEF SearchCyclesReach
    <2> DEFINE n == couplingMap.numPhysicalQubits
    <2>1. returned /\ initialSearchCycles = Diameter(distances, n)
      BY DEF SearchInv
    <2>2. distances = Dist!Hops
      BY <2>1, DistReturned DEF Dist!DistancesCorrect
    <2>3. n \in Nat \ {0}
      BY CouplingMapFacts DEF DistInv, Dist!TypeOK
    <2>4. /\ distances \in [PairsOf(n) -> 1..n-1]
          /\ \A p \in PairsOf(n) : distances[<<p[2], p[1]>>] = distances[p]
      BY SamePairs DEF DistInv, Dist!TypeOK, Dist!NumQubits
    <2> HIDE DEF n
    <2>5. \/ PairsOf(n) = {} /\ initialSearchCycles = 0
          \/ /\ \A p \in PairsOf(n) : distances[p] <= initialSearchCycles
             /\ \E p \in PairsOf(n) : distances[p] = initialSearchCycles
      BY <2>1, <2>3, <2>4, DiameterIsLargest
    <2>6. DOMAIN distances = PairsOf(n)
      BY <2>4
    <2> QED BY <2>2, <2>5, <2>6
  <1> QED BY <1>2, <1>3, DistInvCorrect, PTL

-----------------------------------------------------------------------------
(* The dependence graph, in the steps of run.                              *)

(* It keeps its invariant.                                                 *)
LEMMA DependencyGraphStep ==
    DependencyGraphInv /\ [SetUpNext]_setUpVars => DependencyGraphInv'
  <1> SUFFICES ASSUME DependencyGraphInv, [SetUpNext]_setUpVars PROVE DependencyGraphInv'
    OBVIOUS
  <1>1. [Next]_vars
    BY DEF SetUpNext, setUpVars, BuildGraph, CheckSize, ComputeDistances,
           ChooseSearchCycles
  <1> QED BY <1>1, DependencyGraphNext

(* So the invariant of buildDependencyGraph and setCriticality holds.      *)
LEMMA DependencyGraphInvCorrect == SetUpSpec => []DependencyGraphInv
  <1>1. SetUpInit => DependencyGraphInv
    BY DependencyGraphInit DEF SetUpInit
  <1> QED BY <1>1, DependencyGraphStep, PTL DEF SetUpSpec

(* The pointers that buildDependencyGraph sets are the neighbours of the   *)
(* gates on each of their qubits, after every gate, for every circuit.     *)
THEOREM SetUpGraph == SetUpSpec => []GraphCorrect
  <1>1. DependencyGraphInv => GraphCorrect
    BY GraphInvImplies DEF DependencyGraphInv
  <1> QED BY <1>1, DependencyGraphInvCorrect, PTL

(* The root gates and the first two-qubit gates on the qubits are right.   *)
THEOREM SetUpRoots == SetUpSpec => []RootsCorrect
  <1>1. DependencyGraphInv => RootsCorrect
    BY GraphInvImplies DEF DependencyGraphInv
  <1> QED BY <1>1, DependencyGraphInvCorrect, PTL

(* setCriticality returns the graph that the gate list denotes, for every  *)
(* circuit and all latencies, in whatever order it meets the gates.        *)
THEOREM SetUpImplementsGraphOf == SetUpSpec => []ImplementsGraphOf
  <1> QED BY GraphAtEnd, DependencyGraphInvCorrect, PTL

(* What it returns is the length of the longest chain of the circuit.      *)
THEOREM SetUpIdealCycles == SetUpSpec => []IdealCyclesCorrect
  <1> QED BY IdealAtEnd, DependencyGraphInvCorrect, PTL

-----------------------------------------------------------------------------
(* What the search is given.                                               *)

(* run has built the graph, and its circuit fits the device, before it     *)
(* computes distances.                                                     *)
StageInv ==
    /\ run \in Runs
    /\ stage \in {"graph", "distances", "ready", "refused"}
    /\ initialSearchCycles \in Int
    /\ stage \in {"distances", "ready"} =>
          phase = "done" /\ numQubits <= couplingMap.numPhysicalQubits

(* The search cycles are a number: a diameter is a distance.               *)
LEMMA StageStep ==
    DependencyGraphInv /\ DistInv /\ StageInv /\ [SetUpNext]_setUpVars => StageInv'
  <1> SUFFICES ASSUME DependencyGraphInv, DistInv, StageInv, [SetUpNext]_setUpVars PROVE StageInv'
    OBVIOUS
  <1>1. CASE BuildGraph
    BY <1>1 DEF StageInv, BuildGraph, distVars
  <1>2. CASE CheckSize
    <2>1. UNCHANGED <<run, initialSearchCycles, phase, numQubits, couplingMap>>
      BY <1>2 DEF CheckSize, vars, buildVars, distVars
    <2>2. numQubits \in Int /\ couplingMap.numPhysicalQubits \in Int
      <3>1. numQubits \in Int
        BY DEF DependencyGraphInv, GraphInv
      <3>2. couplingMap.numPhysicalQubits \in Int
        BY CouplingMapFacts DEF DistInv, Dist!TypeOK
      <3> QED BY <3>1, <3>2
    <2>3. /\ phase = "done"
          /\ \/ stage' = "refused"
             \/ stage' = "distances" /\ numQubits <= couplingMap.numPhysicalQubits
      BY <1>2, <2>2 DEF CheckSize, IsTooLarge
    <2> QED BY <2>1, <2>3 DEF StageInv
  <1>3. CASE ComputeDistances
    BY <1>3 DEF StageInv, ComputeDistances, vars, buildVars, Dist!Visit
  <1>4. CASE ChooseSearchCycles
    <2>1. /\ UNCHANGED <<run, phase, numQubits, couplingMap>>
          /\ stage = "distances" /\ stage' = "ready"
      BY <1>4 DEF ChooseSearchCycles, vars, buildVars, distVars
    <2>2. initialSearchCycles' \in Int
      <3>1. couplingMap.numPhysicalQubits \in Nat \ {0}
        BY CouplingMapFacts DEF DistInv, Dist!TypeOK
      <3>2. /\ distances \in [PairsOf(couplingMap.numPhysicalQubits)
                                -> 1..couplingMap.numPhysicalQubits-1]
            /\ \A p \in PairsOf(couplingMap.numPhysicalQubits) :
                  distances[<<p[2], p[1]>>] = distances[p]
        BY SamePairs DEF DistInv, Dist!TypeOK, Dist!NumQubits
      <3> DEFINE n == couplingMap.numPhysicalQubits
                 d == Diameter(distances, n)
      <3>3. \/ PairsOf(n) = {} /\ d = 0
            \/ \E p \in PairsOf(n) : distances[p] = d
        <4> HIDE DEF n
        <4>1. n \in Nat \ {0} /\ distances \in [PairsOf(n) -> 1..n-1]
              /\ \A p \in PairsOf(n) : distances[<<p[2], p[1]>>] = distances[p]
          BY <3>1, <3>2 DEF n
        <4> QED BY <4>1, DiameterIsLargest
      <3>4. d \in Int
        <4> HIDE DEF d
        <4> QED BY <3>1, <3>2, <3>3
      <3>5. run.initialSearchCycles \in Int
        BY SetUpAssumption DEF StageInv
      <3> QED BY <1>4, <3>4, <3>5 DEF ChooseSearchCycles
    <2> QED BY <2>1, <2>2 DEF StageInv
  <1>5. CASE UNCHANGED setUpVars
    BY <1>5 DEF StageInv, setUpVars, vars, buildVars, distVars
  <1> QED BY <1>1, <1>2, <1>3, <1>4, <1>5 DEF SetUpNext

(* So it holds throughout the set-up.                                      *)
LEMMA StageInvCorrect == SetUpSpec => []StageInv
  <1>1. SetUpInit => StageInv
    BY SetUpAssumption DEF SetUpInit, StageInv
  <1> QED BY <1>1, StageStep, DependencyGraphInvCorrect, DistInvCorrect, PTL DEF SetUpSpec

(* The variables have the types that are given for them.                   *)
THEOREM SetUpTypeCorrect == SetUpSpec => []SetUpTypeOK
  <1>1. DependencyGraphInv /\ DistInv /\ StageInv => SetUpTypeOK
    BY GraphInvImplies DEF SetUpTypeOK, DependencyGraphInv, DistInv, StageInv
  <1> QED BY <1>1, DependencyGraphInvCorrect, DistInvCorrect, StageInvCorrect, PTL

(* Module Node has the operators of GateGraph too.                         *)
LEMMA SameGraphOperators ==
    ASSUME NEW gs
    PROVE  /\ Device!IsGraph(gs) <=> IsGraph(gs)
           /\ Device!Roots(gs) = Roots(gs)
           /\ \A v : Device!IsTwoQubit(v) <=> IsTwoQubit(v)
           /\ Device!NoGate = NoGate
           /\ \A g, q, h : Device!IsNextCNOT(gs, g, q, h) <=> IsNextCNOT(gs, g, q, h)
  BY Zenon DEF Device!IsGraph, IsGraph, Device!Roots, Roots, Device!IsTwoQubit, IsTwoQubit,
               Device!IsClosestBefore, IsClosestBefore, Device!IsClosestAfter,
               IsClosestAfter, Device!QubitsOf, QubitsOf, Device!ParentOn, ParentOn,
               Device!ChildOn, ChildOn, Device!NoGate, NoGate,
               Device!IsNextCNOT, IsNextCNOT

(* No circuit that needs more qubits than the device has, or with a gate   *)
(* on one qubit twice, gets to the search; what does is what the search is *)
(* assumed to start from.                                                  *)
THEOREM SetUpHandsOver == SetUpSpec => []HandsOverEnvironment
  <1>1. DependencyGraphInv /\ DistInv /\ StageInv => HandsOverEnvironment
    <2> SUFFICES ASSUME DependencyGraphInv, DistInv, StageInv, stage = "ready"
                 PROVE  /\ Device!IsEnvironment([gates |-> gates, firstGates |-> firstGates,
                                                 numLogical |-> numQubits])
                        /\ Len(gates) = Len(program)
      BY DEF HandsOverEnvironment
    <2> DEFINE n == couplingMap.numPhysicalQubits
               env == [gates |-> gates, firstGates |-> firstGates, numLogical |-> numQubits]
    <2>1. phase = "done" /\ numQubits <= n
      BY DEF StageInv
    <2>2. /\ AreNodes(gates) /\ Len(gates) \in Nat /\ IsGraph(gates)
          /\ firstGates = Roots(gates)
          /\ numQubits \in 0..MaxQubits /\ Len(gates) = Len(program)
          /\ \A g \in 1..Len(gates) : QubitsOf(gates[g]) \subseteq 0..numQubits-1
      BY <2>1 DEF DependencyGraphInv, GraphInv, AreNodes, Built
    <2>3. n \in Nat
      BY CouplingMapFacts DEF DistInv, Dist!TypeOK
    <2>4. numQubits \in 0..n /\ numQubits \in Nat
      BY <2>1, <2>2, <2>3
    <2>5. \A g \in 1..Len(gates) : gates[g] \in Device!GateNodes(numQubits)
      <3> SUFFICES ASSUME NEW g \in 1..Len(gates)
                   PROVE  gates[g] \in Device!GateNodes(numQubits)
        OBVIOUS
      <3> DEFINE v == gates[g]
      <3>1. /\ v \in GateNode(Len(gates))
            /\ QubitsOf(v) = IF IsTwoQubit(v) THEN {v.control, v.target} ELSE {v.target}
            /\ ~IsTwoQubit(v) => v.control = -1
        BY <2>2, NodeQubits
      <3>2. QubitsOf(v) \subseteq 0..numQubits-1
        BY <2>2
      <3> HIDE DEF v
      <3>3. v.target \in 0..numQubits-1
        BY <3>1, <3>2
      <3>4. v.control \in -1..numQubits-1
        <4>1. CASE IsTwoQubit(v)
          BY <2>4, <3>1, <3>2, <4>1
        <4>2. CASE ~IsTwoQubit(v)
          BY <2>4, <3>1, <4>2
        <4> QED BY <4>1, <4>2
      <3>5. 0..Len(gates) \subseteq Nat
        BY <2>2
      <3>6. v \in Device!GateNodes(numQubits)
        BY <3>1, <3>3, <3>4, <3>5 DEF Device!GateNodes, GateNode
      <3> QED BY <3>6 DEF v
    <2>6. gates \in Seq(Device!GateNodes(numQubits))
      <3>1. gates \in Seq(GateNode(Len(gates)))
        BY <2>2 DEF AreNodes
      <3>2. gates = [g \in 1..Len(gates) |-> gates[g]]
        BY <3>1
      <3> QED BY <2>2, <2>5, <3>2
    <2>7. \A g \in 1..Len(gates) :
              /\ gates[g].control # gates[g].target
              /\ ~Device!IsTwoQubit(gates[g]) => /\ gates[g].controlParent = Device!NoGate
                                                 /\ gates[g].controlChild = Device!NoGate
      BY <2>2, SameGraphOperators DEF AreNodes
    <2>11. \A g \in 1..Len(gates) :
              /\ Device!IsNextCNOT(gates, g, gates[g].target, gates[g].nextTargetCNOT)
              /\ Device!IsTwoQubit(gates[g]) =>
                   Device!IsNextCNOT(gates, g, gates[g].control, gates[g].nextControlCNOT)
      <3> SUFFICES ASSUME NEW g \in 1..Len(gates)
                   PROVE  /\ IsNextCNOT(gates, g, gates[g].target, gates[g].nextTargetCNOT)
                          /\ IsTwoQubit(gates[g]) =>
                               IsNextCNOT(gates, g, gates[g].control, gates[g].nextControlCNOT)
        BY SameGraphOperators
      <3>1. /\ QubitsOf(gates[g]) = IF IsTwoQubit(gates[g])
                                   THEN {gates[g].control, gates[g].target}
                                   ELSE {gates[g].target}
            /\ gates[g].control # gates[g].target
        BY <2>2, NodeQubits DEF AreNodes
      <3>2. \A q \in QubitsOf(gates[g]) : IsNextCNOT(gates, g, q, NextOn(gates[g], q))
        BY <2>1, NextAtEnd
      <3>3. NextOn(gates[g], gates[g].target) = gates[g].nextTargetCNOT
        BY <3>1 DEF NextOn
      <3>4. NextOn(gates[g], gates[g].control) = gates[g].nextControlCNOT
        BY DEF NextOn
      <3> QED BY <3>1, <3>2, <3>3, <3>4
    <2>8. Device!IsGraph(gates) /\ firstGates = Device!Roots(gates)
      BY <2>2, SameGraphOperators
    <2>9. env.gates = gates /\ env.firstGates = firstGates /\ env.numLogical = numQubits
      OBVIOUS
    <2> HIDE DEF env
    <2>10. Device!IsEnvironment(env)
      BY <2>4, <2>6, <2>7, <2>8, <2>9, <2>11 DEF Device!IsEnvironment
    <2> QED BY <2>2, <2>10 DEF env
  <1> QED BY <1>1, DependencyGraphInvCorrect, DistInvCorrect, StageInvCorrect, PTL

=============================================================================
