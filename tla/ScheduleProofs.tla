--------------------------- MODULE ScheduleProofs ---------------------------
(***************************************************************************)
(* What every step of a search keeps true of a schedule, and what follows  *)
(* for the result of a final node. No variable occurs: NodePath and the    *)
(* main loop of the search both rest on these lemmas.                      *)
(***************************************************************************)
EXTENDS Result, NodeProofs

-----------------------------------------------------------------------------

(* The ready gates.                                                        *)

(* The gates in the schedule of a node, and the last gate of each logical  *)
(* qubit.                                                                  *)
DoneOf(n) == {n.scheduled[i].gate : i \in DOMAIN n.scheduled}

(* The last gate of each logical qubit; -1 if there is none.               *)
LastOf(n) == [q \in Physical |-> n.lastNonSwapGate[q].gate]

(* The inductive invariant: what the code remembers of the schedule on     *)
(* each logical qubit is right, the gates still to be visited are          *)
(* distinct, and together with the ready gates they are the frontier.      *)
Progress(e, n, p) ==
    /\ AreLast(e.gates, DoneOf(n), LastOf(n))
    /\ \A i, j \in DOMAIN p : p[i] = p[j] => i = j
    /\ \A i \in DOMAIN p : p[i] \notin n.readyGates
    /\ \A c \in 1..Len(e.gates) :
          c \in FrontierOf(e.gates, DoneOf(n))
             <=> c \in n.readyGates \/ \E i \in DOMAIN p : p[i] = c
    /\ n.numUnscheduledGates = Cardinality(1..Len(e.gates) \ DoneOf(n))

(* A gate that is appended to the schedule is done.                        *)
LEMMA DoneAppend ==
    ASSUME NEW n \in Nodes, NEW m, NEW sg \in ScheduledGates,
           m.scheduled = Append(n.scheduled, sg)
    PROVE  DoneOf(m) = DoneOf(n) \cup {sg.gate}
  <1> DEFINE s == n.scheduled
             t == Append(s, sg)
             k == Len(s) + 1
  <1>1. s \in Seq(ScheduledGates) /\ Len(s) \in Nat
    BY DEF Nodes
  <1>2. DOMAIN t = 1..k /\ t[k] = sg /\ k \in 1..k
    BY <1>1
  <1>3. \A i \in 1..k : i # k => i \in DOMAIN s /\ t[i] = s[i]
    BY <1>1
  <1>4. \A i \in DOMAIN s : i \in 1..k /\ t[i] = s[i]
    BY <1>1
  <1> HIDE DEF s, t, k
  <1>5. DoneOf(m) = {t[i].gate : i \in DOMAIN t}
    BY DEF DoneOf, t, s
  <1>6. DoneOf(n) = {s[i].gate : i \in DOMAIN s}
    BY DEF DoneOf, s
  <1>7. \A x \in DoneOf(m) : x \in DoneOf(n) \cup {sg.gate}
    BY <1>2, <1>3, <1>5, <1>6
  <1>8. \A x \in DoneOf(n) \cup {sg.gate} : x \in DoneOf(m)
    BY <1>2, <1>4, <1>5, <1>6
  <1> QED BY <1>7, <1>8

(* Progress only looks at four fields of the node.                         *)
LEMMA ProgressDependsOn ==
    ASSUME NEW e, NEW p, NEW n, NEW m, Progress(e, n, p),
           m.scheduled = n.scheduled, m.lastNonSwapGate = n.lastNonSwapGate,
           m.readyGates = n.readyGates,
           m.numUnscheduledGates = n.numUnscheduledGates
    PROVE  Progress(e, m, p)
  <1>1. DoneOf(m) = DoneOf(n) /\ LastOf(m) = LastOf(n)
    BY DEF DoneOf, LastOf
  <1> QED BY <1>1 DEF Progress

(* A generated swap is no gate of the circuit.                             *)
LEMMA SwapProgress ==
    ASSUME NEW e, IsEnvironment(e), NEW p, NEW n \in Nodes, Progress(e, n, p),
           NEW sg \in ScheduledGates, sg.gate = 0, NEW m,
           m.scheduled = Append(n.scheduled, sg),
           m.lastNonSwapGate = n.lastNonSwapGate,
           m.readyGates = n.readyGates,
           m.numUnscheduledGates = n.numUnscheduledGates
    PROVE  Progress(e, m, p)
  <1> DEFINE D == DoneOf(n)
             N == 1..Len(e.gates)
  <1>1. DoneOf(m) = D \cup {0} /\ LastOf(m) = LastOf(n)
    BY DoneAppend DEF LastOf
  <1>2. Len(e.gates) \in Nat
    BY DEF IsEnvironment
  <1>3. \A g \in N : g # 0 /\ \A h \in 1..g-1 : h # 0
    BY <1>2
  <1> HIDE DEF D
  <1>4. FrontierOf(e.gates, D \cup {0}) = FrontierOf(e.gates, D)
    BY <1>3 DEF FrontierOf
  <1>5. N \ (D \cup {0}) = N \ D
    BY <1>3
  <1>6. AreLast(e.gates, D, LastOf(n)) => AreLast(e.gates, D \cup {0}, LastOf(n))
    BY <1>3 DEF AreLast
  <1> QED BY <1>1, <1>4, <1>5, <1>6 DEF Progress, D

(* The concatenation of two sequences has the elements of both.            *)
LEMMA ConcatElements ==
    ASSUME NEW S, NEW u \in Seq(S), NEW p \in Seq(S),
           \A i, j \in DOMAIN u : u[i] = u[j] => i = j,
           \A i, j \in DOMAIN p : p[i] = p[j] => i = j,
           \A i \in DOMAIN u, j \in DOMAIN p : u[i] # p[j]
    PROVE  /\ \A i, j \in DOMAIN (u \o p) : (u \o p)[i] = (u \o p)[j] => i = j
           /\ \A c : (\E i \in DOMAIN (u \o p) : (u \o p)[i] = c)
                        <=> (\E i \in DOMAIN u : u[i] = c) \/ (\E i \in DOMAIN p : p[i] = c)
  <1> DEFINE w == u \o p
             k == Len(u)
             l == Len(p)
  <1>1. /\ w \in Seq(S) /\ Len(w) = k + l
        /\ \A i \in 1..k+l : w[i] = IF i <= k THEN u[i] ELSE p[i-k]
    BY ConcatProperties
  <1>2. k \in Nat /\ l \in Nat /\ DOMAIN u = 1..k /\ DOMAIN p = 1..l
    OBVIOUS
  <1>3. DOMAIN w = 1..k+l
    BY <1>1
  <1> HIDE DEF w, k, l
  <1>4. \A i \in 1..k+l : \/ i \in 1..k /\ w[i] = u[i]
                          \/ i-k \in 1..l /\ w[i] = p[i-k] /\ ~(i <= k)
    BY <1>1, <1>2
  <1>5. \A i \in 1..k : i \in 1..k+l /\ w[i] = u[i]
    BY <1>1, <1>2
  <1>6. \A i \in 1..l : i+k \in 1..k+l /\ w[i+k] = p[i]
    <2> SUFFICES ASSUME NEW i \in 1..l
                 PROVE  i+k \in 1..k+l /\ w[i+k] = p[i]
      OBVIOUS
    <2>1. i+k \in 1..k+l /\ ~(i+k <= k) /\ (i+k)-k = i
      BY <1>2
    <2> QED BY <1>1, <2>1
  <1>7. ASSUME NEW i \in 1..k+l, NEW j \in 1..k+l, w[i] = w[j]
        PROVE  i = j
    <2>1. CASE i \in 1..k /\ w[i] = u[i]
      <3>1. j \in 1..k /\ w[j] = u[j]
        BY <1>2, <1>4, <1>7, <2>1
      <3> QED BY <1>2, <1>7, <2>1, <3>1
    <2>2. CASE i-k \in 1..l /\ w[i] = p[i-k]
      <3>1. j-k \in 1..l /\ w[j] = p[j-k]
        BY <1>2, <1>4, <1>7, <2>2
      <3>2. i-k = j-k
        BY <1>2, <1>7, <2>2, <3>1
      <3> QED BY <1>2, <3>2
    <2> QED BY <1>4, <2>1, <2>2
  <1>8. ASSUME NEW c
        PROVE  (\E i \in 1..k+l : w[i] = c)
                  <=> (\E i \in 1..k : u[i] = c) \/ (\E i \in 1..l : p[i] = c)
    <2>1. ASSUME NEW i \in 1..k+l, w[i] = c
          PROVE  (\E j \in 1..k : u[j] = c) \/ (\E j \in 1..l : p[j] = c)
      BY <1>4, <2>1
    <2>2. ASSUME NEW i \in 1..k, u[i] = c
          PROVE  \E j \in 1..k+l : w[j] = c
      BY <1>5, <2>2
    <2>3. ASSUME NEW i \in 1..l, p[i] = c
          PROVE  \E j \in 1..k+l : w[j] = c
      BY <1>6, <2>3
    <2> QED BY <2>1, <2>2, <2>3
  <1> QED BY <1>2, <1>3, <1>7, <1>8 DEF w

(* Scheduling a ready gate and finding out which gates that unblocks.      *)
LEMMA GateProgress ==
    ASSUME NEW e, IsEnvironment(e), NEW n \in Nodes, n.cycle >= 0,
           NEW p \in Seq(1..Len(e.gates)), Progress(e, n, p),
           NEW g \in 1..Len(e.gates), g \in n.readyGates
    PROVE  Progress(e, ScheduleAlone(n, e.gates, g), Unblocked(n, e.gates, g) \o p)
  <1> DEFINE gs == e.gates
             N == 1..Len(e.gates)
             D == DoneOf(n)
             sg == EntryOf(n, gs, g)
             m == ScheduleAlone(n, gs, g)
             u == Unblocked(n, gs, g)
             Shares(c) == QubitsOf(gs[c]) \cap QubitsOf(gs[g]) # {}
             F == FrontierOf(gs, D)
             F1 == FrontierOf(gs, D \cup {g})
  <1>1. /\ AreLast(gs, D, LastOf(n))
        /\ \A i, j \in DOMAIN p : p[i] = p[j] => i = j
        /\ \A i \in DOMAIN p : p[i] \notin n.readyGates
        /\ \A c \in N : c \in F <=> c \in n.readyGates \/ \E i \in DOMAIN p : p[i] = c
        /\ n.numUnscheduledGates = Cardinality(N \ D)
    BY DEF Progress
  <1>2. g \in F /\ g \notin D
    BY <1>1 DEF FrontierOf
  <1>3. sg \in ScheduledGates /\ sg.gate = g
    BY EntryOfFields
  <1>4. /\ m.scheduled = Append(n.scheduled, sg)
        /\ \A q \in Physical : m.lastNonSwapGate[q] =
              IF q \in QubitsOf(gs[g]) THEN sg ELSE n.lastNonSwapGate[q]
        /\ m.readyGates = n.readyGates \ {g}
        /\ m.numUnscheduledGates = n.numUnscheduledGates - 1
    BY <1>3, ScheduleAloneFields
  <1>5. DoneOf(m) = D \cup {g}
    <2> HIDE DEF sg, m
    <2> QED BY <1>3, <1>4, DoneAppend
  <1>6. AreLast(gs, D \cup {g}, LastOf(m))
    <2>1. AreLast(gs, D \cup {g}, NowLast(gs, LastOf(n), g))
      BY <1>1, <1>2, AreLastStep
    <2>2. \A q \in Physical : LastOf(m)[q] = NowLast(gs, LastOf(n), g)[q]
      <3> HIDE DEF m, sg
      <3> QED BY <1>3, <1>4 DEF LastOf, NowLast
    <2> QED BY <2>1, <2>2 DEF AreLast
  <1>7. /\ u \in Seq(N)
        /\ \A i, j \in DOMAIN u : u[i] = u[j] => i = j
        /\ \A c \in N : (\E i \in DOMAIN u : u[i] = c) <=> c \in F1 /\ Shares(c)
    <2>1. \A r \in Physical : LastOf(n)[r] = n.lastNonSwapGate[r].gate
      BY DEF LastOf
    <2>2. UnblockedAre(e.gates, n, DoneOf(n), g)
      <3>1. AreLast(e.gates, DoneOf(n), LastOf(n)) /\ g \in FrontierOf(e.gates, DoneOf(n))
        BY <1>1, <1>2
      <3> QED BY <2>1, <3>1, UnblockedExact
    <2> QED BY <2>2 DEF UnblockedAre
  <1>8. \A c \in N : /\ ~Shares(c) => c # g /\ (c \in F1 <=> c \in F)
                     /\ Shares(c) /\ c # g => c \notin F
    <2> SUFFICES ASSUME NEW c \in N
                 PROVE  /\ ~Shares(c) => c # g /\ (c \in F1 <=> c \in F)
                        /\ Shares(c) /\ c # g => c \notin F
      OBVIOUS
    <2> QED BY <1>1, <1>2, FrontierStep
  <1>9. g \notin F1
    BY DEF FrontierOf
  <1> HIDE DEF gs, D, m, u, Shares, F, F1, sg
  <1>10. \A i \in DOMAIN u : u[i] \in N /\ u[i] \notin F /\ u[i] # g
    <2> SUFFICES ASSUME NEW i \in DOMAIN u
                 PROVE  u[i] \in N /\ u[i] \notin F /\ u[i] # g
      OBVIOUS
    <2>1. u[i] \in N
      <3> HIDE DEF N
      <3> QED BY <1>7
    <2>2. u[i] \in F1 /\ Shares(u[i])
      BY <1>7, <2>1
    <2> QED BY <1>8, <1>9, <2>1, <2>2
  <1>11. \A j \in DOMAIN p : p[j] \in N /\ p[j] \in F
    <2> SUFFICES ASSUME NEW j \in DOMAIN p
                 PROVE  p[j] \in N /\ p[j] \in F
      OBVIOUS
    <2>1. p[j] \in N
      <3> HIDE DEF N
      <3>1. p \in Seq(N)
        BY DEF N
      <3> QED BY <3>1
    <2> QED BY <1>1, <2>1
  <1>12. /\ \A i, j \in DOMAIN (u \o p) : (u \o p)[i] = (u \o p)[j] => i = j
         /\ \A c : (\E i \in DOMAIN (u \o p) : (u \o p)[i] = c)
                      <=> (\E i \in DOMAIN u : u[i] = c) \/ (\E i \in DOMAIN p : p[i] = c)
    <2>1. \A i \in DOMAIN u, j \in DOMAIN p : u[i] # p[j]
      BY <1>10, <1>11
    <2>2. p \in Seq(N)
      OBVIOUS
    <2> HIDE DEF N
    <2> QED BY <1>1, <1>7, <2>1, <2>2, ConcatElements
  <1> DEFINE w == u \o p
  <1> HIDE DEF w
  <1>13. \A i \in DOMAIN w : w[i] \notin m.readyGates
    <2> SUFFICES ASSUME NEW i \in DOMAIN w, w[i] \in n.readyGates, w[i] # g
                 PROVE  FALSE
      BY <1>4
    <2>1. (\E j \in DOMAIN u : u[j] = w[i]) \/ (\E j \in DOMAIN p : p[j] = w[i])
      BY <1>12 DEF w
    <2>2. CASE \E j \in DOMAIN u : u[j] = w[i]
      BY <1>1, <1>10, <2>2
    <2>3. CASE \E j \in DOMAIN p : p[j] = w[i]
      BY <1>1, <2>3
    <2> QED BY <2>1, <2>2, <2>3
  <1>14. \A c \in N : c \in F1 <=> c \in m.readyGates \/ \E i \in DOMAIN w : w[i] = c
    <2> SUFFICES ASSUME NEW c \in N
                 PROVE  c \in F1 <=> \/ c \in n.readyGates /\ c # g
                                     \/ \E i \in DOMAIN u : u[i] = c
                                     \/ \E i \in DOMAIN p : p[i] = c
      BY <1>4, <1>12 DEF w
    <2>1. p[1] \in {p[1]} /\ \A i \in DOMAIN p : p[i] # g
      BY <1>1
    <2>2. c \in F <=> c \in n.readyGates \/ \E i \in DOMAIN p : p[i] = c
      BY <1>1
    <2>3. (\E i \in DOMAIN u : u[i] = c) <=> c \in F1 /\ Shares(c)
      BY <1>7
    <2>4. CASE Shares(c)
      BY <1>8, <1>9, <2>1, <2>2, <2>3, <2>4
    <2>5. CASE ~Shares(c)
      BY <1>8, <2>1, <2>2, <2>3, <2>5
    <2> QED BY <2>4, <2>5
  <1>15. m.numUnscheduledGates = Cardinality(N \ (D \cup {g}))
    <2>1. IsFiniteSet(N)
      BY FS_Interval DEF IsEnvironment
    <2>2. IsFiniteSet(N \ D)
      BY <2>1, FS_Difference
    <2>3. g \in N \ D /\ (N \ D) \ {g} = N \ (D \cup {g})
      BY <1>2
    <2>4. Cardinality((N \ D) \ {g}) = Cardinality(N \ D) - 1
      BY <2>2, <2>3, FS_RemoveElement
    <2> QED BY <1>1, <1>4, <2>3, <2>4
  <1>16. Progress(e, m, w)
    BY <1>5, <1>6, <1>12, <1>13, <1>14, <1>15 DEF Progress, F1, gs, w
  <1> QED BY <1>16 DEF m, w, u, gs

(* One iteration of a loop over unblocked gates.                           *)
LEMMA ReadyProgress ==
    ASSUME NEW e, IsEnvironment(e), NEW n \in Nodes,
           NEW p \in Seq(1..Len(e.gates)), p # <<>>, Progress(e, n, p)
    PROVE  Progress(e, MakeReady(n, Head(p)), Tail(p))
  <1> DEFINE N == 1..Len(e.gates)
             c == Head(p)
             m == MakeReady(n, c)
             t == Tail(p)
  <1>1. /\ p \in Seq(N) /\ t \in Seq(N) /\ c \in N /\ Len(p) \in Nat
        /\ Len(p) > 0 /\ c = p[1] /\ 1 \in DOMAIN p
    OBVIOUS
  <1>2. /\ DOMAIN p = 1..Len(p) /\ DOMAIN t = 1..Len(p)-1
        /\ \A i \in 1..Len(p)-1 : t[i] = p[i+1]
    OBVIOUS
  <1>3. c \in Nat
    BY <1>1 DEF IsEnvironment
  <1>4. /\ m.readyGates = n.readyGates \cup {c}
        /\ m.scheduled = n.scheduled /\ m.lastNonSwapGate = n.lastNonSwapGate
        /\ m.numUnscheduledGates = n.numUnscheduledGates
    BY <1>3, MakeReadyFields
  <1>5. DoneOf(m) = DoneOf(n) /\ LastOf(m) = LastOf(n)
    <2> HIDE DEF m
    <2> QED BY <1>4 DEF DoneOf, LastOf
  <1>6. /\ \A i, j \in DOMAIN p : p[i] = p[j] => i = j
        /\ \A i \in DOMAIN p : p[i] \notin n.readyGates
        /\ \A x \in N : x \in FrontierOf(e.gates, DoneOf(n))
              <=> x \in n.readyGates \/ \E i \in DOMAIN p : p[i] = x
    BY DEF Progress
  <1> HIDE DEF c, m, t
  <1>7. \A i \in 1..Len(p)-1 : i+1 \in DOMAIN p /\ i+1 # 1
    BY <1>1, <1>2
  <1>8. \A i, j \in DOMAIN t : t[i] = t[j] => i = j
    <2> SUFFICES ASSUME NEW i \in 1..Len(p)-1, NEW j \in 1..Len(p)-1, t[i] = t[j]
                 PROVE  i = j
      BY <1>2
    <2>1. p[i+1] = p[j+1]
      BY <1>2
    <2>2. i+1 \in DOMAIN p /\ j+1 \in DOMAIN p
      BY <1>7
    <2>3. i+1 = j+1
      <3> DEFINE a == i+1
                 b == j+1
      <3>1. p[a] = p[b] /\ a \in DOMAIN p /\ b \in DOMAIN p
        BY <2>1, <2>2
      <3> HIDE DEF a, b
      <3>2. a = b
        BY <1>6, <3>1
      <3> QED BY <3>2 DEF a, b
    <2> QED BY <1>1, <2>3
  <1>9. \A i \in DOMAIN t : t[i] \notin m.readyGates
    <2> SUFFICES ASSUME NEW i \in 1..Len(p)-1
                 PROVE  p[i+1] \notin n.readyGates /\ p[i+1] # p[1]
      BY <1>1, <1>2, <1>4
    <2> QED BY <1>1, <1>6, <1>7
  <1>10. \A x : (\E i \in DOMAIN p : p[i] = x) <=> x = c \/ \E i \in DOMAIN t : t[i] = x
    <2> SUFFICES ASSUME NEW x
                 PROVE  (\E i \in DOMAIN p : p[i] = x)
                           <=> x = c \/ \E i \in DOMAIN t : t[i] = x
      OBVIOUS
    <2>1. ASSUME NEW i \in DOMAIN p, p[i] = x, i # 1
          PROVE  \E j \in DOMAIN t : t[j] = x
      <3>1. i-1 \in 1..Len(p)-1 /\ (i-1)+1 = i
        BY <1>1, <1>2, <2>1
      <3> QED BY <1>2, <2>1, <3>1
    <2>2. ASSUME NEW j \in DOMAIN t, t[j] = x
          PROVE  \E i \in DOMAIN p : p[i] = x
      BY <1>2, <1>7, <2>2
    <2> QED BY <1>1, <2>1, <2>2
  <1>11. \A x \in N : x \in FrontierOf(e.gates, DoneOf(n))
            <=> x \in m.readyGates \/ \E i \in DOMAIN t : t[i] = x
    BY <1>4, <1>6, <1>10
  <1>12. Progress(e, m, t)
    BY <1>4, <1>5, <1>8, <1>9, <1>11 DEF Progress
  <1> QED BY <1>12 DEF m, t, c

(* The root node.                                                          *)
LEMMA RootProgress ==
    ASSUME NEW e, IsEnvironment(e), NEW n,
           n.scheduled = <<>>, n.lastNonSwapGate = [q \in Physical |-> Null],
           n.readyGates = e.firstGates, n.numUnscheduledGates = Len(e.gates)
    PROVE  Progress(e, n, <<>>)
  <1>1. Len(e.gates) \in Nat /\ e.firstGates = Roots(e.gates)
    BY DEF IsEnvironment
  <1>2. DoneOf(n) = {}
    BY DEF DoneOf
  <1>3. \A q \in Physical : LastOf(n)[q] = -1
    BY DEF LastOf, Null
  <1>4. AreLast(e.gates, DoneOf(n), LastOf(n))
    BY <1>1, <1>2, <1>3 DEF AreLast
  <1>5. \A c \in 1..Len(e.gates) : c \in FrontierOf(e.gates, {}) <=> c \in e.firstGates
    <2> SUFFICES ASSUME NEW c \in 1..Len(e.gates)
                 PROVE  c \in FrontierOf(e.gates, {}) <=> c \in Roots(e.gates)
      BY <1>1
    <2>1. c \in FrontierOf(e.gates, {}) <=>
              \A h \in 1..(c-1) : QubitsOf(e.gates[h]) \cap QubitsOf(e.gates[c]) = {}
      BY DEF FrontierOf
    <2>2. c \in Roots(e.gates) <=>
              \A q \in QubitsOf(e.gates[c]) : \A k \in 1..(c-1) : q \notin QubitsOf(e.gates[k])
      <3>1. 0 \in 0..(c-1) /\ 0+1 = 1
        BY <1>1
      <3> QED BY <3>1 DEF Roots, IsClosestBefore, NoGate
    <2> QED BY <2>1, <2>2
  <1>6. Cardinality(1..Len(e.gates)) = Len(e.gates)
    BY <1>1, FS_Interval
  <1>7. 1..Len(e.gates) \ {} = 1..Len(e.gates)
    OBVIOUS
  <1>8. DOMAIN <<>> = {}
    OBVIOUS
  <1> QED BY <1>2, <1>4, <1>5, <1>6, <1>7, <1>8 DEF Progress

(* The first of the gates that are not in the schedule is on the frontier. *)
LEMMA FrontierNotEmpty ==
    ASSUME NEW e, IsEnvironment(e), NEW done, 1..Len(e.gates) \ done # {}
    PROVE  FrontierOf(e.gates, done) # {}
  <1> DEFINE T == 1..Len(e.gates) \ done
  <1>1. Len(e.gates) \in Nat
    BY DEF IsEnvironment
  <1>2. T \in SUBSET Nat /\ T # {}
    BY <1>1
  <1>3. PICK g \in T : \A k \in T : g <= k
    <2> HIDE DEF T
    <2> QED BY <1>2, Least
  <1>4. \A h \in 1..(g-1) : h \in done
    <2> SUFFICES ASSUME NEW h \in 1..(g-1), h \notin done
                 PROVE  FALSE
      OBVIOUS
    <2>1. h \in 1..Len(e.gates) /\ h < g
      BY <1>1, <1>3
    <2>2. h \in T
      BY <2>1
    <2> QED BY <1>1, <1>3, <2>1, <2>2
  <1>5. g \in FrontierOf(e.gates, done)
    BY <1>3, <1>4 DEF FrontierOf
  <1> QED BY <1>5

-----------------------------------------------------------------------------

(* The time between gates that depend on each other.                       *)

(* A gate of the circuit, scheduled on physical qubits.                    *)
OfCircuit(a) == a.gate # GeneratedSwap /\ a.physicalTarget # Unmapped

(* The physical qubit that now holds logical qubit q remembers a gate that *)
(* ends no earlier than entry a, wherever q was when a was scheduled.      *)
Remembered(n, a, q) ==
    /\ n.laq[q] # Unmapped
    /\ a.latency # 0 =>
          /\ n.lastNonZeroLatencyGate[n.laq[q]] # Null
          /\ EndOf(a) <= EndOf(n.lastNonZeroLatencyGate[n.laq[q]])

(* Entry b, which depends on entry a, starts late enough.                  *)
InTime(a, b) == IF b.latency = 0 THEN a.cycle <= b.cycle ELSE EndOf(a) <= b.cycle

(* The inductive invariant for DependenciesInTime.                         *)
NotLater(n) == \A i \in DOMAIN n.scheduled : n.scheduled[i].cycle <= n.cycle

(* All gates of the circuit are remembered at all of their qubits.         *)
AllRemembered(e, n) ==
    \A i \in DOMAIN n.scheduled : OfCircuit(n.scheduled[i]) =>
        \A q \in QubitsOf(e.gates[n.scheduled[i].gate]) : Remembered(n, n.scheduled[i], q)

(* Every gate of the circuit waits for those before it on its qubits.      *)
AllInTime(e, s) ==
    \A i, j \in DOMAIN s :
        /\ i < j /\ OfCircuit(s[i]) /\ OfCircuit(s[j])
        /\ QubitsOf(e.gates[s[i].gate]) \cap QubitsOf(e.gates[s[j].gate]) # {}
        => InTime(s[i], s[j])

(* All of this together.                                                   *)
Timing(e, n) ==
    /\ \A i \in DOMAIN n.scheduled : n.scheduled[i].gate \in 0..Len(e.gates)
    /\ NotLater(n)
    /\ AllRemembered(e, n)
    /\ AllInTime(e, n.scheduled)

(* The entries of a node's schedule are ScheduledGates.                    *)
LEMMA EntriesOfNode ==
    ASSUME NEW n \in Nodes, NEW i \in DOMAIN n.scheduled
    PROVE  n.scheduled[i] \in ScheduledGates /\ n.scheduled[i].cycle \in Nat
  <1> DEFINE s == n.scheduled
  <1>1. s \in Seq(ScheduledGates)
    BY DEF Nodes
  <1>2. i \in DOMAIN s
    OBVIOUS
  <1> HIDE DEF s
  <1>3. s[i] \in ScheduledGates
    BY <1>1, <1>2
  <1>4. s[i].cycle \in Nat
    BY <1>3 DEF ScheduledGates
  <1> QED BY <1>3, <1>4 DEF s

(* If the physical qubit of q is free, entry a has ended.                  *)
LEMMA EndedIfFree ==
    ASSUME NEW n \in Nodes, NEW a \in ScheduledGates, NEW q \in Physical,
           Remembered(n, a, q), a.cycle <= n.cycle, BusyCycles(n, n.laq[q]) = 0
    PROVE  EndOf(a) <= n.cycle
  <1> DEFINE p == n.laq[q]
  <1>1. p \in Physical /\ n.cycle \in Int
    BY DEF Nodes, Place, Remembered
  <1>2. a.cycle \in Nat /\ a.latency \in Nat /\ EndOf(a) = a.cycle + a.latency
        /\ EndOf(a) \in Nat
    BY DEF ScheduledGates, EndOf
  <1>3. CASE a.latency = 0
    BY <1>1, <1>2, <1>3
  <1>4. CASE a.latency # 0
    <2>1. n.lastNonZeroLatencyGate[p] # Null
          /\ EndOf(a) <= EndOf(n.lastNonZeroLatencyGate[p])
      BY <1>4 DEF Remembered
    <2>2. EndOf(n.lastNonZeroLatencyGate[p]) <= n.cycle + BusyCycles(n, p)
      BY <1>1, <2>1, BusyCyclesBound
    <2>3. EndOf(n.lastNonZeroLatencyGate[p]) \in Int
      <3>1. n.lastNonZeroLatencyGate[p] \in ScheduledGates
        BY <1>1, <2>1 DEF Nodes
      <3> QED BY <3>1, EndOfEntry
    <2>4. BusyCycles(n, p) = 0
      OBVIOUS
    <2> HIDE DEF p
    <2> QED BY <1>1, <1>2, <2>1, <2>2, <2>3, <2>4
  <1> QED BY <1>3, <1>4

(* One more entry in the schedule.                                         *)
LEMMA TimingAppend ==
    ASSUME NEW e, NEW n \in Nodes, Timing(e, n), Len(e.gates) \in Nat,
           NEW sg \in ScheduledGates, sg.cycle = n.cycle, sg.gate \in 0..Len(e.gates),
           NEW m, m.scheduled = Append(n.scheduled, sg), m.cycle = n.cycle,
           \A i \in DOMAIN n.scheduled : OfCircuit(n.scheduled[i]) =>
               \A q \in QubitsOf(e.gates[n.scheduled[i].gate]) :
                   Remembered(m, n.scheduled[i], q),
           OfCircuit(sg) => \A q \in QubitsOf(e.gates[sg.gate]) : Remembered(m, sg, q),
           \A i \in DOMAIN n.scheduled :
               /\ OfCircuit(n.scheduled[i]) /\ OfCircuit(sg)
               /\ QubitsOf(e.gates[n.scheduled[i].gate]) \cap QubitsOf(e.gates[sg.gate]) # {}
               => InTime(n.scheduled[i], sg)
    PROVE  Timing(e, m)
  <1> DEFINE s == n.scheduled
             t == Append(s, sg)
             k == Len(s) + 1
  <1>1. s \in Seq(ScheduledGates) /\ Len(s) \in Nat /\ n.cycle \in Int
    BY DEF Nodes
  <1>2. DOMAIN t = 1..k /\ t[k] = sg
    BY <1>1
  <1>3. \A i \in 1..k : i # k => i \in DOMAIN s /\ t[i] = s[i]
    BY <1>1
  <1>4. m.scheduled = t /\ k \in Nat
    BY <1>1
  <1> HIDE DEF t, k
  <1>5. \A i \in 1..k : m.scheduled[i].gate \in 0..Len(e.gates)
    BY <1>2, <1>3, <1>4 DEF Timing
  <1>6. \A i \in 1..k : m.scheduled[i].cycle <= m.cycle
    <2>1. \A i \in DOMAIN s : s[i].cycle <= n.cycle
      BY DEF Timing, NotLater
    <2>2. sg.cycle <= n.cycle
      BY <1>1
    <2> HIDE DEF s
    <2> QED BY <1>2, <1>3, <1>4, <2>1, <2>2
  <1>7. AllRemembered(e, m)
    <2> SUFFICES ASSUME NEW i \in 1..k, OfCircuit(t[i]),
                        NEW q \in QubitsOf(e.gates[t[i].gate])
                 PROVE  Remembered(m, t[i], q)
      BY <1>2, <1>4 DEF AllRemembered
    <2>1. CASE i = k
      BY <1>2, <2>1
    <2>2. CASE i # k
      BY <1>3, <2>2
    <2> QED BY <2>1, <2>2
  <1>8. AllInTime(e, t)
    <2> SUFFICES ASSUME NEW i \in 1..k, NEW j \in 1..k, i < j,
                        OfCircuit(t[i]), OfCircuit(t[j]),
                        QubitsOf(e.gates[t[i].gate]) \cap QubitsOf(e.gates[t[j].gate]) # {}
                 PROVE  InTime(t[i], t[j])
      BY <1>2 DEF AllInTime
    <2>1. i # k
      BY <1>4
    <2>2. i \in DOMAIN s /\ t[i] = s[i]
      BY <1>3, <2>1
    <2>3. CASE j = k
      BY <1>2, <2>2, <2>3
    <2>4. CASE j # k
      <3>1. j \in DOMAIN s /\ t[j] = s[j]
        BY <1>3, <2>4
      <3>2. AllInTime(e, s)
        BY DEF Timing
      <3> HIDE DEF s
      <3> QED BY <2>2, <3>1, <3>2 DEF AllInTime
    <2> QED BY <2>3, <2>4
  <1> QED BY <1>2, <1>4, <1>5, <1>6, <1>7, <1>8 DEF Timing, NotLater

(* A step without an entry that does not move or forget anything.          *)
LEMMA TimingDependsOn ==
    ASSUME NEW e, NEW n \in Nodes, NEW m, Timing(e, n), m.scheduled = n.scheduled,
           m.cycle \in Int, n.cycle <= m.cycle,
           m.lastNonZeroLatencyGate = n.lastNonZeroLatencyGate,
           \A i \in DOMAIN n.scheduled : OfCircuit(n.scheduled[i]) =>
               \A q \in QubitsOf(e.gates[n.scheduled[i].gate]) : m.laq[q] = n.laq[q]
    PROVE  Timing(e, m)
  <1>1. \A i \in DOMAIN n.scheduled : n.scheduled[i].cycle \in Nat
    BY EntriesOfNode
  <1>2. n.cycle \in Int
    BY DEF Nodes
  <1>3. \A i \in DOMAIN n.scheduled : n.scheduled[i].cycle <= m.cycle
    BY <1>1, <1>2 DEF Timing, NotLater
  <1>4. AllRemembered(e, m)
    BY DEF Timing, AllRemembered, Remembered
  <1> QED BY <1>3, <1>4 DEF Timing, NotLater

(* Before cycle 0 nothing is scheduled.                                    *)
LEMMA NothingScheduledYet ==
    ASSUME NEW e, NEW n \in Nodes, Timing(e, n), n.cycle < 0
    PROVE  DOMAIN n.scheduled = {}
  <1>1. \A i \in DOMAIN n.scheduled : n.scheduled[i].cycle \in Nat
                                        /\ n.scheduled[i].cycle <= n.cycle
    BY EntriesOfNode DEF Timing, NotLater
  <1>2. n.cycle \in Int
    BY DEF Nodes
  <1> QED BY <1>1, <1>2

(* Where a swap takes the logical qubits.                                  *)
LEMMA SwapMoves ==
    ASSUME NEW n \in Nodes, IsLayout(n.qal, n.laq), NEW p1 \in Physical, NEW p2 \in Physical,
           NEW q \in Physical, n.laq[q] # Unmapped
    PROVE  SwapLaq(n.laq, n.qal, p1, p2)[q] =
               IF n.laq[q] = p1 THEN p2 ELSE IF n.laq[q] = p2 THEN p1 ELSE n.laq[q]
  <1> DEFINE qal == n.qal
             laq == n.laq
  <1>1. qal \in [Physical -> Place] /\ laq \in [Physical -> Place]
    BY DEF Nodes
  <1>2. \A x \in Physical :
            /\ qal[x] # Unmapped => laq[qal[x]] = x /\ qal[x] \in Physical
            /\ laq[x] # Unmapped => qal[laq[x]] = x /\ laq[x] \in Physical
    BY <1>1 DEF IsLayout, Place
  <1>3. Unmapped \notin Physical
    BY NodeAssumption DEF Physical, Unmapped
  <1> HIDE DEF qal, laq
  <1>4. SwapLaq(laq, qal, p1, p2)[q] =
               IF laq[q] = p1 THEN p2 ELSE IF laq[q] = p2 THEN p1 ELSE laq[q]
    <2>1. CASE qal[p1] # Unmapped /\ qal[p2] # Unmapped
      BY <1>1, <1>2, <1>3, <2>1 DEF SwapLaq, laq
    <2>2. CASE qal[p1] # Unmapped /\ qal[p2] = Unmapped
      BY <1>1, <1>2, <1>3, <2>2 DEF SwapLaq, laq
    <2>3. CASE qal[p1] = Unmapped /\ qal[p2] # Unmapped
      BY <1>1, <1>2, <1>3, <2>3 DEF SwapLaq, laq
    <2>4. CASE qal[p1] = Unmapped /\ qal[p2] = Unmapped
      BY <1>1, <1>2, <1>3, <2>4 DEF SwapLaq, laq
    <2> QED BY <2>1, <2>2, <2>3, <2>4
  <1> QED BY <1>4 DEF laq, qal

(* A generated swap starts when its two physical qubits are free, and      *)
(* takes along what is remembered of the logical qubits it moves.          *)
LEMMA SwapTiming ==
    ASSUME NEW e, IsEnvironment(e), NEW n \in Nodes, Timing(e, n),
           IsLayout(n.qal, n.laq), NEW name \in GateNames,
           NEW pc \in Physical, NEW pt \in Physical, NEW m,
           LegalSwapStep(n, m, GeneratedSwap, name, pc, pt)
    PROVE  Timing(e, m)
  <1> DEFINE sg == ScheduledGate(n, GeneratedSwap, name, pc, pt)
             r == PushScheduled(n, sg)
             s == n.scheduled
  <1>0. n.cycle >= 0 /\ Len(e.gates) \in Nat /\ n.cycle \in Int
    BY DEF LegalSwapStep, SwapStep, IsEnvironment, Nodes
  <1>1. m = SwapQubits(r, pc, pt) /\ CanStart(n, name, pc, pt) /\ IsSwapName(name)
    BY DEF LegalSwapStep, SwapStep, ScheduleSwap
  <1>2. pc \in Place /\ pt \in Place /\ GeneratedSwap \in Nat /\ pt # Unmapped /\ pc # Unmapped
    BY NodeAssumption DEF Place, GeneratedSwap, Physical, Unmapped
  <1>3. /\ sg \in ScheduledGates /\ sg.cycle = n.cycle /\ sg.gate = GeneratedSwap
        /\ sg.latency = Latency(name, pt, pc)
        /\ QubitsOfEntry(sg) = {pc, pt} \ {Unmapped}
    BY <1>0, <1>2, ScheduledGateFields
  <1>4. sg.latency # 0
    BY <1>1, <1>2, <1>3, NodeAssumption
  <1>5. BusyCycles(n, pc) = 0 /\ BusyCycles(n, pt) = 0
    BY <1>1, <1>2, <1>3, <1>4 DEF CanStart
  <1> HIDE DEF sg
  <1>6. /\ r \in Nodes /\ r.cycle = n.cycle /\ r.qal = n.qal /\ r.laq = n.laq
        /\ r.scheduled = Append(s, sg)
        /\ r.lastNonZeroLatencyGate = [p \in Physical |->
              IF p \in QubitsOfEntry(sg) /\ sg.latency # 0
              THEN sg ELSE n.lastNonZeroLatencyGate[p]]
    BY <1>3, PushScheduledFields
  <1>7. \A p \in Physical : r.lastNonZeroLatencyGate[p] =
              IF p = pc \/ p = pt THEN sg ELSE n.lastNonZeroLatencyGate[p]
    BY <1>2, <1>3, <1>4, <1>6
  <1> HIDE DEF r
  <1>8. /\ m.cycle = n.cycle /\ m.scheduled = Append(s, sg)
        /\ m.laq = SwapLaq(n.laq, n.qal, pc, pt)
        /\ m.lastNonZeroLatencyGate = r.lastNonZeroLatencyGate
    BY <1>1, <1>6, SwapQubitsFields
  <1>9. EndOf(sg) \in Nat /\ n.cycle <= EndOf(sg) /\ sg # Null
    BY <1>3, EndOfEntry
  <1>10. ASSUME NEW i \in DOMAIN s, OfCircuit(s[i]),
                NEW q \in QubitsOf(e.gates[s[i].gate])
         PROVE  Remembered(m, s[i], q)
    <2>1. /\ s[i] \in ScheduledGates /\ s[i].cycle <= n.cycle
          /\ s[i].gate \in 1..Len(e.gates) /\ Remembered(n, s[i], q)
      <3>1. s[i].gate \in 0..Len(e.gates) /\ s[i].gate # 0
        BY <1>10 DEF Timing, OfCircuit, GeneratedSwap
      <3>2. Remembered(n, s[i], q)
        BY <1>10 DEF Timing, AllRemembered
      <3> QED BY <3>1, <3>2, <1>0, EntriesOfNode DEF Timing, NotLater
    <2>2. q \in Physical
      BY <2>1, GateFields
    <2>3. n.laq[q] # Unmapped /\ n.laq[q] \in Physical
      BY <2>1, <2>2 DEF Remembered, Nodes, Place
    <2>4. m.laq[q] = IF n.laq[q] = pc THEN pt ELSE IF n.laq[q] = pt THEN pc ELSE n.laq[q]
      BY <1>8, <2>2, <2>3, SwapMoves
    <2>5. EndOf(s[i]) \in Nat
      BY <2>1, EndOfEntry
    <2>6. CASE n.laq[q] = pc \/ n.laq[q] = pt
      <3>1. EndOf(s[i]) <= n.cycle
        BY <1>5, <2>1, <2>2, <2>6, EndedIfFree
      <3>2. m.laq[q] = pt \/ m.laq[q] = pc
        BY <2>4, <2>6
      <3>3. m.lastNonZeroLatencyGate[m.laq[q]] = sg
        BY <1>7, <1>8, <3>2
      <3>4. EndOf(s[i]) <= EndOf(sg)
        BY <1>0, <1>9, <2>5, <3>1
      <3> QED BY <1>2, <1>9, <3>2, <3>3, <3>4 DEF Remembered
    <2>7. CASE n.laq[q] # pc /\ n.laq[q] # pt
      <3>1. m.laq[q] = n.laq[q]
        BY <2>4, <2>7
      <3>2. m.lastNonZeroLatencyGate[m.laq[q]] = n.lastNonZeroLatencyGate[n.laq[q]]
        BY <1>7, <1>8, <2>3, <2>7, <3>1
      <3> QED BY <2>1, <3>1, <3>2 DEF Remembered
    <2> QED BY <2>6, <2>7
  <1>11. ~OfCircuit(sg) /\ sg.gate \in 0..Len(e.gates)
    BY <1>0, <1>3 DEF OfCircuit, GeneratedSwap
  <1>12. sg.cycle = n.cycle
    BY <1>3
  <1> QED BY <1>0, <1>3, <1>8, <1>10, <1>11, <1>12, TimingAppend

(* A gate of the circuit starts when the physical qubits that hold its     *)
(* logical qubits are free, unless it takes no time.                       *)
LEMMA GateTiming ==
    ASSUME NEW e, IsEnvironment(e), NEW n \in Nodes, Timing(e, n),
           NEW g \in 1..Len(e.gates), ~IsSwapName(e.gates[g].name), NEW m,
           LegalGateStep(e, n, m, g)
    PROVE  Timing(e, m)
  <1> DEFINE sg == EntryOf(n, e.gates, g)
             v == e.gates[g]
             r == PushScheduled(n, sg)
             s == n.scheduled
             pc == PhysicalControl(n, v)
             pt == PhysicalTarget(n, v)
  <1>0. n.cycle >= 0 /\ Len(e.gates) \in Nat /\ n.cycle \in Int
    BY DEF LegalGateStep, GateStep, IsEnvironment, Nodes
  <1>1. /\ m = ScheduleAlone(n, e.gates, g) /\ CanStart(n, v.name, pc, pt)
        /\ IsTwoQubit(v) => Coupled(pc, pt)
    BY DEF LegalGateStep, GateStep
  <1>2. /\ sg \in ScheduledGates /\ sg.gate = g /\ sg.cycle = n.cycle
        /\ sg.latency = Latency(v.name, pt, pc)
        /\ sg.physicalTarget = pt
    BY <1>0, EntryOfFields
  <1>3. QubitsOfEntry(sg) = {pc, pt} \ {Unmapped}
    <2>1. sg.physicalControl = pc /\ sg.physicalTarget = pt
      BY <1>0, EntryOfFields
    <2> HIDE DEF sg, pc, pt
    <2> QED BY <2>1 DEF QubitsOfEntry
  <1>4. /\ pt = n.laq[v.target] /\ v.target \in Physical
        /\ IsTwoQubit(v) => pc = n.laq[v.control] /\ v.control \in Physical
                            /\ QubitsOf(v) = {v.control, v.target}
        /\ ~IsTwoQubit(v) => QubitsOf(v) = {v.target}
    <2>1. /\ IsTwoQubit(v) => v.control \in Physical
          /\ v.target \in Physical
          /\ QubitsOf(v) = IF IsTwoQubit(v) THEN {v.control, v.target} ELSE {v.target}
      BY GateFields
    <2>3. IsTwoQubit(v) => v.control # -1
      BY DEF IsTwoQubit
    <2>2. ~IsSwapName(v.name)
      OBVIOUS
    <2> HIDE DEF v
    <2> QED BY <2>1, <2>2, <2>3 DEF PhysicalControl, PhysicalTarget
  <1>5. IsTwoQubit(v) => pc # Unmapped /\ pt # Unmapped
    <2>1. Unmapped \notin Physical
      BY NodeAssumption DEF Physical, Unmapped
    <2>2. Coupled(pc, pt) => pc \in Physical /\ pt \in Physical
      BY NodeAssumption DEF Coupled
    <2> QED BY <1>1, <2>1, <2>2
  <1> HIDE DEF sg, pc, pt
  <1>6. pt # Unmapped => \A q \in QubitsOf(v) :
            q \in Physical /\ n.laq[q] # Unmapped /\ n.laq[q] \in QubitsOfEntry(sg)
    BY <1>3, <1>4, <1>5
  <1>7. sg.latency # 0 => \A p \in QubitsOfEntry(sg) : BusyCycles(n, p) = 0
    BY <1>1, <1>2, <1>3 DEF CanStart
  <1>8. /\ m.cycle = n.cycle /\ m.scheduled = Append(s, sg) /\ m.laq = n.laq
        /\ m.lastNonZeroLatencyGate = r.lastNonZeroLatencyGate
    <2>1. EntryOf(n, e.gates, g) \in ScheduledGates
      BY <1>2 DEF sg
    <2> QED BY <1>1, <2>1, ScheduleAloneFields DEF sg
  <1>9. \A p \in Physical : m.lastNonZeroLatencyGate[p] =
            IF p \in QubitsOfEntry(sg) /\ sg.latency # 0
            THEN sg ELSE n.lastNonZeroLatencyGate[p]
    <2>1. r.lastNonZeroLatencyGate = [p \in Physical |->
              IF p \in QubitsOfEntry(sg) /\ sg.latency # 0
              THEN sg ELSE n.lastNonZeroLatencyGate[p]]
      BY <1>2, PushScheduledFields
    <2> QED BY <1>8, <2>1
  <1>10. EndOf(sg) \in Nat /\ n.cycle <= EndOf(sg) /\ sg # Null
    BY <1>2, EndOfEntry
  <1>11. ASSUME NEW i \in DOMAIN s, OfCircuit(s[i]),
                NEW q \in QubitsOf(e.gates[s[i].gate])
         PROVE  /\ s[i] \in ScheduledGates /\ s[i].cycle \in Nat /\ s[i].cycle <= n.cycle
                /\ Remembered(n, s[i], q)
                /\ q \in Physical /\ EndOf(s[i]) \in Nat
    <2>1. /\ s[i] \in ScheduledGates /\ s[i].cycle \in Nat /\ s[i].cycle <= n.cycle
          /\ s[i].gate \in 1..Len(e.gates) /\ Remembered(n, s[i], q)
      <3>1. s[i].gate \in 0..Len(e.gates) /\ s[i].gate # 0
        BY <1>11 DEF Timing, OfCircuit, GeneratedSwap
      <3>2. Remembered(n, s[i], q)
        BY <1>11 DEF Timing, AllRemembered
      <3> QED BY <3>1, <3>2, <1>0, EntriesOfNode DEF Timing, NotLater
    <2>2. q \in Physical
      BY <2>1, GateFields
    <2>3. EndOf(s[i]) \in Nat
      BY <2>1, EndOfEntry
    <2> QED BY <2>1, <2>2, <2>3
  <1>12. ASSUME NEW i \in DOMAIN s, OfCircuit(s[i]),
                NEW q \in QubitsOf(e.gates[s[i].gate])
         PROVE  Remembered(m, s[i], q)
    <2>1. n.laq[q] \in Physical /\ m.laq[q] = n.laq[q] /\ n.laq[q] # Unmapped
      BY <1>8, <1>11, <1>12 DEF Remembered, Nodes, Place
    <2>2. CASE n.laq[q] \in QubitsOfEntry(sg) /\ sg.latency # 0
      <3>1. BusyCycles(n, n.laq[q]) = 0
        BY <1>7, <2>2
      <3>2. EndOf(s[i]) <= n.cycle
        BY <1>11, <1>12, <3>1, EndedIfFree
      <3>5. EndOf(s[i]) \in Nat
        BY <1>11, <1>12
      <3>3. EndOf(s[i]) <= EndOf(sg)
        BY <1>0, <1>10, <3>2, <3>5
      <3>4. m.lastNonZeroLatencyGate[m.laq[q]] = sg
        BY <1>9, <2>1, <2>2
      <3> QED BY <1>10, <2>1, <3>3, <3>4 DEF Remembered
    <2>3. CASE ~(n.laq[q] \in QubitsOfEntry(sg) /\ sg.latency # 0)
      <3>1. m.lastNonZeroLatencyGate[m.laq[q]] = n.lastNonZeroLatencyGate[n.laq[q]]
        BY <1>9, <2>1, <2>3
      <3>2. Remembered(n, s[i], q)
        BY <1>11, <1>12
      <3> QED BY <2>1, <3>1, <3>2 DEF Remembered
    <2> QED BY <2>2, <2>3
  <1>13. OfCircuit(sg) => \A q \in QubitsOf(e.gates[sg.gate]) : Remembered(m, sg, q)
    <2> SUFFICES ASSUME OfCircuit(sg), NEW q \in QubitsOf(v)
                 PROVE  Remembered(m, sg, q)
      BY <1>2
    <2>1. /\ q \in Physical /\ n.laq[q] # Unmapped
          /\ n.laq[q] \in QubitsOfEntry(sg) /\ m.laq[q] = n.laq[q]
      BY <1>2, <1>6, <1>8 DEF OfCircuit
    <2>2. n.laq[q] \in Physical
      BY <2>1 DEF Nodes, Place
    <2>3. sg.latency # 0 => m.lastNonZeroLatencyGate[m.laq[q]] = sg
      BY <1>9, <2>1, <2>2
    <2> QED BY <1>10, <2>1, <2>3 DEF Remembered
  <1>14. ASSUME NEW i \in DOMAIN s, OfCircuit(s[i]), OfCircuit(sg),
                QubitsOf(e.gates[s[i].gate]) \cap QubitsOf(e.gates[sg.gate]) # {}
         PROVE  InTime(s[i], sg)
    <2>1. PICK q : q \in QubitsOf(e.gates[s[i].gate]) /\ q \in QubitsOf(v)
      BY <1>2, <1>14
    <2>2. /\ s[i] \in ScheduledGates /\ s[i].cycle \in Nat /\ s[i].cycle <= n.cycle
          /\ Remembered(n, s[i], q) /\ q \in Physical
      BY <1>11, <1>14, <2>1
    <2>3. CASE sg.latency = 0
      BY <1>2, <2>2, <2>3 DEF InTime
    <2>4. CASE sg.latency # 0
      <3>1. n.laq[q] \in QubitsOfEntry(sg)
        BY <1>2, <1>6, <1>14, <2>1 DEF OfCircuit
      <3>2. BusyCycles(n, n.laq[q]) = 0
        BY <1>7, <2>4, <3>1
      <3>3. EndOf(s[i]) <= n.cycle
        BY <2>2, <3>2, EndedIfFree
      <3> QED BY <1>2, <2>4, <3>3 DEF InTime
    <2> QED BY <2>3, <2>4
  <1>15. sg.gate \in 0..Len(e.gates)
    BY <1>0, <1>2
  <1> QED BY <1>0, <1>2, <1>8, <1>12, <1>13, <1>14, <1>15, TimingAppend

(* Every step keeps the invariant.                                         *)
LEMMA StepTiming ==
    ASSUME NEW e, IsEnvironment(e), \A g \in 1..Len(e.gates) : ~IsSwapName(e.gates[g].name),
           NEW n \in Nodes, Timing(e, n), IsLayout(n.qal, n.laq),
           NEW m, LegalStep(e, n, m)
    PROVE  Timing(e, m)
  <1>0. n.cycle \in Int /\ Len(e.gates) \in Nat
    BY DEF Nodes, IsEnvironment
  <1>1. CASE m = n
    BY <1>1
  <1>2. CASE m = PrepChild(n)
    <2>1. /\ m.cycle = n.cycle + 1 /\ m.laq = n.laq /\ m.scheduled = n.scheduled
          /\ m.lastNonZeroLatencyGate = n.lastNonZeroLatencyGate
      BY <1>2, PrepChildFields
    <2>2. m.cycle \in Int /\ n.cycle <= m.cycle
      BY <1>0, <2>1
    <2> QED BY <2>1, <2>2, TimingDependsOn
  <1>3. ASSUME NEW p1 \in Physical, NEW p2 \in Physical, n.cycle < 0,
               m = SwapQubits(n, p1, p2)
        PROVE  Timing(e, m)
    <2>1. /\ m.cycle = n.cycle /\ m.scheduled = n.scheduled
          /\ m.lastNonZeroLatencyGate = n.lastNonZeroLatencyGate
      BY <1>3, SwapQubitsFields
    <2>2. DOMAIN n.scheduled = {}
      BY <1>3, NothingScheduledYet
    <2>3. m.cycle \in Int /\ n.cycle <= m.cycle
      BY <1>0, <2>1
    <2> QED BY <2>1, <2>2, <2>3, TimingDependsOn
  <1>4. ASSUME NEW g \in 0..Len(e.gates), NEW name \in GateNames,
               NEW pc \in Physical, NEW pt \in Physical,
               g = 0 \/ IsSwapName(e.gates[g].name),
               LegalSwapStep(n, m, g, name, pc, pt)
        PROVE  Timing(e, m)
    <2>1. g = GeneratedSwap
      BY <1>0, <1>4 DEF GeneratedSwap
    <2> QED BY <1>4, <2>1, SwapTiming
  <1>5. ASSUME NEW g \in 1..Len(e.gates), LegalGateStep(e, n, m, g)
        PROVE  Timing(e, m)
    BY <1>5, GateTiming
  <1>6. ASSUME NEW g \in 1..Len(e.gates)
        PROVE  MakeReady(n, g) \in Nodes /\ Timing(e, MakeReady(n, g))
    <2> DEFINE r == MakeReady(n, g)
    <2>1. g \in Nat
      BY DEF IsEnvironment
    <2>2. /\ r \in Nodes /\ r.cycle = n.cycle /\ r.laq = n.laq /\ r.scheduled = n.scheduled
          /\ r.lastNonZeroLatencyGate = n.lastNonZeroLatencyGate
      BY <2>1, MakeReadyFields
    <2> HIDE DEF r
    <2>3. r.cycle \in Int /\ n.cycle <= r.cycle
      BY <1>0, <2>2
    <2>4. Timing(e, r)
      BY <2>2, <2>3, TimingDependsOn
    <2> QED BY <2>2, <2>4 DEF r
  <1>7. ASSUME NEW g \in 1..Len(e.gates), LegalGateStep(e, MakeReady(n, g), m, g)
        PROVE  Timing(e, m)
    <2> DEFINE r == MakeReady(n, g)
    <2>1. r \in Nodes /\ Timing(e, r) /\ LegalGateStep(e, r, m, g)
      BY <1>6, <1>7
    <2> HIDE DEF r
    <2> QED BY <2>1, GateTiming
  <1>8. ASSUME NEW q1 \in Physical, NEW q2 \in Physical,
               NEW p1 \in Physical, NEW p2 \in Physical, PlaceStep(n, m, q1, q2, p1, p2)
        PROVE  Timing(e, m)
    <2> DEFINE r == PlaceOn(n, q1, q2, p1, p2)
    <2>1. m = r /\ MayPlace(n, q1, p1) /\ MayPlace(n, q2, p2)
      BY <1>8 DEF PlaceStep
    <2>2. /\ r.cycle = n.cycle /\ r.scheduled = n.scheduled
          /\ r.lastNonZeroLatencyGate = n.lastNonZeroLatencyGate
      BY PlaceOnFields
    <2>3. \A q \in Physical : r.laq[q] = IF q = q2 THEN p2 ELSE IF q = q1 THEN p1 ELSE n.laq[q]
      BY PlaceOnLayout
    <2> HIDE DEF r
    <2>4. ASSUME NEW q \in Physical, n.laq[q] # Unmapped
          PROVE  r.laq[q] = n.laq[q]
      BY <2>1, <2>3, <2>4 DEF MayPlace
    <2>5. ASSUME NEW i \in DOMAIN n.scheduled, OfCircuit(n.scheduled[i]),
                 NEW q \in QubitsOf(e.gates[n.scheduled[i].gate])
          PROVE  r.laq[q] = n.laq[q]
      <3>1. n.scheduled[i].gate \in 1..Len(e.gates) /\ n.laq[q] # Unmapped
        <4>1. n.scheduled[i].gate \in 0..Len(e.gates) /\ n.scheduled[i].gate # 0
          BY <2>5 DEF Timing, OfCircuit, GeneratedSwap
        <4>2. Remembered(n, n.scheduled[i], q)
          BY <2>5 DEF Timing, AllRemembered
        <4> QED BY <1>0, <4>1, <4>2 DEF Remembered
      <3>2. q \in Physical
        BY <3>1, GateFields
      <3> QED BY <2>4, <3>1, <3>2
    <2>6. r.cycle \in Int /\ n.cycle <= r.cycle
      BY <1>0, <2>2
    <2>7. Timing(e, r)
      BY <2>2, <2>5, <2>6, TimingDependsOn
    <2> QED BY <2>1, <2>7
  <1>9. ASSUME NEW g \in 1..Len(e.gates), m = MakeReady(n, g)
        PROVE  Timing(e, m)
    BY <1>6, <1>9
  <1> QED BY <1>1, <1>2, <1>3, <1>4, <1>5, <1>7, <1>8, <1>9 DEF LegalStep

-----------------------------------------------------------------------------

(* The order of the gates.                                                 *)

(* A schedule has no gate of the circuit twice, and each of them after     *)
(* those that precede it on its qubits.                                    *)
KeepsOrder(e, s) ==
    /\ \A i, j \in DOMAIN s :
          s[i].gate = s[j].gate /\ s[i].gate # GeneratedSwap => i = j
    /\ \A j \in DOMAIN s : s[j].gate # GeneratedSwap =>
          \A g \in 1..s[j].gate-1 :
             QubitsOf(e.gates[g]) \cap QubitsOf(e.gates[s[j].gate]) # {} =>
                \E i \in DOMAIN s : i < j /\ s[i].gate = g

(* Entry sg is appended to the schedule of node n: a generated swap, or a  *)
(* gate of the circuit, which is then one less to schedule.                *)
Appends(e, n, m, sg) ==
    /\ sg \in ScheduledGates
    /\ m.scheduled = Append(n.scheduled, sg)
    /\ \/ sg.gate = GeneratedSwap
       \/ /\ sg.gate \in 1..Len(e.gates)
          /\ m.numUnscheduledGates = n.numUnscheduledGates - 1

HasNoSwapGates(e) == \A g \in 1..Len(e.gates) : ~IsSwapName(e.gates[g].name)

(* A step appends at most one entry to the schedule.                       *)
LEMMA StepAppends ==
    ASSUME NEW e, IsEnvironment(e), HasNoSwapGates(e), NEW n \in Nodes, NEW m,
           NodeStep(e, n, m)
    PROVE  m.scheduled = n.scheduled \/ \E sg : Appends(e, n, m, sg)
  <1>0. Len(e.gates) \in Nat
    BY DEF IsEnvironment
  <1>1. CASE m = n
    BY <1>1
  <1>2. CASE m = PrepChild(n)
    BY <1>2, PrepChildFields
  <1>3. ASSUME NEW p1 \in Physical, NEW p2 \in Physical, m = SwapQubits(n, p1, p2)
        PROVE  m.scheduled = n.scheduled
    BY <1>3, SwapQubitsFields
  <1>4. ASSUME NEW g \in 0..Len(e.gates), NEW name \in GateNames,
               NEW pc \in Physical, NEW pt \in Physical,
               g = 0 \/ IsSwapName(e.gates[g].name), SwapStep(n, m, g, name, pc, pt)
        PROVE  \E sg : Appends(e, n, m, sg)
    <2> DEFINE sg == ScheduledGate(n, g, name, pc, pt)
               r == PushScheduled(n, sg)
    <2>1. g = 0 /\ m = SwapQubits(r, pc, pt) /\ n.cycle >= 0
      BY <1>0, <1>4 DEF SwapStep, ScheduleSwap, HasNoSwapGates
    <2>2. sg \in ScheduledGates /\ sg.gate = GeneratedSwap
      <3>1. g \in Nat /\ pc \in Place /\ pt \in Place
        BY <1>0 DEF Place
      <3> QED BY <2>1, <3>1, ScheduledGateFields DEF GeneratedSwap
    <2> HIDE DEF sg
    <2>3. r \in Nodes /\ r.scheduled = Append(n.scheduled, sg)
      BY <2>2, PushScheduledFields
    <2> HIDE DEF r
    <2>4. m.scheduled = Append(n.scheduled, sg)
      BY <2>1, <2>3, SwapQubitsFields
    <2> QED BY <2>2, <2>4 DEF Appends
  <1>5. ASSUME NEW r \in Nodes, r.scheduled = n.scheduled,
               r.numUnscheduledGates = n.numUnscheduledGates,
               NEW g \in 1..Len(e.gates), GateStep(e, r, m, g)
        PROVE  \E sg : Appends(e, n, m, sg)
    <2> DEFINE sg == EntryOf(r, e.gates, g)
    <2>1. m = ScheduleAlone(r, e.gates, g) /\ r.cycle >= 0
      BY <1>5 DEF GateStep
    <2>2. sg \in ScheduledGates /\ sg.gate = g
      BY <2>1, EntryOfFields
    <2>3. /\ m.scheduled = Append(r.scheduled, sg)
          /\ m.numUnscheduledGates = r.numUnscheduledGates - 1
      BY <2>1, <2>2, ScheduleAloneFields
    <2> HIDE DEF sg
    <2>4. Appends(e, n, m, sg)
      BY <1>5, <2>2, <2>3 DEF Appends
    <2> QED BY <2>4
  <1>6. ASSUME NEW g \in 1..Len(e.gates)
        PROVE  LET r == MakeReady(n, g)
               IN  r \in Nodes /\ r.scheduled = n.scheduled
                   /\ r.numUnscheduledGates = n.numUnscheduledGates
    BY <1>0, MakeReadyFields
  <1>7. ASSUME NEW g \in 1..Len(e.gates),
               GateStep(e, n, m, g) \/ GateStep(e, MakeReady(n, g), m, g)
        PROVE  \E sg : Appends(e, n, m, sg)
    <2>1. PICK r : /\ r \in Nodes /\ r.scheduled = n.scheduled
                   /\ r.numUnscheduledGates = n.numUnscheduledGates
                   /\ GateStep(e, r, m, g)
      BY <1>6, <1>7
    <2> QED BY <1>5, <2>1
  <1>8. ASSUME NEW g \in 1..Len(e.gates), m = MakeReady(n, g)
        PROVE  m.scheduled = n.scheduled
    BY <1>6, <1>8
  <1>9. ASSUME NEW q1 \in Physical, NEW q2 \in Physical,
               NEW p1 \in Physical, NEW p2 \in Physical, PlaceStep(n, m, q1, q2, p1, p2)
        PROVE  m.scheduled = n.scheduled
    <2> DEFINE r == PlaceOn(n, q1, q2, p1, p2)
    <2>1. r.scheduled = n.scheduled
      BY PlaceOnFields
    <2>2. m = r
      BY <1>9 DEF PlaceStep
    <2> HIDE DEF r
    <2> QED BY <2>1, <2>2
  <1> QED BY <1>1, <1>2, <1>3, <1>4, <1>7, <1>8, <1>9 DEF NodeStep

(* A gate of the circuit that a step appends is on the frontier: otherwise *)
(* the invariant about ready gates could not hold after the step.          *)
LEMMA AppendsFromFrontier ==
    ASSUME NEW e, IsEnvironment(e), NEW n \in Nodes, NEW m, NEW p1, NEW p2,
           Progress(e, n, p1), Progress(e, m, p2),
           NEW sg, Appends(e, n, m, sg), sg.gate # GeneratedSwap
    PROVE  sg.gate \in FrontierOf(e.gates, DoneOf(n))
  <1> DEFINE N == 1..Len(e.gates)
             D == DoneOf(n)
             g == sg.gate
  <1>1. /\ g \in N /\ DoneOf(m) = D \cup {g} /\ Len(e.gates) \in Nat
        /\ m.numUnscheduledGates = n.numUnscheduledGates - 1
    BY DoneAppend DEF Appends, IsEnvironment
  <1>2. /\ n.numUnscheduledGates = Cardinality(N \ D)
        /\ m.numUnscheduledGates = Cardinality(N \ DoneOf(m))
        /\ AreLast(e.gates, DoneOf(m), LastOf(m))
    BY DEF Progress
  <1> HIDE DEF D, g
  <1>3. g \notin D
    <2> SUFFICES ASSUME g \in D PROVE FALSE
      OBVIOUS
    <2>1. DoneOf(m) = D
      BY <1>1
    <2>2. IsFiniteSet(N)
      BY <1>1, FS_Interval
    <2>3. IsFiniteSet(N \ D)
      BY <2>2, FS_Difference
    <2> DEFINE c == Cardinality(N \ D)
    <2>4. c \in Nat
      BY <2>3, FS_CardinalityType
    <2>5. n.numUnscheduledGates = c /\ m.numUnscheduledGates = c
      BY <1>2, <2>1
    <2> HIDE DEF c
    <2> QED BY <1>1, <2>4, <2>5
  <1>4. ASSUME NEW h \in 1..g-1, QubitsOf(e.gates[h]) \cap QubitsOf(e.gates[g]) # {}
        PROVE  h \in D
    <2>1. PICK q : q \in QubitsOf(e.gates[h]) /\ q \in QubitsOf(e.gates[g])
      BY <1>4
    <2>2. q \in Physical
      BY <1>1, <2>1, GateFields
    <2>3. h \in N /\ h < g /\ h # g
      BY <1>1
    <2>4. /\ LastOf(m)[q] \in Int
          /\ g <= LastOf(m)[q]
          /\ h \in DoneOf(m) <=> h <= LastOf(m)[q]
      BY <1>1, <1>2, <2>1, <2>2, <2>3 DEF AreLast
    <2>5. h <= LastOf(m)[q]
      BY <1>1, <2>3, <2>4
    <2> QED BY <1>1, <2>3, <2>4, <2>5
  <1> QED BY <1>1, <1>3, <1>4 DEF FrontierOf, D, g

(* Appending a generated swap, or a gate of the frontier.                  *)
LEMMA AppendInOrder ==
    ASSUME NEW e, IsEnvironment(e), NEW n \in Nodes, KeepsOrder(e, n.scheduled), NEW m,
           NEW sg, Appends(e, n, m, sg),
           sg.gate # GeneratedSwap => sg.gate \in FrontierOf(e.gates, DoneOf(n))
    PROVE  KeepsOrder(e, m.scheduled)
  <1> DEFINE s == n.scheduled
             t == m.scheduled
             k == Len(s) + 1
  <1>1. s \in Seq(ScheduledGates) /\ Len(s) \in Nat /\ t = Append(s, sg)
    BY DEF Nodes, Appends
  <1>2. DOMAIN t = 1..k /\ t[k] = sg /\ k \in Nat /\ DOMAIN s = 1..k-1
    BY <1>1
  <1>3. \A i \in 1..k-1 : i \in 1..k /\ i < k /\ t[i] = s[i]
    BY <1>1
  <1>4. sg.gate # GeneratedSwap =>
            /\ \A i \in 1..k-1 : s[i].gate # sg.gate
            /\ \A g \in 1..sg.gate-1 :
                  QubitsOf(e.gates[g]) \cap QubitsOf(e.gates[sg.gate]) # {} =>
                      \E i \in 1..k-1 : s[i].gate = g
    BY <1>2 DEF FrontierOf, DoneOf
  <1>5. /\ \A i, j \in 1..k-1 : s[i].gate = s[j].gate /\ s[i].gate # GeneratedSwap => i = j
        /\ \A j \in 1..k-1 : s[j].gate # GeneratedSwap =>
              \A g \in 1..s[j].gate-1 :
                 QubitsOf(e.gates[g]) \cap QubitsOf(e.gates[s[j].gate]) # {} =>
                    \E i \in 1..k-1 : i < j /\ s[i].gate = g
    BY <1>2 DEF KeepsOrder
  <1> HIDE DEF s, t, k
  <1>6. \A i \in 1..k : i = k \/ i \in 1..k-1
    BY <1>2
  <1>7. ASSUME NEW i \in 1..k, NEW j \in 1..k, t[i].gate = t[j].gate,
               t[i].gate # GeneratedSwap
        PROVE  i = j
    BY <1>2, <1>3, <1>4, <1>5, <1>6, <1>7
  <1>8. ASSUME NEW j \in 1..k, t[j].gate # GeneratedSwap, NEW g \in 1..t[j].gate-1,
               QubitsOf(e.gates[g]) \cap QubitsOf(e.gates[t[j].gate]) # {}
        PROVE  \E i \in 1..k : i < j /\ t[i].gate = g
    <2>1. CASE j = k
      <3>1. PICK i \in 1..k-1 : s[i].gate = g
        BY <1>2, <1>4, <1>8, <2>1
      <3> QED BY <1>3, <2>1, <3>1
    <2>2. CASE j # k
      <3>1. j \in 1..k-1 /\ t[j] = s[j]
        BY <1>3, <1>6, <2>2
      <3>2. PICK i \in 1..k-1 : i < j /\ s[i].gate = g
        BY <1>5, <1>8, <3>1
      <3> QED BY <1>3, <3>2
    <2> QED BY <2>1, <2>2
  <1>9. \A i, j \in DOMAIN t : t[i].gate = t[j].gate /\ t[i].gate # GeneratedSwap => i = j
    BY <1>2, <1>7
  <1>10. \A j \in DOMAIN t : t[j].gate # GeneratedSwap =>
            \A g \in 1..t[j].gate-1 :
               QubitsOf(e.gates[g]) \cap QubitsOf(e.gates[t[j].gate]) # {} =>
                  \E i \in DOMAIN t : i < j /\ t[i].gate = g
    <2> SUFFICES ASSUME NEW j \in DOMAIN t, t[j].gate # GeneratedSwap,
                        NEW g \in 1..t[j].gate-1,
                        QubitsOf(e.gates[g]) \cap QubitsOf(e.gates[t[j].gate]) # {}
                 PROVE  \E i \in DOMAIN t : i < j /\ t[i].gate = g
      OBVIOUS
    <2> QED BY <1>2, <1>8
  <1> QED BY <1>9, <1>10 DEF KeepsOrder, t

-----------------------------------------------------------------------------

(* The layouts that the search had before each entry of the schedule.      *)

(* All that layout small says, big says, too.                              *)
Extends(big, small) == \A x \in Physical : small[x] # Unmapped => big[x] = small[x]

(* Entry a was scheduled on the qubits that layout before gives it, and    *)
(* led to layout after; a gate of one qubit may have had no place.         *)
Follows(e, a, before, after) ==
    IF a.gate = GeneratedSwap
    THEN /\ a.physicalControl \in Physical /\ a.physicalTarget \in Physical
         /\ Extends(after, SwapQal(before, a.physicalControl, a.physicalTarget))
    ELSE /\ Extends(after, before)
         /\ a.physicalTarget # Unmapped =>
               before[a.physicalTarget] = e.gates[a.gate].target
         /\ IsTwoQubit(e.gates[a.gate]) =>
               /\ a.physicalControl # Unmapped /\ a.physicalTarget # Unmapped
               /\ before[a.physicalControl] = e.gates[a.gate].control

(* H[i] is the layout after i entries of schedule s, without the qubits    *)
(* that were placed later; now it is qal.                                  *)
IsHistory(e, s, qal, H) ==
    /\ H \in [0..Len(s) -> [Physical -> Place]]
    /\ Extends(qal, H[Len(s)])
    /\ \A i \in 1..Len(s) : Follows(e, s[i], H[i-1], H[i])

(* The inductive invariant: the schedule of a node has a history, and the  *)
(* layout holds logical qubits only.                                       *)
IsOfCircuit(e, qal) == \A x \in Physical : qal[x] \in -1..e.numLogical-1
Remembers(e, n) ==
    /\ IsOfCircuit(e, n.qal)
    /\ \E H : IsHistory(e, n.scheduled, n.qal, H)

(* Layouts that say more and more.                                         *)
LEMMA ExtendsTransitive ==
    ASSUME NEW a, NEW b, NEW c, Extends(a, b), Extends(b, c)
    PROVE  Extends(a, c)
  BY DEF Extends

(* A swap exchanges what two physical qubits hold.                         *)
LEMMA SwapQalAt ==
    ASSUME NEW qal \in [Physical -> Place], NEW p1 \in Physical, NEW p2 \in Physical
    PROVE  /\ SwapQal(qal, p1, p2) \in [Physical -> Place]
           /\ \A x \in Physical : SwapQal(qal, p1, p2)[x] =
                 IF x = p1 THEN qal[p2] ELSE IF x = p2 THEN qal[p1] ELSE qal[x]
  BY DEF SwapQal

(* A swap of a layout that says more leads to one that says more.          *)
LEMMA SwapExtends ==
    ASSUME NEW a \in [Physical -> Place], NEW b \in [Physical -> Place], Extends(a, b),
           NEW p1 \in Physical, NEW p2 \in Physical
    PROVE  /\ Extends(SwapQal(a, p1, p2), SwapQal(b, p1, p2))
           /\ Extends(SwapQal(a, p2, p1), SwapQal(b, p1, p2))
  <1>1. \A x \in Physical :
           /\ SwapQal(a, p1, p2)[x] =
                 IF x = p1 THEN a[p2] ELSE IF x = p2 THEN a[p1] ELSE a[x]
           /\ SwapQal(b, p1, p2)[x] =
                 IF x = p1 THEN b[p2] ELSE IF x = p2 THEN b[p1] ELSE b[x]
           /\ SwapQal(a, p2, p1)[x] =
                 IF x = p2 THEN a[p1] ELSE IF x = p1 THEN a[p2] ELSE a[x]
    BY SwapQalAt
  <1> QED BY <1>1 DEF Extends

(* A swap, in either order of its qubits, undoes itself.                   *)
LEMMA SwapQalTwice ==
    ASSUME NEW qal \in [Physical -> Place], NEW p1 \in Physical, NEW p2 \in Physical
    PROVE  SwapQal(SwapQal(qal, p1, p2), p2, p1) = qal
  <1> DEFINE b == SwapQal(qal, p1, p2)
  <1>1. /\ b \in [Physical -> Place]
        /\ \A x \in Physical : b[x] =
              IF x = p1 THEN qal[p2] ELSE IF x = p2 THEN qal[p1] ELSE qal[x]
    BY SwapQalAt
  <1> HIDE DEF b
  <1>2. /\ SwapQal(b, p2, p1) \in [Physical -> Place]
        /\ \A x \in Physical : SwapQal(b, p2, p1)[x] =
              IF x = p2 THEN b[p1] ELSE IF x = p1 THEN b[p2] ELSE b[x]
    BY <1>1, SwapQalAt
  <1>3. \A x \in Physical : SwapQal(b, p2, p1)[x] = qal[x]
    BY <1>1, <1>2
  <1>4. SwapQal(b, p2, p1) = qal
    BY <1>2, <1>3
  <1> QED BY <1>4 DEF b

(* What follows an entry may say more.                                     *)
LEMMA FollowsMore ==
    ASSUME NEW e, NEW a, NEW before, NEW after, NEW more,
           Follows(e, a, before, after), Extends(more, after)
    PROVE  Follows(e, a, before, more)
  BY ExtendsTransitive DEF Follows

(* Placing qubits leaves the history as it is.                             *)
LEMMA HistoryGrows ==
    ASSUME NEW e, NEW s, NEW qal, NEW H, IsHistory(e, s, qal, H),
           NEW more, Extends(more, qal)
    PROVE  IsHistory(e, s, more, H)
  BY ExtendsTransitive DEF IsHistory

(* One more entry, scheduled in layout qal.                                *)
LEMMA HistoryAppend ==
    ASSUME NEW e, NEW s \in Seq(ScheduledGates), NEW qal \in [Physical -> Place],
           NEW H, IsHistory(e, s, qal, H),
           NEW sg \in ScheduledGates, NEW after \in [Physical -> Place],
           Follows(e, sg, qal, after)
    PROVE  \E J : IsHistory(e, Append(s, sg), after, J)
  <1> DEFINE k == Len(s)
             t == Append(s, sg)
             J == [i \in 0..k+1 |-> IF i < k THEN H[i] ELSE IF i = k THEN qal ELSE after]
  <1>1. k \in Nat /\ Len(t) = k + 1 /\ t[k+1] = sg /\ \A i \in 1..k : t[i] = s[i]
    OBVIOUS
  <1>2. /\ H \in [0..k -> [Physical -> Place]] /\ Extends(qal, H[k])
        /\ \A i \in 1..k : Follows(e, s[i], H[i-1], H[i])
    BY DEF IsHistory
  <1> HIDE DEF k, t
  <1>3. J \in [0..k+1 -> [Physical -> Place]]
    BY <1>1, <1>2
  <1>4. J[k+1] = after /\ J[k] = qal /\ \A i \in 0..k-1 : J[i] = H[i]
    BY <1>1
  <1> HIDE DEF J
  <1>5. Extends(after, J[k+1])
    BY <1>4 DEF Extends
  <1>6. ASSUME NEW i \in 1..k+1
        PROVE  Follows(e, t[i], J[i-1], J[i])
    <2>1. CASE i = k + 1
      <3>1. i - 1 = k
        BY <1>1, <2>1
      <3> QED BY <1>1, <1>4, <2>1, <3>1
    <2>2. CASE i = k
      <3>1. i \in 1..k /\ i - 1 \in 0..k-1
        BY <1>1, <2>2
      <3>2. Follows(e, s[i], H[i-1], qal)
        BY <1>2, <2>2, <3>1, FollowsMore
      <3> QED BY <1>1, <1>4, <2>2, <3>1, <3>2
    <2>3. CASE i # k + 1 /\ i # k
      <3>1. i \in 1..k /\ i \in 0..k-1 /\ i - 1 \in 0..k-1
        BY <1>1, <2>3
      <3> QED BY <1>1, <1>2, <1>4, <3>1
    <2> QED BY <2>1, <2>2, <2>3
  <1>7. IsHistory(e, t, after, J)
    BY <1>1, <1>3, <1>5, <1>6 DEF IsHistory
  <1> QED BY <1>7 DEF t

(* Swaps keep the range of a layout.                                       *)
LEMMA SwapOfCircuit ==
    ASSUME NEW e, NEW qal \in [Physical -> Place], IsOfCircuit(e, qal),
           NEW p1 \in Physical, NEW p2 \in Physical
    PROVE  IsOfCircuit(e, SwapQal(qal, p1, p2))
  BY SwapQalAt DEF IsOfCircuit

(* A scheduled swap.                                                       *)
LEMMA SwapRemembers ==
    ASSUME NEW e, NEW n \in Nodes, Remembers(e, n), NEW name \in GateNames,
           NEW pc \in Physical, NEW pt \in Physical, NEW m,
           LegalSwapStep(n, m, GeneratedSwap, name, pc, pt)
    PROVE  Remembers(e, m)
  <1> DEFINE sg == ScheduledGate(n, GeneratedSwap, name, pc, pt)
             r == PushScheduled(n, sg)
             qal == SwapQal(n.qal, pc, pt)
  <1>1. m = SwapQubits(r, pc, pt) /\ n.cycle >= 0
    BY DEF LegalSwapStep, SwapStep, ScheduleSwap
  <1>2. /\ sg \in ScheduledGates /\ sg.gate = GeneratedSwap
        /\ sg.physicalControl = pc /\ sg.physicalTarget = pt
    <2>1. GeneratedSwap \in Nat /\ pc \in Place /\ pt \in Place
      BY DEF GeneratedSwap, Place
    <2>2. sg \in ScheduledGates
      BY <1>1, <2>1, ScheduledGateFields
    <2> QED BY <2>2 DEF ScheduledGate
  <1> HIDE DEF sg
  <1>3. r \in Nodes /\ r.scheduled = Append(n.scheduled, sg) /\ r.qal = n.qal
    BY <1>2, PushScheduledFields
  <1> HIDE DEF r
  <1>4. m.scheduled = Append(n.scheduled, sg) /\ m.qal = qal
    BY <1>1, <1>3, SwapQubitsFields
  <1>5. n.scheduled \in Seq(ScheduledGates) /\ n.qal \in [Physical -> Place]
    BY DEF Nodes
  <1>6. qal \in [Physical -> Place] /\ IsOfCircuit(e, qal)
    BY <1>5, SwapQalAt, SwapOfCircuit DEF Remembers
  <1>7. Follows(e, sg, n.qal, qal)
    BY <1>2 DEF Follows, Extends
  <1>8. PICK H : IsHistory(e, n.scheduled, n.qal, H)
    BY DEF Remembers
  <1> HIDE DEF qal
  <1>9. \E J : IsHistory(e, Append(n.scheduled, sg), qal, J)
    BY <1>2, <1>5, <1>6, <1>7, <1>8, HistoryAppend
  <1> QED BY <1>4, <1>6, <1>9 DEF Remembers

(* A gate of the circuit, scheduled on the qubits that hold its own.       *)
LEMMA GateRemembers ==
    ASSUME NEW e, IsEnvironment(e), HasNoSwapGates(e), NEW n \in Nodes,
           IsLayout(n.qal, n.laq), Remembers(e, n),
           NEW g \in 1..Len(e.gates), NEW m, LegalGateStep(e, n, m, g)
    PROVE  Remembers(e, m)
  <1> DEFINE v == e.gates[g]
             sg == EntryOf(n, e.gates, g)
             pc == PhysicalControl(n, v)
             pt == PhysicalTarget(n, v)
  <1>1. /\ m = ScheduleAlone(n, e.gates, g) /\ n.cycle >= 0
        /\ IsTwoQubit(v) => Coupled(pc, pt)
    BY DEF LegalGateStep, GateStep
  <1>2. /\ sg \in ScheduledGates /\ sg.gate = g
        /\ sg.physicalControl = pc /\ sg.physicalTarget = pt
    BY <1>1, EntryOfFields
  <1>3. m.scheduled = Append(n.scheduled, sg) /\ m.qal = n.qal
    BY <1>1, <1>2, ScheduleAloneFields
  <1>4. /\ pt = n.laq[v.target] /\ v.target \in Physical
        /\ IsTwoQubit(v) => pc = n.laq[v.control] /\ v.control \in Physical
    <2>1. /\ IsTwoQubit(v) => v.control \in Physical
          /\ v.target \in Physical
      BY GateFields
    <2>2. ~IsSwapName(v.name)
      BY DEF HasNoSwapGates
    <2>3. IsTwoQubit(v) => v.control # -1
      BY DEF IsTwoQubit
    <2> HIDE DEF v
    <2> QED BY <2>1, <2>2, <2>3 DEF PhysicalControl, PhysicalTarget
  <1>5. IsTwoQubit(v) => pc # Unmapped /\ pt # Unmapped
    <2>1. Unmapped \notin Physical
      BY NodeAssumption DEF Physical, Unmapped
    <2>2. Coupled(pc, pt) => pc \in Physical /\ pt \in Physical
      BY NodeAssumption DEF Coupled
    <2> QED BY <1>1, <2>1, <2>2
  <1> HIDE DEF sg, pc, pt
  <1>6. /\ pt # Unmapped => n.qal[pt] = v.target
        /\ IsTwoQubit(v) => n.qal[pc] = v.control
    BY <1>4, <1>5 DEF IsLayout
  <1>7. g # GeneratedSwap
    BY DEF GeneratedSwap, IsEnvironment
  <1>8. Follows(e, sg, n.qal, n.qal)
    BY <1>2, <1>5, <1>6, <1>7 DEF Follows, Extends
  <1>9. n.scheduled \in Seq(ScheduledGates) /\ n.qal \in [Physical -> Place]
    BY DEF Nodes
  <1>10. PICK H : IsHistory(e, n.scheduled, n.qal, H)
    BY DEF Remembers
  <1>11. \E J : IsHistory(e, Append(n.scheduled, sg), n.qal, J)
    BY <1>2, <1>8, <1>9, <1>10, HistoryAppend
  <1> QED BY <1>3, <1>11 DEF Remembers

(* A schedule without entries, whatever the layout.                        *)
LEMMA EmptyRemembers ==
    ASSUME NEW e, NEW n \in Nodes, n.scheduled = <<>>, IsOfCircuit(e, n.qal)
    PROVE  Remembers(e, n)
  <1> DEFINE H == [i \in 0..0 |-> n.qal]
  <1>1. Len(n.scheduled) = 0 /\ n.qal \in [Physical -> Place]
    BY DEF Nodes
  <1>2. H \in [0..0 -> [Physical -> Place]] /\ H[0] = n.qal /\ \A i \in 1..0 : FALSE
    BY <1>1
  <1> HIDE DEF H
  <1>3. IsHistory(e, n.scheduled, n.qal, H)
    BY <1>1, <1>2 DEF IsHistory, Extends
  <1> QED BY <1>3 DEF Remembers

(* Every step keeps the invariant.                                         *)
LEMMA StepRemembers ==
    ASSUME NEW e, IsEnvironment(e), HasNoSwapGates(e), NEW n \in Nodes,
           IsLayout(n.qal, n.laq), Timing(e, n), Remembers(e, n),
           NEW m, LegalStep(e, n, m)
    PROVE  Remembers(e, m)
  <1>0. Len(e.gates) \in Nat
    BY DEF IsEnvironment
  <1>1. CASE m = n
    BY <1>1
  <1>2. CASE m = PrepChild(n)
    <2>1. m.qal = n.qal /\ m.scheduled = n.scheduled
      BY <1>2, PrepChildFields
    <2> QED BY <2>1 DEF Remembers
  <1>3. ASSUME NEW p1 \in Physical, NEW p2 \in Physical, n.cycle < 0,
               m = SwapQubits(n, p1, p2)
        PROVE  Remembers(e, m)
    <2>1. m \in Nodes /\ m.qal = SwapQal(n.qal, p1, p2) /\ m.scheduled = n.scheduled
      BY <1>3, SwapQubitsFields
    <2>2. n.scheduled = <<>>
      <3>1. DOMAIN n.scheduled = {}
        BY <1>3, NothingScheduledYet
      <3>2. n.scheduled \in Seq(ScheduledGates)
        BY DEF Nodes
      <3>3. DOMAIN n.scheduled = 1..Len(n.scheduled) /\ Len(n.scheduled) \in Nat
        BY <3>2
      <3>4. ~(1 \in 1..Len(n.scheduled))
        BY <3>1, <3>3
      <3>5. Len(n.scheduled) = 0
        BY <3>3, <3>4
      <3> QED BY <3>2, <3>5
    <2>3. IsOfCircuit(e, m.qal)
      BY <2>1, SwapOfCircuit DEF Nodes, Remembers
    <2> QED BY <2>1, <2>2, <2>3, EmptyRemembers
  <1>4. ASSUME NEW g \in 0..Len(e.gates), NEW name \in GateNames,
               NEW pc \in Physical, NEW pt \in Physical,
               g = 0 \/ IsSwapName(e.gates[g].name), LegalSwapStep(n, m, g, name, pc, pt)
        PROVE  Remembers(e, m)
    <2>1. g = GeneratedSwap
      BY <1>0, <1>4 DEF GeneratedSwap, HasNoSwapGates
    <2> QED BY <1>4, <2>1, SwapRemembers
  <1>5. ASSUME NEW g \in 1..Len(e.gates), LegalGateStep(e, n, m, g)
        PROVE  Remembers(e, m)
    BY <1>5, GateRemembers
  <1>6. ASSUME NEW g \in 1..Len(e.gates)
        PROVE  LET r == MakeReady(n, g)
               IN  r \in Nodes /\ IsLayout(r.qal, r.laq) /\ Remembers(e, r)
    <2> DEFINE r == MakeReady(n, g)
    <2>1. r \in Nodes /\ r.scheduled = n.scheduled /\ r.qal = n.qal /\ r.laq = n.laq
      BY <1>0, MakeReadyFields
    <2> HIDE DEF r
    <2>2. Remembers(e, r)
      BY <2>1 DEF Remembers
    <2> QED BY <2>1, <2>2 DEF r
  <1>7. ASSUME NEW g \in 1..Len(e.gates), LegalGateStep(e, MakeReady(n, g), m, g)
        PROVE  Remembers(e, m)
    <2> DEFINE r == MakeReady(n, g)
    <2>1. r \in Nodes /\ IsLayout(r.qal, r.laq) /\ Remembers(e, r) /\ LegalGateStep(e, r, m, g)
      BY <1>6, <1>7
    <2> HIDE DEF r
    <2> QED BY <2>1, GateRemembers
  <1>8. ASSUME NEW g \in 1..Len(e.gates), m = MakeReady(n, g)
        PROVE  Remembers(e, m)
    BY <1>6, <1>8
  <1>9. ASSUME NEW q1 \in Physical, NEW q2 \in Physical,
               NEW p1 \in Physical, NEW p2 \in Physical,
               q1 \in 0..e.numLogical-1, q2 \in 0..e.numLogical-1,
               PlaceStep(n, m, q1, q2, p1, p2)
        PROVE  Remembers(e, m)
    <2> DEFINE r == PlaceOn(n, q1, q2, p1, p2)
    <2>1. /\ m = r /\ p1 # p2 /\ q1 # q2
          /\ MayPlace(n, q1, p1) /\ MayPlace(n, q2, p2)
      BY <1>9 DEF PlaceStep
    <2>2. r.scheduled = n.scheduled
      BY PlaceOnFields
    <2>3. \A x \in Physical : r.qal[x] = IF x = p2 THEN q2 ELSE IF x = p1 THEN q1 ELSE n.qal[x]
      BY PlaceOnLayout
    <2> HIDE DEF r
    <2>4. ASSUME NEW x \in Physical, n.qal[x] # Unmapped
          PROVE  r.qal[x] = n.qal[x]
      <3>1. x = p1 => n.qal[x] = q1
        BY <2>1, <2>4 DEF MayPlace, IsLayout
      <3>2. x = p2 => n.qal[x] = q2
        BY <2>1, <2>4 DEF MayPlace, IsLayout
      <3> QED BY <2>1, <2>3, <3>1, <3>2
    <2>5. Extends(m.qal, n.qal)
      BY <2>1, <2>4 DEF Extends
    <2>6. IsOfCircuit(e, m.qal)
      <3>1. \A x \in Physical : n.qal[x] \in -1..e.numLogical-1
        BY DEF Remembers, IsOfCircuit
      <3>2. e.numLogical \in Int
        BY NodeAssumption DEF IsEnvironment
      <3>3. q1 \in -1..e.numLogical-1 /\ q2 \in -1..e.numLogical-1
        BY <1>9, <3>2
      <3> QED BY <2>1, <2>3, <3>1, <3>3 DEF IsOfCircuit
    <2>7. PICK H : IsHistory(e, n.scheduled, n.qal, H)
      BY DEF Remembers
    <2>8. IsHistory(e, n.scheduled, m.qal, H)
      BY <2>5, <2>7, HistoryGrows
    <2> QED BY <2>1, <2>2, <2>6, <2>8 DEF Remembers
  <1> QED BY <1>1, <1>2, <1>3, <1>4, <1>5, <1>7, <1>8, <1>9 DEF LegalStep

-----------------------------------------------------------------------------

(* The walk back over the schedule.                                        *)

(* What the walk works on, for a schedule of k entries.                    *)
Entries(e) ==
    {a \in ScheduledGates :
        /\ a.gate \in 0..Len(e.gates)
        /\ a.gate = GeneratedSwap =>
              a.physicalControl \in Physical /\ a.physicalTarget \in Physical}

WalkStates(e, k) ==
    {w \in [qal : [Physical -> Place], laq : [Physical -> Place],
            scheduled : [1..k -> Entries(e)]] :
        IsLayout(w.qal, w.laq) /\ IsOfCircuit(e, w.qal)}

(* The walk only fills in places of gates that have none.                  *)
SameEntry(b, a) ==
    /\ b.gate = a.gate /\ b.physicalControl = a.physicalControl
    /\ b.cycle = a.cycle /\ b.latency = a.latency
    /\ a.physicalTarget # Unmapped => b.physicalTarget = a.physicalTarget

(* What one iteration does, for entry i.                                   *)
WalkStep(e, k, w, m, i) ==
    /\ m \in WalkStates(e, k)
    /\ \A x \in 1..k : x # i => m.scheduled[x] = w.scheduled[x]
    /\ SameEntry(m.scheduled[i], w.scheduled[i])
    /\ \A q \in Physical : w.laq[q] # Unmapped => m.laq[q] # Unmapped
    /\ w.scheduled[i].gate = GeneratedSwap =>
          m.qal = SwapQal(w.qal, w.scheduled[i].physicalControl,
                          w.scheduled[i].physicalTarget)
    /\ w.scheduled[i].gate # GeneratedSwap => Extends(m.qal, w.qal)
    /\ w.scheduled[i].gate # GeneratedSwap /\ w.scheduled[i].physicalTarget = Unmapped
       /\ ~IsTwoQubit(e.gates[w.scheduled[i].gate]) =>
          LET q == e.gates[w.scheduled[i].gate].target
          IN  /\ m.scheduled[i].physicalTarget # Unmapped
              /\ m.qal[m.scheduled[i].physicalTarget] = q
              /\ m.laq[q] # Unmapped

(* As long as a qubit of the circuit has no place, there is a free one.    *)
LEMMA FreePlace ==
    ASSUME NEW e, IsEnvironment(e), NEW qal \in [Physical -> Place],
           NEW laq \in [Physical -> Place], IsLayout(qal, laq), IsOfCircuit(e, qal),
           NEW q \in 0..e.numLogical-1, laq[q] = Unmapped
    PROVE  \E x \in Physical : qal[x] = Unmapped
  <1> SUFFICES ASSUME \A x \in Physical : qal[x] # Unmapped
               PROVE  FALSE
    OBVIOUS
  <1> DEFINE N == e.numLogical
             T == (0..N-1) \ {q}
  <1>1. N \in 0..NumPhysical /\ NumPhysical \in Nat \ {0} /\ N \in Nat
    BY NodeAssumption DEF IsEnvironment
  <1>2. IsFiniteSet(Physical) /\ Cardinality(Physical) = NumPhysical
    <2>1. 0 \in Int /\ NumPhysical - 1 \in Int /\ ~(0 > NumPhysical - 1)
          /\ NumPhysical - 1 - 0 + 1 = NumPhysical
      BY <1>1
    <2> QED BY <2>1, FS_Interval DEF Physical
  <1>3. IsFiniteSet(0..N-1) /\ Cardinality(0..N-1) = N
    <2>1. 0 \in Int /\ N - 1 \in Int
      BY <1>1
    <2>2. ~(0 > N - 1) /\ N - 1 - 0 + 1 = N
      BY <1>1
    <2> QED BY <2>1, <2>2, FS_Interval
  <1>4. IsFiniteSet(T) /\ Cardinality(T) = N - 1
    BY <1>3, FS_RemoveElement
  <1>5. Cardinality(T) < Cardinality(Physical)
    BY <1>1, <1>2, <1>4
  <1>6. \A x \in Physical : laq[qal[x]] = x /\ x # Unmapped
    <2>1. Unmapped \notin Physical
      BY NodeAssumption DEF Physical, Unmapped
    <2> QED BY <2>1 DEF IsLayout
  <1>7. \A x \in Physical : qal[x] \in T
    <2> SUFFICES ASSUME NEW x \in Physical PROVE qal[x] \in T
      OBVIOUS
    <2>1. qal[x] \in -1..N-1 /\ qal[x] # -1
      BY DEF IsOfCircuit, Unmapped
    <2>2. qal[x] # q
      BY <1>6
    <2>3. qal[x] \in 0..N-1
      BY <1>1, <2>1
    <2> QED BY <2>2, <2>3
  <1>8. qal \in [Physical -> T]
    BY <1>7
  <1> HIDE DEF T
  <1>9. \E x, y \in Physical : x # y /\ qal[x] = qal[y]
    BY <1>2, <1>4, <1>5, <1>8, FS_PigeonHole
  <1> QED BY <1>6, <1>9

(* The place that the walk chooses for a gate of qubit q.                  *)
LEMMA ChosenPlace ==
    ASSUME NEW e, IsEnvironment(e), NEW k, NEW w \in WalkStates(e, k),
           NEW q \in 0..e.numLogical-1
    PROVE  /\ ChoosePlace(w, q) \in Physical
           /\ w.laq[q] # Unmapped => ChoosePlace(w, q) = w.laq[q]
           /\ w.laq[q] = Unmapped => w.qal[ChoosePlace(w, q)] = Unmapped
  <1> DEFINE free == {x \in Physical : w.qal[x] = Unmapped}
  <1>1. /\ w.qal \in [Physical -> Place] /\ w.laq \in [Physical -> Place]
        /\ IsLayout(w.qal, w.laq) /\ IsOfCircuit(e, w.qal)
    BY DEF WalkStates
  <1>2. q \in Physical
    BY NodeAssumption DEF IsEnvironment, Physical
  <1>3. CASE w.laq[q] # Unmapped
    <2>1. ChoosePlace(w, q) = w.laq[q]
      BY <1>3 DEF ChoosePlace
    <2> QED BY <1>1, <1>2, <1>3, <2>1 DEF Place
  <1>4. CASE w.laq[q] = Unmapped
    <2>1. free # {}
      BY <1>1, <1>4, FreePlace
    <2>2. free \in SUBSET Nat
      BY NodeAssumption DEF Physical
    <2>3. ChoosePlace(w, q) = CHOOSE x \in free : \A y \in free : x <= y
      BY <1>4, <2>1 DEF ChoosePlace
    <2> HIDE DEF free
    <2>4. \E x \in free : \A y \in free : x <= y
      BY <2>1, <2>2, Least
    <2>5. ChoosePlace(w, q) \in free
      BY <2>3, <2>4
    <2> QED BY <1>4, <2>5 DEF free
  <1> QED BY <1>3, <1>4

(* Undoing a swap.                                                         *)
LEMMA UndoSwapStep ==
    ASSUME NEW e, NEW k, NEW w \in WalkStates(e, k), NEW i \in 1..k,
           w.scheduled[i].gate = GeneratedSwap
    PROVE  WalkStep(e, k, w, UndoSwap(w, w.scheduled[i]), i)
  <1> DEFINE a == w.scheduled[i]
             pc == a.physicalControl
             pt == a.physicalTarget
             qal == SwapQal(w.qal, pt, pc)
             laq == SwapLaq(w.laq, w.qal, pc, pt)
             m == UndoSwap(w, a)
  <1>1. /\ w.qal \in [Physical -> Place] /\ w.laq \in [Physical -> Place]
        /\ w.scheduled \in [1..k -> Entries(e)]
        /\ IsLayout(w.qal, w.laq) /\ IsOfCircuit(e, w.qal)
    BY DEF WalkStates
  <1>2. pc \in Physical /\ pt \in Physical
    <2>1. a \in Entries(e)
      BY <1>1
    <2> HIDE DEF a
    <2>2. a.gate = GeneratedSwap
      BY DEF a
    <2> QED BY <2>1, <2>2 DEF Entries
  <1>3. /\ m = [w EXCEPT !.qal = qal, !.laq = laq]
    BY DEF UndoSwap
  <1> HIDE DEF a, pc, pt
  <1>4. qal = SwapQal(w.qal, pc, pt)
    BY <1>1, <1>2 DEF SwapQal
  <1>5. /\ qal \in [Physical -> Place] /\ laq \in [Physical -> Place]
        /\ IsLayout(qal, laq) /\ IsOfCircuit(e, qal)
    BY <1>1, <1>2, <1>4, SwapLayout, SwapOfCircuit
  <1>6. ASSUME NEW q \in Physical, w.laq[q] # Unmapped
        PROVE  laq[q] # Unmapped
    <2> DEFINE x == w.laq[q]
               y == IF x = pc THEN pt ELSE IF x = pt THEN pc ELSE x
    <2>1. x \in Physical /\ w.qal[x] = q
      BY <1>1, <1>6 DEF IsLayout, Place
    <2>2. y \in Physical
      BY <1>2, <2>1
    <2>3. qal[y] = q
      <3>1. \A z \in Physical :
               qal[z] = IF z = pc THEN w.qal[pt] ELSE IF z = pt THEN w.qal[pc] ELSE w.qal[z]
        BY <1>1, <1>2, <1>4, SwapQalAt
      <3> HIDE DEF qal, x
      <3>2. CASE x = pc
        BY <1>2, <2>1, <3>1, <3>2
      <3>3. CASE x # pc /\ x = pt
        BY <1>2, <2>1, <3>1, <3>3
      <3>4. CASE x # pc /\ x # pt
        BY <1>2, <2>1, <3>1, <3>4
      <3> QED BY <3>2, <3>3, <3>4
    <2>4. q # Unmapped /\ y # Unmapped
      BY <2>2, NodeAssumption DEF Physical, Unmapped
    <2> HIDE DEF qal, laq, x, y
    <2>5. laq[qal[y]] = y
      BY <1>5, <2>2, <2>3, <2>4 DEF IsLayout
    <2> QED BY <2>3, <2>4, <2>5
  <1> HIDE DEF qal, laq, m
  <1>7. /\ m.qal = qal /\ m.laq = laq /\ m.scheduled = w.scheduled
        /\ m \in [qal : [Physical -> Place], laq : [Physical -> Place],
                  scheduled : [1..k -> Entries(e)]]
    BY <1>1, <1>3, <1>5 DEF WalkStates
  <1>8. m \in WalkStates(e, k)
    BY <1>5, <1>7 DEF WalkStates
  <1>9. SameEntry(m.scheduled[i], w.scheduled[i])
    BY <1>7 DEF SameEntry
  <1> QED BY <1>4, <1>6, <1>7, <1>8, <1>9 DEF WalkStep, m, a, pc, pt

(* Giving a gate of one qubit a place.                                     *)
LEMMA PlaceGateStep ==
    ASSUME NEW e, IsEnvironment(e), NEW k, NEW w \in WalkStates(e, k), NEW i \in 1..k,
           w.scheduled[i].gate # GeneratedSwap,
           ~IsTwoQubit(e.gates[w.scheduled[i].gate])
    PROVE  WalkStep(e, k, w, PlaceOneQubitGate(e.gates, w, i), i)
  <1> DEFINE a == w.scheduled[i]
             q == e.gates[a.gate].target
             x == ChoosePlace(w, q)
             m == PlaceOneQubitGate(e.gates, w, i)
             arbitrary == w.laq[q] = Unmapped
             b == [a EXCEPT !.physicalTarget = x]
             sch == [w.scheduled EXCEPT ![i] = b]
             qal == IF arbitrary THEN [w.qal EXCEPT ![x] = q] ELSE w.qal
             laq == IF arbitrary THEN [w.laq EXCEPT ![q] = x] ELSE w.laq
  <1>1. /\ w.qal \in [Physical -> Place] /\ w.laq \in [Physical -> Place]
        /\ w.scheduled \in [1..k -> Entries(e)]
        /\ IsLayout(w.qal, w.laq) /\ IsOfCircuit(e, w.qal)
    BY DEF WalkStates
  <1>2. CASE a.physicalTarget # Unmapped
    <2>1. m = w
      BY <1>2 DEF PlaceOneQubitGate
    <2> HIDE DEF m
    <2>2. WalkStep(e, k, w, m, i)
      BY <1>2, <2>1 DEF WalkStep, SameEntry, Extends
    <2> QED BY <2>2 DEF m
  <1>3. CASE a.physicalTarget = Unmapped
    <2>1. a \in Entries(e) /\ a.gate # GeneratedSwap
      BY <1>1
    <2>2. a.gate \in 1..Len(e.gates) /\ a \in ScheduledGates
      <3> HIDE DEF a
      <3>1. Len(e.gates) \in Nat
        BY DEF IsEnvironment
      <3> QED BY <2>1, <3>1 DEF Entries, GeneratedSwap
    <2>3. q \in 0..e.numLogical-1 /\ q \in Physical
      BY <2>2, LogicalQubits, GateFields
    <2>4. /\ x \in Physical /\ x # Unmapped /\ q # Unmapped
          /\ ~arbitrary => x = w.laq[q]
          /\ arbitrary => w.qal[x] = Unmapped
      <3>1. Unmapped \notin Physical
        BY NodeAssumption DEF Physical, Unmapped
      <3>2. /\ ChoosePlace(w, q) \in Physical
            /\ w.laq[q] # Unmapped => ChoosePlace(w, q) = w.laq[q]
            /\ w.laq[q] = Unmapped => w.qal[ChoosePlace(w, q)] = Unmapped
        BY <2>3, ChosenPlace
      <3> QED BY <2>3, <3>1, <3>2
    <2>5. m = [w EXCEPT !.scheduled = sch, !.qal = qal, !.laq = laq]
      BY <1>3, <2>4 DEF PlaceOneQubitGate
    <2> HIDE DEF a, q, x, m, arbitrary
    <2>6. /\ b \in Entries(e) /\ b.physicalTarget = x /\ SameEntry(b, a)
      <3>1. x \in Place
        BY <2>4 DEF Place
      <3>2. b \in ScheduledGates /\ b.gate = a.gate
        BY <2>2, <3>1 DEF ScheduledGates
      <3>3. b \in Entries(e)
        BY <2>1, <3>2 DEF Entries
      <3> QED BY <1>3, <2>2, <3>3 DEF ScheduledGates, SameEntry
    <2> HIDE DEF b
    <2>7. /\ sch \in [1..k -> Entries(e)] /\ sch[i] = b
          /\ \A y \in 1..k : y # i => sch[y] = w.scheduled[y]
      BY <1>1, <2>6
    <2>8. /\ qal \in [Physical -> Place] /\ laq \in [Physical -> Place]
          /\ \A y \in Physical : qal[y] = IF arbitrary /\ y = x THEN q ELSE w.qal[y]
          /\ \A y \in Physical : laq[y] = IF arbitrary /\ y = q THEN x ELSE w.laq[y]
      BY <1>1, <2>3, <2>4 DEF Place
    <2> HIDE DEF sch, qal, laq
    <2>9. IsLayout(qal, laq)
      <3> SUFFICES ASSUME NEW y \in Physical
                   PROVE  /\ qal[y] # Unmapped => laq[qal[y]] = y
                          /\ laq[y] # Unmapped => qal[laq[y]] = y
        BY DEF IsLayout
      <3>1. /\ w.qal[y] # Unmapped => w.laq[w.qal[y]] = y /\ w.qal[y] \in Physical
            /\ w.laq[y] # Unmapped => w.qal[w.laq[y]] = y /\ w.laq[y] \in Physical
        BY <1>1 DEF IsLayout, Place
      <3>2. CASE ~arbitrary
        BY <2>8, <3>1, <3>2
      <3>3. CASE arbitrary
        <4>1. w.laq[q] = Unmapped /\ w.qal[x] = Unmapped /\ y # Unmapped
          BY <2>4, <3>3, NodeAssumption DEF arbitrary, Physical, Unmapped
        <4>2. qal[y] # Unmapped => laq[qal[y]] = y
          BY <2>3, <2>4, <2>8, <3>1, <3>3, <4>1
        <4>3. laq[y] # Unmapped => qal[laq[y]] = y
          BY <2>3, <2>4, <2>8, <3>1, <3>3, <4>1
        <4> QED BY <4>2, <4>3
      <3> QED BY <3>2, <3>3
    <2>10. IsOfCircuit(e, qal)
      <3>1. q \in -1..e.numLogical-1
        BY <2>3, NodeAssumption DEF IsEnvironment
      <3> QED BY <1>1, <2>8, <3>1 DEF IsOfCircuit
    <2>11. Extends(qal, w.qal)
      BY <2>4, <2>8 DEF Extends
    <2>12. qal[x] = q /\ laq[q] # Unmapped
      <3>1. ~arbitrary => w.laq[q] = x /\ w.qal[x] = q
        BY <1>1, <2>3, <2>4 DEF IsLayout
      <3> QED BY <2>3, <2>4, <2>8, <3>1
    <2>13. \A y \in Physical : w.laq[y] # Unmapped => laq[y] # Unmapped
      BY <2>4, <2>8
    <2>14. /\ m.qal = qal /\ m.laq = laq /\ m.scheduled = sch
           /\ m \in [qal : [Physical -> Place], laq : [Physical -> Place],
                     scheduled : [1..k -> Entries(e)]]
      BY <2>5, <2>7, <2>8 DEF WalkStates
    <2>15. m \in WalkStates(e, k)
      BY <2>9, <2>10, <2>14 DEF WalkStates
    <2>16. \A y \in 1..k : y # i => m.scheduled[y] = w.scheduled[y]
      BY <2>7, <2>14
    <2>17. SameEntry(m.scheduled[i], w.scheduled[i])
      BY <2>6, <2>7, <2>14 DEF a
    <2>18. /\ m.scheduled[i].physicalTarget # Unmapped
           /\ m.qal[m.scheduled[i].physicalTarget] = q
           /\ m.laq[q] # Unmapped
      BY <2>4, <2>6, <2>7, <2>12, <2>14
    <2>19. WalkStep(e, k, w, m, i)
      BY <2>11, <2>13, <2>14, <2>15, <2>16, <2>17, <2>18 DEF WalkStep, q, a
    <2> QED BY <2>19 DEF m
  <1> QED BY <1>2, <1>3

(* One iteration of the walk.                                              *)
LEMMA WalkBackStep ==
    ASSUME NEW e, IsEnvironment(e), HasNoSwapGates(e),
           NEW k, NEW w \in WalkStates(e, k), NEW i \in 1..k
    PROVE  WalkStep(e, k, w, WalkBack(e.gates, w, i), i)
  <1> DEFINE a == w.scheduled[i]
             m == WalkBack(e.gates, w, i)
  <1>1. CASE a.gate = GeneratedSwap
    <2>1. m = UndoSwap(w, a)
      BY <1>1 DEF WalkBack, NameOf, IsSwapName
    <2> QED BY <1>1, <2>1, UndoSwapStep
  <1>2. CASE a.gate # GeneratedSwap /\ ~IsTwoQubit(e.gates[a.gate])
    <2>1. m = PlaceOneQubitGate(e.gates, w, i)
      BY <1>2 DEF WalkBack
    <2> QED BY <1>2, <2>1, PlaceGateStep
  <1>3. CASE a.gate # GeneratedSwap /\ IsTwoQubit(e.gates[a.gate])
    <2>1. a.gate \in 1..Len(e.gates)
      <3>1. Len(e.gates) \in Nat
        BY DEF IsEnvironment
      <3>2. w.scheduled \in [1..k -> Entries(e)]
        BY DEF WalkStates
      <3>3. a \in Entries(e)
        BY <3>2
      <3> HIDE DEF a
      <3> QED BY <1>3, <3>1, <3>3 DEF Entries, GeneratedSwap
    <2>2. ~IsSwapName(e.gates[a.gate].name)
      BY <2>1 DEF HasNoSwapGates
    <2>3. m = w
      BY <1>3, <2>2 DEF WalkBack, NameOf
    <2> HIDE DEF m
    <2>4. WalkStep(e, k, w, m, i)
      BY <1>3, <2>3 DEF WalkStep, SameEntry, Extends
    <2> QED BY <2>4 DEF m
  <1> QED BY <1>1, <1>2, <1>3

(* The recursive function of ResultOf.                                     *)
Start(n) == [qal |-> n.qal, laq |-> n.laq, scheduled |-> n.scheduled]

IsWalk(gs, n, walk) ==
    walk = [i \in 0..Len(n.scheduled) |->
               IF i = 0 THEN Start(n)
               ELSE WalkBack(gs, walk[i-1], Len(n.scheduled) - i + 1)]

(* It exists.                                                              *)
LEMMA WalkExists ==
    ASSUME NEW e, IsEnvironment(e), HasNoSwapGates(e), NEW n,
           NEW k \in Nat, k = Len(n.scheduled), Start(n) \in WalkStates(e, k)
    PROVE  \E walk : IsWalk(e.gates, n, walk)
  <1> DEFINE S == WalkStates(e, k)
             F == [a \in Nat \X S |-> IF a[1] \in 1..k
                                      THEN WalkBack(e.gates, a[2], k - a[1] + 1)
                                      ELSE a[2]]
  <1>1. ASSUME NEW i \in 1..k, NEW w \in S
        PROVE  WalkBack(e.gates, w, k - i + 1) \in S
    <2>1. k - i + 1 \in 1..k
      OBVIOUS
    <2> QED BY <2>1, WalkBackStep DEF WalkStep
  <1>2. F \in [Nat \X S -> S]
    <2> SUFFICES ASSUME NEW a \in Nat \X S PROVE F[a] \in S
      OBVIOUS
    <2>1. a[1] \in Nat /\ a[2] \in S
      OBVIOUS
    <2> HIDE DEF S
    <2> QED BY <1>1, <2>1
  <1>3. \A i \in 1..k : \A w \in S : F[<<i, w>>] = WalkBack(e.gates, w, k - i + 1)
    <2> HIDE DEF S
    <2> QED OBVIOUS
  <1> HIDE DEF F, S
  <1>4. Start(n) \in S
    BY DEF S
  <1>5. \E f : IsRecursive(f, k, S, Start(n), F)
    BY <1>2, <1>4, Recursion
  <1>6. PICK f \in [0..k -> S] :
            f[0] = Start(n) /\ \A i \in 1..k : f[i] = F[<<i, f[i-1]>>]
    BY <1>5, Zenon DEF IsRecursive
  <1>7. \A i \in 0..k : f[i] = IF i = 0 THEN Start(n)
                               ELSE WalkBack(e.gates, f[i-1], k - i + 1)
    <2> SUFFICES ASSUME NEW i \in 1..k
                 PROVE  f[i] = WalkBack(e.gates, f[i-1], k - i + 1)
      BY <1>6
    <2>1. f[i-1] \in S
      BY <1>6
    <2> QED BY <1>3, <1>6, <2>1
  <1>8. IsWalk(e.gates, n, f)
    BY <1>6, <1>7 DEF IsWalk
  <1> QED BY <1>8

(* A walk from node n, one iteration after the other.                      *)
Walks(e, n, walk) ==
    LET k == Len(n.scheduled)
    IN  /\ walk \in [0..k -> WalkStates(e, k)]
        /\ walk[0] = Start(n)
        /\ \A i \in 1..k : WalkStep(e, k, walk[i-1], walk[i], k - i + 1)

(* The result is where the walk ends.                                      *)
ResultOfWalk(n, walk) ==
    LET w == walk[Len(n.scheduled)]
    IN  [scheduledGates |-> w.scheduled, inferredQal |-> w.qal,
         inferredLaq |-> w.laq, laq |-> n.laq]

(* ResultOf is the result of such a walk.                                  *)
LEMMA ResultIs ==
    ASSUME NEW e, IsEnvironment(e), HasNoSwapGates(e), NEW n,
           NEW k \in Nat, k = Len(n.scheduled), Start(n) \in WalkStates(e, k)
    PROVE  \E walk : Walks(e, n, walk) /\ ResultOf(n, e.gates) = ResultOfWalk(n, walk)
  <1> DEFINE walk == CHOOSE f : IsWalk(e.gates, n, f)
  <1>1. IsWalk(e.gates, n, walk)
    BY WalkExists
  <1>2. ResultOf(n, e.gates) = ResultOfWalk(n, walk)
    BY Zenon DEF ResultOf, ResultOfWalk, IsWalk, Start
  <1> HIDE DEF walk
  <1>3. walk[0] = Start(n)
    BY <1>1 DEF IsWalk
  <1>4. ASSUME NEW i \in 1..k
        PROVE  walk[i] = WalkBack(e.gates, walk[i-1], k - i + 1)
    <2>1. i \in 0..k /\ i # 0
      OBVIOUS
    <2> QED BY <1>1, <2>1 DEF IsWalk
  <1> DEFINE T == {i \in 0..k : walk[i] \in WalkStates(e, k)}
  <1>5. 0 \in T
    BY <1>3
  <1>6. ASSUME NEW i \in 1..k, walk[i-1] \in WalkStates(e, k)
        PROVE  WalkStep(e, k, walk[i-1], walk[i], k - i + 1)
    <2>1. k - i + 1 \in 1..k
      OBVIOUS
    <2> QED BY <1>4, <1>6, <2>1, WalkBackStep
  <1>7. ASSUME NEW i \in 0..k-1, i \in T
        PROVE  i + 1 \in T
    <2>1. i + 1 \in 1..k /\ i + 1 \in 0..k /\ (i + 1) - 1 = i
      OBVIOUS
    <2>2. WalkStep(e, k, walk[i], walk[i + 1], k - (i + 1) + 1)
      BY <1>6, <1>7, <2>1
    <2> QED BY <2>1, <2>2 DEF WalkStep
  <1>8. 0..k \subseteq T
    <2> HIDE DEF T
    <2> QED BY <1>5, <1>7, UpTo
  <1>9. walk \in [0..k -> WalkStates(e, k)]
    <2>1. \A i \in 0..k : walk[i] \in WalkStates(e, k)
      BY <1>8
    <2>2. walk = [i \in 0..k |-> IF i = 0 THEN Start(n)
                                 ELSE WalkBack(e.gates, walk[i-1], k - i + 1)]
      BY <1>1 DEF IsWalk
    <2> QED BY <2>1, <2>2
  <1>10. \A i \in 1..k : WalkStep(e, k, walk[i-1], walk[i], k - i + 1)
    <2> SUFFICES ASSUME NEW i \in 1..k
                 PROVE  WalkStep(e, k, walk[i-1], walk[i], k - i + 1)
      OBVIOUS
    <2>1. i - 1 \in 0..k
      OBVIOUS
    <2>2. walk[i-1] \in WalkStates(e, k)
      BY <1>9, <2>1
    <2> QED BY <1>6, <2>2
  <1> QED BY <1>2, <1>3, <1>9, <1>10 DEF Walks

(* Entry a of the result acts on the qubits that layout before gives it,   *)
(* and leads to a layout that says at least what after does.               *)
Replays(e, a, before, after) ==
    IF a.gate = GeneratedSwap
    THEN /\ a.physicalControl \in Physical /\ a.physicalTarget \in Physical
         /\ after = SwapQal(before, a.physicalControl, a.physicalTarget)
    ELSE /\ Extends(before, after)
         /\ a.physicalTarget \in Physical
         /\ before[a.physicalTarget] = e.gates[a.gate].target
         /\ IsTwoQubit(e.gates[a.gate]) =>
               /\ a.physicalControl \in Physical
               /\ before[a.physicalControl] = e.gates[a.gate].control

(* The invariant of the walk, after i iterations: the entries visited can  *)
(* be replayed and their qubits have places; the layout says at least what *)
(* the search knew at that time.                                           *)
WalkedBack(e, n, H, walk, i) ==
    LET k == Len(n.scheduled)
        w == walk[i]
    IN  /\ Extends(w.qal, H[k-i])
        /\ \A x \in 1..k : SameEntry(w.scheduled[x], n.scheduled[x])
        /\ \A x \in 1..k-i : w.scheduled[x] = n.scheduled[x]
        /\ \A q \in Physical : n.laq[q] # Unmapped => w.laq[q] # Unmapped
        /\ \A x \in k-i+1..k :
              /\ Replays(e, w.scheduled[x], walk[k-x+1].qal, walk[k-x].qal)
              /\ n.scheduled[x].gate # GeneratedSwap =>
                    \A q \in QubitsOf(e.gates[n.scheduled[x].gate]) :
                        w.laq[q] # Unmapped

(* The schedule that the walk starts from.                                 *)
LEMMA StartState ==
    ASSUME NEW e, NEW n \in Nodes, IsLayout(n.qal, n.laq), Remembers(e, n),
           \A i \in DOMAIN n.scheduled : n.scheduled[i].gate \in 0..Len(e.gates)
    PROVE  /\ Len(n.scheduled) \in Nat
           /\ Start(n) \in WalkStates(e, Len(n.scheduled))
           /\ n.scheduled \in [1..Len(n.scheduled) -> Entries(e)]
  <1> DEFINE s == n.scheduled
             k == Len(s)
  <1>1. s \in Seq(ScheduledGates) /\ k \in Nat /\ DOMAIN s = 1..k
        /\ n.qal \in [Physical -> Place] /\ n.laq \in [Physical -> Place]
    BY DEF Nodes
  <1>2. PICK H : IsHistory(e, s, n.qal, H)
    BY DEF Remembers
  <1>3. \A i \in 1..k : s[i] \in Entries(e)
    <2> SUFFICES ASSUME NEW i \in 1..k PROVE s[i] \in Entries(e)
      OBVIOUS
    <2>1. s[i].gate \in 0..Len(e.gates)
      BY <1>1
    <2>2. Follows(e, s[i], H[i-1], H[i])
      BY <1>2 DEF IsHistory
    <2> HIDE DEF s
    <2>3. s[i] \in ScheduledGates
      BY <1>1
    <2> QED BY <2>1, <2>2, <2>3 DEF Entries, Follows
  <1>4. IsOfCircuit(e, n.qal)
    BY DEF Remembers
  <1> HIDE DEF s, k
  <1>5. s \in [1..k -> Entries(e)]
    BY <1>1, <1>3
  <1>6. Start(n) \in WalkStates(e, k)
    <2>1. Start(n) = [qal |-> n.qal, laq |-> n.laq, scheduled |-> s]
      BY DEF Start, s
    <2> QED BY <1>1, <1>4, <1>5, <2>1 DEF WalkStates
  <1> QED BY <1>1, <1>5, <1>6 DEF s, k

(* Swaps undo themselves also in the same order of the qubits.             *)
LEMMA SwapQalAgain ==
    ASSUME NEW qal \in [Physical -> Place], NEW p1 \in Physical, NEW p2 \in Physical
    PROVE  qal = SwapQal(SwapQal(qal, p1, p2), p1, p2)
  <1> DEFINE b == SwapQal(qal, p1, p2)
  <1>1. b \in [Physical -> Place]
    BY SwapQalAt
  <1>2. SwapQal(b, p2, p1) = qal
    BY SwapQalTwice
  <1> HIDE DEF b
  <1>3. SwapQal(b, p1, p2) = SwapQal(b, p2, p1)
    BY <1>1 DEF SwapQal
  <1> QED BY <1>2, <1>3 DEF b

(* One more iteration.                                                     *)
LEMMA WalkedBackStep ==
    ASSUME NEW e, IsEnvironment(e), NEW n \in Nodes,
           NEW H, IsHistory(e, n.scheduled, n.qal, H),
           n.scheduled \in [1..Len(n.scheduled) -> Entries(e)],
           AllRemembered(e, n), NEW walk, Walks(e, n, walk),
           NEW i \in 0..Len(n.scheduled)-1, WalkedBack(e, n, H, walk, i)
    PROVE  WalkedBack(e, n, H, walk, i + 1)
  <1> DEFINE s == n.scheduled
             k == Len(s)
             j == k - i
             w == walk[i]
             m == walk[i+1]
             a == s[j]
             b == m.scheduled[j]
             v == e.gates[a.gate]
  <1>1. /\ k \in Nat /\ i \in 0..k-1 /\ s \in [1..k -> Entries(e)]
        /\ H \in [0..k -> [Physical -> Place]]
        /\ \A x \in 1..k : Follows(e, s[x], H[x-1], H[x])
    <2>1. s \in Seq(ScheduledGates)
      BY DEF Nodes
    <2> QED BY <2>1 DEF IsHistory
  <1>2. /\ walk \in [0..k -> WalkStates(e, k)]
        /\ \A x \in 1..k : WalkStep(e, k, walk[x-1], walk[x], k - x + 1)
    BY DEF Walks
  <1>3. /\ Extends(w.qal, H[j])
        /\ \A x \in 1..k : SameEntry(w.scheduled[x], s[x])
        /\ \A x \in 1..j : w.scheduled[x] = s[x]
        /\ \A q \in Physical : n.laq[q] # Unmapped => w.laq[q] # Unmapped
        /\ \A x \in j+1..k :
              /\ Replays(e, w.scheduled[x], walk[k-x+1].qal, walk[k-x].qal)
              /\ s[x].gate # GeneratedSwap =>
                    \A q \in QubitsOf(e.gates[s[x].gate]) : w.laq[q] # Unmapped
    BY DEF WalkedBack
  <1>4. \A x \in 1..k : s[x].gate # GeneratedSwap => s[x].gate \in 1..Len(e.gates)
    <2> SUFFICES ASSUME NEW x \in 1..k, s[x].gate # GeneratedSwap
                 PROVE  s[x].gate \in 1..Len(e.gates)
      OBVIOUS
    <2>1. s[x] \in Entries(e)
      BY <1>1
    <2>2. Len(e.gates) \in Nat
      BY DEF IsEnvironment
    <2> HIDE DEF s
    <2> QED BY <2>1, <2>2 DEF Entries, GeneratedSwap
  <1> HIDE DEF s, k
  <1>5. /\ i \in 0..k /\ i + 1 \in 1..k /\ (i + 1) - 1 = i /\ k - (i + 1) + 1 = j
        /\ j \in 1..k /\ j - 1 \in 0..k /\ k - (i + 1) = j - 1 /\ j \in 0..k
        /\ k - j = i /\ k - j + 1 = i + 1 /\ i + 1 \in 0..k
    BY <1>1
  <1>6. w \in WalkStates(e, k) /\ m \in WalkStates(e, k) /\ WalkStep(e, k, w, m, j)
    <2>1. walk[i] \in WalkStates(e, k) /\ walk[i+1] \in WalkStates(e, k)
      BY <1>2, <1>5
    <2>2. WalkStep(e, k, walk[(i+1)-1], walk[i+1], k - (i+1) + 1)
      BY <1>2, <1>5
    <2> QED BY <1>5, <2>1, <2>2
  <1>7. /\ H[j] \in [Physical -> Place] /\ H[j-1] \in [Physical -> Place]
        /\ Follows(e, a, H[j-1], H[j]) /\ w.scheduled[j] = a
        /\ a \in ScheduledGates
    <2>1. a \in Entries(e)
      BY <1>1, <1>5
    <2>2. j \in 1..j
      BY <1>5
    <2> QED BY <1>1, <1>3, <1>5, <2>1, <2>2 DEF Entries
  <1>8. a.gate # GeneratedSwap =>
           /\ v.target \in Physical /\ v.target # Unmapped /\ v.target \in QubitsOf(v)
           /\ QubitsOf(v) \subseteq Physical
           /\ IsTwoQubit(v) => v.control \in Physical /\ v.control # Unmapped
           /\ ~IsTwoQubit(v) => QubitsOf(v) = {v.target}
    <2>1. Unmapped \notin Physical
      BY NodeAssumption DEF Physical, Unmapped
    <2>2. a.gate # GeneratedSwap => a.gate \in 1..Len(e.gates)
      BY <1>4, <1>5
    <2> HIDE DEF a
    <2> QED BY <2>1, <2>2, GateFields
  <1>9. /\ w.qal \in [Physical -> Place] /\ m.qal \in [Physical -> Place]
        /\ b \in ScheduledGates
    <2>1. /\ w.qal \in [Physical -> Place] /\ m.qal \in [Physical -> Place]
          /\ m.scheduled \in [1..k -> Entries(e)]
      BY <1>6 DEF WalkStates
    <2>2. b \in Entries(e)
      BY <1>5, <2>1
    <2> QED BY <2>1, <2>2 DEF Entries
  <1> HIDE DEF j, w, m, a, b, v
  <1>10. /\ \A x \in 1..k : x # j => m.scheduled[x] = w.scheduled[x]
         /\ SameEntry(b, a)
         /\ \A q \in Physical : w.laq[q] # Unmapped => m.laq[q] # Unmapped
         /\ a.gate = GeneratedSwap =>
               m.qal = SwapQal(w.qal, a.physicalControl, a.physicalTarget)
         /\ a.gate # GeneratedSwap => Extends(m.qal, w.qal)
         /\ a.gate # GeneratedSwap /\ a.physicalTarget = Unmapped /\ ~IsTwoQubit(v) =>
               /\ b.physicalTarget # Unmapped /\ m.qal[b.physicalTarget] = v.target
               /\ m.laq[v.target] # Unmapped
    BY <1>6, <1>7 DEF WalkStep, b, v
  <1>11. /\ Extends(m.qal, H[j-1])
         /\ Replays(e, b, m.qal, w.qal)
    <2>1. CASE a.gate = GeneratedSwap
      <3> DEFINE pc == a.physicalControl
                 pt == a.physicalTarget
                 B == SwapQal(H[j-1], pc, pt)
      <3>1. pc \in Physical /\ pt \in Physical /\ Extends(H[j], B)
        BY <1>7, <2>1 DEF Follows
      <3>2. Extends(w.qal, B)
        BY <1>3, <3>1, ExtendsTransitive
      <3>3. B \in [Physical -> Place] /\ H[j-1] = SwapQal(B, pc, pt)
        <4> DEFINE h == H[j-1]
        <4>1. h \in [Physical -> Place] /\ pc \in Physical /\ pt \in Physical
          BY <1>7, <3>1
        <4> HIDE DEF h, pc, pt
        <4>2. SwapQal(h, pc, pt) \in [Physical -> Place]
          BY <4>1, SwapQalAt
        <4>3. h = SwapQal(SwapQal(h, pc, pt), pc, pt)
          BY <4>1, SwapQalAgain
        <4> QED BY <4>2, <4>3 DEF h
      <3> HIDE DEF B, pc, pt
      <3>4. Extends(SwapQal(w.qal, pc, pt), SwapQal(B, pc, pt))
        BY <1>9, <3>1, <3>2, <3>3, SwapExtends
      <3>5. m.qal = SwapQal(w.qal, pc, pt)
        BY <1>10, <2>1 DEF pc, pt
      <3>6. w.qal = SwapQal(m.qal, pc, pt)
        BY <1>9, <3>1, <3>5, SwapQalAgain
      <3>7. b.gate = GeneratedSwap /\ b.physicalControl = pc /\ b.physicalTarget = pt
        <4>1. pt # Unmapped
          BY <3>1, NodeAssumption DEF Physical, Unmapped
        <4> QED BY <1>10, <2>1, <4>1 DEF SameEntry, pc, pt
      <3>8. Replays(e, b, m.qal, w.qal)
        BY <3>1, <3>6, <3>7 DEF Replays
      <3> QED BY <3>3, <3>4, <3>5, <3>8
    <2>2. CASE a.gate # GeneratedSwap
      <3>1. /\ Extends(H[j], H[j-1]) /\ Extends(m.qal, w.qal)
            /\ a.physicalTarget # Unmapped => H[j-1][a.physicalTarget] = v.target
            /\ IsTwoQubit(v) =>
                  /\ a.physicalControl # Unmapped /\ a.physicalTarget # Unmapped
                  /\ H[j-1][a.physicalControl] = v.control
        BY <1>7, <1>10, <2>2 DEF Follows, v
      <3>2. Extends(m.qal, H[j-1])
        BY <1>3, <3>1, ExtendsTransitive
      <3>3. /\ a.physicalTarget # Unmapped => a.physicalTarget \in Physical
            /\ a.physicalControl # Unmapped => a.physicalControl \in Physical
            /\ b.physicalTarget # Unmapped => b.physicalTarget \in Physical
        BY <1>7, <1>9 DEF ScheduledGates, Place
      <3>4. /\ b.gate = a.gate /\ b.physicalControl = a.physicalControl
            /\ a.physicalTarget # Unmapped => b.physicalTarget = a.physicalTarget
        BY <1>10 DEF SameEntry
      <3>5. b.physicalTarget \in Physical /\ m.qal[b.physicalTarget] = v.target
        <4>1. CASE a.physicalTarget # Unmapped
          BY <1>8, <2>2, <3>1, <3>2, <3>3, <3>4, <4>1 DEF Extends
        <4>2. CASE a.physicalTarget = Unmapped
          BY <1>10, <2>2, <3>1, <3>3, <4>2
        <4> QED BY <4>1, <4>2
      <3>6. IsTwoQubit(v) => /\ b.physicalControl \in Physical
                             /\ m.qal[b.physicalControl] = v.control
        BY <1>8, <2>2, <3>1, <3>2, <3>3, <3>4 DEF Extends
      <3>7. Replays(e, b, m.qal, w.qal)
        BY <2>2, <3>1, <3>4, <3>5, <3>6 DEF Replays, v
      <3> QED BY <3>2, <3>7
    <2> QED BY <2>1, <2>2
  <1>12. ASSUME NEW x \in 1..k
         PROVE  SameEntry(m.scheduled[x], s[x])
    <2>1. CASE x = j
      BY <1>10, <2>1 DEF a, b
    <2>2. CASE x # j
      BY <1>3, <1>10, <2>2
    <2> QED BY <2>1, <2>2
  <1>13. ASSUME NEW x \in 1..j-1
         PROVE  m.scheduled[x] = s[x]
    <2>0. k \in Nat /\ j \in 1..k
      BY <1>1, <1>5
    <2> HIDE DEF k
    <2>1. x \in 1..k /\ x # j /\ x \in 1..j
      BY <2>0
    <2> QED BY <1>3, <1>10, <2>1
  <1>14. \A q \in Physical : n.laq[q] # Unmapped => m.laq[q] # Unmapped
    BY <1>3, <1>10
  <1>15. a.gate # GeneratedSwap => \A q \in QubitsOf(v) : m.laq[q] # Unmapped
    <2> SUFFICES ASSUME a.gate # GeneratedSwap, NEW q \in QubitsOf(v)
                 PROVE  m.laq[q] # Unmapped
      OBVIOUS
    <2>1. CASE a.physicalTarget # Unmapped
      <3>1. j \in DOMAIN n.scheduled /\ OfCircuit(n.scheduled[j])
        BY <1>1, <1>5, <2>1 DEF OfCircuit, a, s
      <3>2. Remembered(n, n.scheduled[j], q)
        BY <3>1 DEF AllRemembered, v, a, s
      <3>3. n.laq[q] # Unmapped /\ q \in Physical
        BY <1>8, <3>2 DEF Remembered
      <3> QED BY <1>14, <3>3
    <2>2. CASE a.physicalTarget = Unmapped
      <3>1. ~IsTwoQubit(v)
        BY <1>7, <2>2 DEF Follows, v
      <3> QED BY <1>8, <1>10, <2>2, <3>1
    <2> QED BY <2>1, <2>2
  <1>16. ASSUME NEW x \in j..k
         PROVE  /\ Replays(e, m.scheduled[x], walk[k-x+1].qal, walk[k-x].qal)
                /\ s[x].gate # GeneratedSwap =>
                      \A q \in QubitsOf(e.gates[s[x].gate]) : m.laq[q] # Unmapped
    <2>1. CASE x = j
      <3>1. walk[k-x+1] = m /\ walk[k-x] = w
        BY <1>5, <2>1 DEF m, w
      <3>2. m.scheduled[x] = b /\ s[x] = a /\ e.gates[s[x].gate] = v
        BY <2>1 DEF a, b, v
      <3> QED BY <1>11, <1>15, <3>1, <3>2
    <2>2. CASE x # j
      <3>0. k \in Nat /\ j \in 1..k
        BY <1>1, <1>5
      <3>1. x \in j+1..k /\ x \in 1..k
        <4> HIDE DEF k
        <4> QED BY <2>2, <3>0
      <3>2. m.scheduled[x] = w.scheduled[x]
        BY <1>10, <2>2, <3>1
      <3>3. ASSUME s[x].gate # GeneratedSwap, NEW q \in QubitsOf(e.gates[s[x].gate])
            PROVE  m.laq[q] # Unmapped
        <4>1. q \in Physical
          BY <1>4, <3>1, <3>3, GateFields
        <4> QED BY <1>3, <1>10, <3>1, <3>3, <4>1
      <3> QED BY <1>3, <3>1, <3>2, <3>3
    <2> QED BY <2>1, <2>2
  <1>17. /\ k - (i + 1) = j - 1 /\ k - (i + 1) + 1 = j
    BY <1>5
  <1> QED
    BY <1>11, <1>12, <1>13, <1>14, <1>16, <1>17 DEF WalkedBack, s, k, m

(* What holds at the end of the walk.                                      *)
LEMMA WalkedBackAll ==
    ASSUME NEW e, IsEnvironment(e), NEW n \in Nodes,
           NEW H, IsHistory(e, n.scheduled, n.qal, H),
           n.scheduled \in [1..Len(n.scheduled) -> Entries(e)],
           AllRemembered(e, n), NEW walk, Walks(e, n, walk)
    PROVE  WalkedBack(e, n, H, walk, Len(n.scheduled))
  <1> DEFINE k == Len(n.scheduled)
             T == {i \in 0..k : WalkedBack(e, n, H, walk, i)}
  <1>1. k \in Nat
    <2>1. n.scheduled \in Seq(ScheduledGates)
      BY DEF Nodes
    <2> QED BY <2>1
  <1>2. 0 \in T
    <2>1. /\ walk[0].qal = n.qal /\ walk[0].laq = n.laq
          /\ walk[0].scheduled = n.scheduled
      BY DEF Walks, Start
    <2>2. Extends(n.qal, H[k-0])
      BY <1>1 DEF IsHistory
    <2>3. \A x \in k-0+1..k : FALSE
      BY <1>1
    <2> QED BY <1>1, <2>1, <2>2, <2>3 DEF WalkedBack, SameEntry
  <1>3. ASSUME NEW i \in 0..k-1, i \in T
        PROVE  i + 1 \in T
    <2>1. WalkedBack(e, n, H, walk, i + 1)
      BY <1>3, WalkedBackStep
    <2> QED BY <1>1, <2>1
  <1>4. 0..k \subseteq T
    <2> HIDE DEF T, k
    <2> QED BY <1>1, <1>2, <1>3, UpTo
  <1>5. k \in T
    BY <1>1, <1>4
  <1> QED BY <1>5

-----------------------------------------------------------------------------

(* The replay of the result.                                               *)

(* The recursive function of LayoutAfter.                                  *)
AfterEntry(a, qal) ==
    IF a.gate = GeneratedSwap
    THEN SwapQal(qal, a.physicalControl, a.physicalTarget) ELSE qal

IsReplay(s, qal, at) ==
    at = [i \in 0..Len(s) |-> IF i = 0 THEN qal ELSE AfterEntry(s[i], at[i-1])]

(* What one entry does to a layout.                                        *)
LEMMA AfterEntryType ==
    ASSUME NEW e, NEW a \in Entries(e), NEW qal \in [Physical -> Place]
    PROVE  AfterEntry(a, qal) \in [Physical -> Place]
  BY SwapQalAt DEF AfterEntry, Entries

(* It exists, and its values are layouts.                                  *)
LEMMA ReplayExists ==
    ASSUME NEW e, NEW k \in Nat, NEW s \in [1..k -> Entries(e)], Len(s) = k,
           NEW qal \in [Physical -> Place]
    PROVE  \E at : IsReplay(s, qal, at)
  <1> DEFINE S == [Physical -> Place]
             F == [a \in Nat \X S |-> IF a[1] \in 1..k THEN AfterEntry(s[a[1]], a[2])
                                      ELSE a[2]]
  <1>1. \A i \in 1..k : \A l \in S : AfterEntry(s[i], l) \in S
    BY AfterEntryType
  <1> HIDE DEF S
  <1>2. F \in [Nat \X S -> S]
    <2> SUFFICES ASSUME NEW a \in Nat \X S PROVE F[a] \in S
      OBVIOUS
    <2>1. a[1] \in Nat /\ a[2] \in S
      OBVIOUS
    <2> QED BY <1>1, <2>1
  <1>3. \A i \in 1..k : \A l \in S : F[<<i, l>>] = AfterEntry(s[i], l)
    OBVIOUS
  <1> HIDE DEF F
  <1>4. \E f : IsRecursive(f, k, S, qal, F)
    <2>1. qal \in S
      BY DEF S
    <2> QED BY <1>2, <2>1, Recursion
  <1>5. PICK f \in [0..k -> S] :
            f[0] = qal /\ \A i \in 1..k : f[i] = F[<<i, f[i-1]>>]
    BY <1>4, Zenon DEF IsRecursive
  <1>6. \A i \in 0..k : f[i] = IF i = 0 THEN qal ELSE AfterEntry(s[i], f[i-1])
    <2> SUFFICES ASSUME NEW i \in 1..k
                 PROVE  f[i] = AfterEntry(s[i], f[i-1])
      BY <1>5
    <2>1. f[i-1] \in S
      BY <1>5
    <2> QED BY <1>3, <1>5, <2>1
  <1>7. IsReplay(s, qal, f)
    BY <1>5, <1>6 DEF IsReplay
  <1> QED BY <1>7

(* LayoutAfter is that function.                                           *)
LEMMA LayoutAfterIs ==
    ASSUME NEW e, NEW k \in Nat, NEW s \in [1..k -> Entries(e)], Len(s) = k,
           NEW qal \in [Physical -> Place]
    PROVE  /\ LayoutAfter(s, qal)[0] = qal
           /\ \A i \in 1..k :
                 LayoutAfter(s, qal)[i] = AfterEntry(s[i], LayoutAfter(s, qal)[i-1])
  <1> DEFINE at == CHOOSE f : IsReplay(s, qal, f)
  <1>1. IsReplay(s, qal, at)
    BY ReplayExists
  <1>2. LayoutAfter(s, qal) = at
    BY Zenon DEF LayoutAfter, IsReplay, AfterEntry
  <1> HIDE DEF at
  <1>3. at = [i \in 0..k |-> IF i = 0 THEN qal ELSE AfterEntry(s[i], at[i-1])]
    BY <1>1 DEF IsReplay
  <1>4. at[0] = qal
    BY <1>3
  <1>5. ASSUME NEW i \in 1..k PROVE at[i] = AfterEntry(s[i], at[i-1])
    <2>1. i \in 0..k /\ i # 0
      OBVIOUS
    <2> QED BY <1>3, <2>1
  <1> QED BY <1>2, <1>4, <1>5

(* The replay says at least what the walk knew.                            *)
LEMMA ReplayExtends ==
    ASSUME NEW e, NEW n \in Nodes, NEW walk, Walks(e, n, walk),
           NEW k \in Nat, k = Len(n.scheduled),
           NEW s \in [1..k -> Entries(e)], Len(s) = k,
           \A x \in 1..k : Replays(e, s[x], walk[k-x+1].qal, walk[k-x].qal),
           NEW i \in 0..k
    PROVE  Extends(LayoutAfter(s, walk[k].qal)[i], walk[k-i].qal)
  <1> DEFINE at == LayoutAfter(s, walk[k].qal)
             T == {j \in 0..k : /\ at[j] \in [Physical -> Place]
                                /\ Extends(at[j], walk[k-j].qal)}
  <1>1. \A j \in 0..k : walk[j].qal \in [Physical -> Place]
    <2> SUFFICES ASSUME NEW j \in 0..k PROVE walk[j].qal \in [Physical -> Place]
      OBVIOUS
    <2>1. walk[j] \in WalkStates(e, k)
      BY DEF Walks
    <2> QED BY <2>1 DEF WalkStates
  <1>2. k \in 0..k /\ walk[k].qal \in [Physical -> Place]
    BY <1>1
  <1>3. at[0] = walk[k].qal /\ \A j \in 1..k : at[j] = AfterEntry(s[j], at[j-1])
    BY <1>2, LayoutAfterIs
  <1> HIDE DEF at
  <1>4. 0 \in T
    <2>1. k - 0 = k
      OBVIOUS
    <2> QED BY <1>2, <1>3, <2>1 DEF Extends
  <1>5. ASSUME NEW j \in 0..k-1, j \in T
        PROVE  j + 1 \in T
    <2> DEFINE x == j + 1
               a == s[x]
               before == walk[k-j].qal
               after == walk[k-x].qal
    <2>1. /\ x \in 1..k /\ x - 1 = j /\ k - x + 1 = k - j /\ k - j \in 0..k
          /\ k - x \in 0..k /\ x \in 0..k
      OBVIOUS
    <2>2. /\ at[j] \in [Physical -> Place] /\ Extends(at[j], before)
          /\ before \in [Physical -> Place] /\ after \in [Physical -> Place]
      BY <1>1, <1>5, <2>1
    <2>3. Replays(e, a, before, after)
      BY <2>1
    <2>4. a \in Entries(e)
      BY <2>1
    <2>5. at[x] = AfterEntry(a, at[j])
      BY <1>3, <2>1
    <2> HIDE DEF x, a, before, after
    <2>6. at[x] \in [Physical -> Place]
      BY <2>2, <2>4, <2>5, AfterEntryType
    <2>7. Extends(at[x], after)
      <3>1. CASE a.gate = GeneratedSwap
        <4>1. /\ a.physicalControl \in Physical /\ a.physicalTarget \in Physical
              /\ after = SwapQal(before, a.physicalControl, a.physicalTarget)
              /\ at[x] = SwapQal(at[j], a.physicalControl, a.physicalTarget)
          BY <2>3, <2>5, <3>1 DEF Replays, AfterEntry
        <4> QED BY <2>2, <4>1, SwapExtends
      <3>2. CASE a.gate # GeneratedSwap
        <4>1. Extends(before, after) /\ at[x] = at[j]
          BY <2>3, <2>5, <3>2 DEF Replays, AfterEntry
        <4> QED BY <2>2, <4>1, ExtendsTransitive
      <3> QED BY <3>1, <3>2
    <2>8. x \in T
      BY <2>1, <2>6, <2>7 DEF after
    <2> QED BY <2>8 DEF x
  <1>6. 0..k \subseteq T
    <2> HIDE DEF T
    <2> QED BY <1>4, <1>5, UpTo
  <1>7. i \in T
    BY <1>6
  <1> QED BY <1>7 DEF at

-----------------------------------------------------------------------------

(* The theorems.                                                           *)

(* All that is known of a node, and of the walk from there.                *)
Known(e, n, walk) ==
    LET k == Len(n.scheduled)
        s == walk[k].scheduled
    IN  /\ k \in Nat
        /\ walk[k] \in WalkStates(e, k) /\ walk[0] = Start(n)
        /\ s \in [1..k -> Entries(e)] /\ Len(s) = k
        /\ \A x \in 1..k : SameEntry(s[x], n.scheduled[x])
        /\ \A q \in Physical : n.laq[q] # Unmapped => walk[k].laq[q] # Unmapped
        /\ \A x \in 1..k : Replays(e, s[x], walk[k-x+1].qal, walk[k-x].qal)
        /\ \A x \in 1..k : n.scheduled[x].gate # GeneratedSwap =>
              \A q \in QubitsOf(e.gates[n.scheduled[x].gate]) :
                  /\ walk[k].laq[q] # Unmapped
                  /\ IsTwoQubit(e.gates[n.scheduled[x].gate]) => n.laq[q] # Unmapped

(* The invariants of a path give all that.                                 *)
LEMMA KnownResult ==
    ASSUME NEW e, IsEnvironment(e), HasNoSwapGates(e), NEW n \in Nodes,
           IsLayout(n.qal, n.laq), Timing(e, n), Remembers(e, n)
    PROVE  \E walk : /\ Walks(e, n, walk) /\ Known(e, n, walk)
                     /\ ResultOf(n, e.gates) = ResultOfWalk(n, walk)
  <1> DEFINE k == Len(n.scheduled)
  <1>1. \A i \in DOMAIN n.scheduled : n.scheduled[i].gate \in 0..Len(e.gates)
    BY DEF Timing
  <1>2. /\ k \in Nat /\ Start(n) \in WalkStates(e, k)
        /\ n.scheduled \in [1..k -> Entries(e)]
    BY <1>1, StartState
  <1>3. PICK walk : Walks(e, n, walk) /\ ResultOf(n, e.gates) = ResultOfWalk(n, walk)
    BY <1>2, ResultIs
  <1>4. PICK H : IsHistory(e, n.scheduled, n.qal, H)
    BY DEF Remembers
  <1>5. AllRemembered(e, n)
    BY DEF Timing
  <1>6. WalkedBack(e, n, H, walk, k)
    BY <1>2, <1>3, <1>4, <1>5, WalkedBackAll
  <1> DEFINE s == walk[k].scheduled
  <1>7. walk[k] \in WalkStates(e, k) /\ walk[0] = Start(n)
    BY <1>2, <1>3 DEF Walks
  <1>8. s \in [1..k -> Entries(e)] /\ Len(s) = k
    <2>1. s \in [1..k -> Entries(e)]
      BY <1>7 DEF WalkStates
    <2> HIDE DEF s, k
    <2>2. s \in Seq(Entries(e))
      BY <1>2, <2>1
    <2> QED BY <1>2, <2>1, <2>2
  <1>9. ASSUME NEW x \in 1..k, n.scheduled[x].gate # GeneratedSwap,
               NEW q \in QubitsOf(e.gates[n.scheduled[x].gate]),
               IsTwoQubit(e.gates[n.scheduled[x].gate])
        PROVE  n.laq[q] # Unmapped
    <2>1. Follows(e, n.scheduled[x], H[x-1], H[x])
      BY <1>4, <1>9 DEF IsHistory
    <2>2. OfCircuit(n.scheduled[x])
      BY <1>9, <2>1 DEF Follows, OfCircuit
    <2>3. x \in DOMAIN n.scheduled
      BY <1>2, <1>9
    <2> QED BY <1>5, <1>9, <2>2, <2>3 DEF AllRemembered, Remembered
  <1>10. /\ \A x \in 1..k : SameEntry(s[x], n.scheduled[x])
         /\ \A q \in Physical : n.laq[q] # Unmapped => walk[k].laq[q] # Unmapped
         /\ \A x \in 1..k :
               /\ Replays(e, s[x], walk[k-x+1].qal, walk[k-x].qal)
               /\ n.scheduled[x].gate # GeneratedSwap =>
                     \A q \in QubitsOf(e.gates[n.scheduled[x].gate]) :
                         walk[k].laq[q] # Unmapped
    <2>1. k - k + 1 = 1
      BY <1>2
    <2> QED BY <1>6, <2>1 DEF WalkedBack
  <1> HIDE DEF s, k
  <1>11. Known(e, n, walk)
    BY <1>2, <1>7, <1>8, <1>9, <1>10 DEF Known, s, k
  <1> QED BY <1>3, <1>11

(* The result can be replayed.                                             *)
LEMMA FaithfulResult ==
    ASSUME NEW e, IsEnvironment(e), NEW n \in Nodes, IsLayout(n.qal, n.laq),
           NEW walk, Walks(e, n, walk), Known(e, n, walk)
    PROVE  IsFaithful(e.gates, ResultOfWalk(n, walk))
  <1> DEFINE k == Len(n.scheduled)
             s == walk[k].scheduled
             at == LayoutAfter(s, walk[k].qal)
             r == ResultOfWalk(n, walk)
  <1>1. /\ k \in Nat /\ s \in [1..k -> Entries(e)] /\ Len(s) = k
        /\ \A x \in 1..k : Replays(e, s[x], walk[k-x+1].qal, walk[k-x].qal)
        /\ walk[0] = Start(n)
    BY DEF Known
  <1>2. r.scheduledGates = s /\ r.inferredQal = walk[k].qal /\ r.laq = n.laq
    BY DEF ResultOfWalk
  <1>3. \A i \in 0..k : Extends(at[i], walk[k-i].qal)
    <2> HIDE DEF s
    <2> SUFFICES ASSUME NEW i \in 0..k PROVE Extends(at[i], walk[k-i].qal)
      OBVIOUS
    <2> QED BY <1>1, ReplayExtends
  <1> HIDE DEF k, s, at, r
  <1>4. ASSUME NEW i \in 1..k, s[i].gate # GeneratedSwap
        PROVE  /\ s[i].physicalTarget # Unmapped
               /\ at[i-1][s[i].physicalTarget] = e.gates[s[i].gate].target
               /\ IsTwoQubit(e.gates[s[i].gate]) =>
                     at[i-1][s[i].physicalControl] = e.gates[s[i].gate].control
    <2> DEFINE a == s[i]
               v == e.gates[a.gate]
               before == walk[k-i+1].qal
    <2>1. i - 1 \in 0..k /\ k - (i - 1) = k - i + 1
      BY <1>1
    <2>2. Extends(at[i-1], before)
      BY <1>3, <2>1
    <2>3. Replays(e, a, before, walk[k-i].qal)
      BY <1>1
    <2>4. a.gate \in 1..Len(e.gates)
      <3>1. a \in Entries(e) /\ a.gate # GeneratedSwap
        BY <1>1, <1>4
      <3>2. Len(e.gates) \in Nat
        BY DEF IsEnvironment
      <3> HIDE DEF a
      <3> QED BY <3>1, <3>2 DEF Entries, GeneratedSwap
    <2>5. Unmapped \notin Physical
      BY NodeAssumption DEF Physical, Unmapped
    <2>6. /\ v.target # Unmapped
          /\ IsTwoQubit(v) => v.control # Unmapped
      BY <2>4, <2>5, GateFields
    <2>7. a.gate # GeneratedSwap
      BY <1>4
    <2> HIDE DEF a, before
    <2>8. /\ a.physicalTarget \in Physical /\ before[a.physicalTarget] = v.target
          /\ IsTwoQubit(v) => /\ a.physicalControl \in Physical
                              /\ before[a.physicalControl] = v.control
      BY <2>3, <2>7 DEF Replays
    <2> HIDE DEF v
    <2>9. /\ a.physicalTarget # Unmapped
          /\ at[i-1][a.physicalTarget] = v.target
          /\ IsTwoQubit(v) => at[i-1][a.physicalControl] = v.control
      BY <2>2, <2>5, <2>6, <2>8 DEF Extends
    <2> QED BY <2>9 DEF v, a
  <1>5. ASSUME NEW q \in Physical, n.laq[q] # Unmapped
        PROVE  at[k][n.laq[q]] = q
    <2>1. k \in 0..k /\ k - k = 0
      BY <1>1
    <2>2. Extends(at[k], n.qal)
      BY <1>1, <1>3, <2>1 DEF Start
    <2>3. n.laq[q] \in Physical /\ n.qal[n.laq[q]] = q
      BY <1>5 DEF IsLayout, Nodes, Place
    <2>4. q # Unmapped
      BY NodeAssumption DEF Physical, Unmapped
    <2> QED BY <2>2, <2>3, <2>4 DEF Extends
  <1>6. DOMAIN s = 1..k
    BY <1>1
  <1>7. at = LayoutAfter(r.scheduledGates, r.inferredQal)
    BY <1>2 DEF at
  <1>8. IsFaithful(e.gates, r)
    BY <1>1, <1>2, <1>4, <1>5, <1>6, <1>7 DEF IsFaithful
  <1> QED BY <1>8 DEF r

(* At the end all gates are scheduled.                                     *)
LEMMA AllScheduled ==
    ASSUME NEW e, IsEnvironment(e), NEW n, Progress(e, n, <<>>), n.readyGates = {}
    PROVE  \A g \in 1..Len(e.gates) : \E i \in DOMAIN n.scheduled :
               n.scheduled[i].gate = g
  <1> DEFINE N == 1..Len(e.gates)
             D == DoneOf(n)
  <1>1. \A c \in N : c \in FrontierOf(e.gates, D)
            <=> c \in n.readyGates \/ \E i \in DOMAIN <<>> : <<>>[i] = c
    BY DEF Progress
  <1>2. DOMAIN <<>> = {} /\ n.readyGates = {}
    OBVIOUS
  <1>3. FrontierOf(e.gates, D) \subseteq N
    BY DEF FrontierOf
  <1>4. FrontierOf(e.gates, D) = {}
    BY <1>1, <1>2, <1>3
  <1>5. IsEnvironment(e)
    OBVIOUS
  <1>6. N \ D = {}
    BY <1>4, <1>5, FrontierNotEmpty
  <1> QED BY <1>6 DEF DoneOf

(* The inferred layout has a place for all of them.                        *)
LEMMA CompleteResult ==
    ASSUME NEW e, IsEnvironment(e), NEW n \in Nodes,
           NEW walk, Walks(e, n, walk), Known(e, n, walk),
           \A g \in 1..Len(e.gates) : \E i \in DOMAIN n.scheduled :
               n.scheduled[i].gate = g
    PROVE  IsComplete(e.gates, ResultOfWalk(n, walk))
  <1> DEFINE k == Len(n.scheduled)
             w == walk[k]
             r == ResultOfWalk(n, walk)
  <1>1. /\ w \in WalkStates(e, k)
        /\ \A x \in 1..k : n.scheduled[x].gate # GeneratedSwap =>
              \A q \in QubitsOf(e.gates[n.scheduled[x].gate]) :
                  /\ w.laq[q] # Unmapped
                  /\ IsTwoQubit(e.gates[n.scheduled[x].gate]) => n.laq[q] # Unmapped
    BY DEF Known
  <1>2. r.inferredQal = w.qal /\ r.inferredLaq = w.laq /\ r.laq = n.laq
    BY DEF ResultOfWalk
  <1>3. DOMAIN e.gates = 1..Len(e.gates)
    BY DEF IsEnvironment
  <1>4. DOMAIN n.scheduled = 1..k
    BY DEF Nodes
  <1> HIDE DEF w, r, k
  <1>5. IsLayout(r.inferredQal, r.inferredLaq)
    BY <1>1, <1>2 DEF WalkStates
  <1>6. ASSUME NEW g \in 1..Len(e.gates), NEW q \in QubitsOf(e.gates[g])
        PROVE  /\ r.inferredLaq[q] # Unmapped
               /\ IsTwoQubit(e.gates[g]) => r.laq[q] # Unmapped
    <2>1. PICK i \in 1..k : n.scheduled[i].gate = g
      BY <1>4
    <2>2. g # GeneratedSwap
      BY DEF GeneratedSwap, IsEnvironment
    <2> QED BY <1>1, <1>2, <1>6, <2>1, <2>2
  <1>7. IsComplete(e.gates, r)
    BY <1>3, <1>5, <1>6 DEF IsComplete
  <1> QED BY <1>7 DEF r

(* The result has the gates of the schedule in the same order.             *)
LEMMA OrderedResult ==
    ASSUME NEW e, IsEnvironment(e), NEW n \in Nodes, KeepsOrder(e, n.scheduled),
           NEW walk, Walks(e, n, walk), Known(e, n, walk),
           \A g \in 1..Len(e.gates) : \E i \in DOMAIN n.scheduled :
               n.scheduled[i].gate = g
    PROVE  IsInOrder(e.gates, ResultOfWalk(n, walk))
  <1> DEFINE k == Len(n.scheduled)
             s == walk[k].scheduled
             r == ResultOfWalk(n, walk)
             at(g) == {i \in DOMAIN s : s[i].gate = g}
  <1>1. /\ k \in Nat /\ s \in [1..k -> Entries(e)]
        /\ \A x \in 1..k : s[x].gate = n.scheduled[x].gate
    BY DEF Known, SameEntry
  <1>2. r.scheduledGates = s
    BY DEF ResultOfWalk
  <1>3. DOMAIN e.gates = 1..Len(e.gates) /\ Len(e.gates) \in Nat
    BY DEF IsEnvironment
  <1>4. DOMAIN n.scheduled = 1..k /\ DOMAIN s = 1..k
    BY <1>1 DEF Nodes
  <1> HIDE DEF s, r, k
  <1>5. \A g \in 1..Len(e.gates) : g # GeneratedSwap
    BY <1>3 DEF GeneratedSwap
  <1>6. ASSUME NEW g \in 1..Len(e.gates)
        PROVE  \E i : at(g) = {i}
    <2>1. PICK i \in 1..k : n.scheduled[i].gate = g
      BY <1>4
    <2>2. \A j \in 1..k : n.scheduled[j].gate = g => j = i
      BY <1>4, <1>5, <2>1 DEF KeepsOrder
    <2>3. at(g) = {i}
      BY <1>1, <1>4, <2>1, <2>2
    <2> QED BY <2>3
  <1>7. \A g \in 1..Len(e.gates) : Cardinality(at(g)) = 1
    <2> HIDE DEF at
    <2> QED BY <1>6, FS_Singleton
  <1>8. ASSUME NEW g \in 1..Len(e.gates), NEW h \in 1..Len(e.gates), g < h,
               QubitsOf(e.gates[g]) \cap QubitsOf(e.gates[h]) # {},
               NEW i \in at(g), NEW j \in at(h)
        PROVE  i < j
    <2>1. /\ i \in 1..k /\ j \in 1..k
          /\ n.scheduled[i].gate = g /\ n.scheduled[j].gate = h
      BY <1>1, <1>4
    <2>2. g \in 1..h-1
      BY <1>8
    <2>3. j \in DOMAIN n.scheduled
      BY <1>4, <2>1
    <2>4. n.scheduled[j].gate # GeneratedSwap =>
             \A c \in 1..n.scheduled[j].gate-1 :
                QubitsOf(e.gates[c]) \cap QubitsOf(e.gates[n.scheduled[j].gate]) # {} =>
                   \E x \in DOMAIN n.scheduled : x < j /\ n.scheduled[x].gate = c
      BY <2>3, Zenon DEF KeepsOrder
    <2>5. \E x \in 1..k : x < j /\ n.scheduled[x].gate = g
      BY <1>4, <1>5, <1>8, <2>1, <2>2, <2>4, Zenon
    <2>6. PICK x \in 1..k : x < j /\ n.scheduled[x].gate = g
      BY <2>5
    <2>7. x = i
      BY <1>4, <1>5, <2>1, <2>6 DEF KeepsOrder
    <2> QED BY <2>6, <2>7
  <1>9. IsInOrder(e.gates, r)
    BY <1>2, <1>3, <1>7, <1>8 DEF IsInOrder
  <1> QED BY <1>9 DEF r

=============================================================================
