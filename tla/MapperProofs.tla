---------------------------- MODULE MapperProofs ----------------------------
(***************************************************************************)
(* What every search finds, whatever its expander, cost function, queue,   *)
(* filters and layout module: sound nodes, and in the end a correct        *)
(* result; and what its filters remember. What an expander makes of a      *)
(* node is the subject of module ExpanderProofs.                           *)
(***************************************************************************)
EXTENDS Mapper, ExpanderProofs

-----------------------------------------------------------------------------
(* Prices.                                                                 *)

(* What a layout module does to a node before the node's cost is computed. *)
IsModified(e, fixed, n, m) == IsPlacedFrom(e, fixed, n, m) /\ m.root = n.root

(* A node in another cycle, as long as nothing has been scheduled or the   *)
(* cycle is the same.                                                      *)
IsInCycle(e, fixed, n, z, m) ==
    /\ Sound(e, m, <<>>)
    /\ m.cycle = z /\ m.root = n.root /\ m.scheduled = n.scheduled
    /\ m.readyGates = n.readyGates
    /\ Lawful(e, fixed, n) => Lawful(e, fixed, m)

(* A sound node stays so when only its cycle is changed like this.         *)
LEMMA CycleSound ==
    ASSUME NEW e, NEW fixed, IsEnvironment(e), NEW n, Sound(e, n, <<>>),
           NEW z \in Int, z < 0 => n.scheduled = <<>>,
           z = n.cycle \/ n.scheduled = <<>>,
           NEW m, m = [n EXCEPT !.cycle = z]
    PROVE  IsInCycle(e, fixed, n, z, m)
  <1>1. n \in Nodes /\ IsLayout(n.qal, n.laq) /\ IsOfCircuit(e, n.qal)
    BY SoundIsNode DEF Sound
  <1>2. /\ m \in Nodes /\ m.cycle = z /\ m.root = n.root
        /\ m.scheduled = n.scheduled /\ m.readyGates = n.readyGates
        /\ m.numUnscheduledGates = n.numUnscheduledGates
        /\ m.lastNonSwapGate = n.lastNonSwapGate
        /\ m.lastNonZeroLatencyGate = n.lastNonZeroLatencyGate
        /\ m.qal = n.qal /\ m.laq = n.laq
    BY <1>1 DEF Nodes
  <1>3. Sound(e, m, <<>>)
    BY <1>1, <1>2, SoundDependsOn
  <1>4. ASSUME Lawful(e, fixed, n) PROVE Lawful(e, fixed, m)
    <2>1. CASE z = n.cycle
      BY <1>1, <1>2, <1>4, <2>1, LawfulDependsOn
    <2>2. CASE n.scheduled = <<>>
      <3>1. fixed => HoldsAll(e, m.qal)
        <4>1. fixed => AllPlaced(e, n)
          BY <1>4, Zenon DEF Lawful
        <4> QED BY <4>1, <1>2, Zenon DEF AllPlaced
      <3> QED BY <1>1, <1>2, <2>2, <3>1, EmptyLawful
    <2> QED BY <2>1, <2>2
  <1> QED BY <1>2, <1>3, <1>4 DEF IsInCycle

(* GreedyMapper, if there is one, modifies a node in this way.             *)
LEMMA ModifiedSound ==
    ASSUME IsEnvironment(env), HasNoSwapGates(env), NEW fixed,
           fixed => ~config.greedyMapper, NEW n, Sound(env, n, <<>>)
    PROVE  IsModified(env, fixed, n, Modified(n))
  <1> DEFINE e == env
             m == MapGreedily(n, e.gates, e.numLogical)
  <1>1. IsEnvironment(e) /\ HasNoSwapGates(e) /\ Sound(e, n, <<>>)
    OBVIOUS
  <1>2. CASE config.greedyMapper
    <2>1. Modified(n) = m
      BY <1>2, Zenon DEF Modified
    <2>2. ~fixed
      BY <1>2
    <2>3. m = MapGreedily(n, e.gates, e.numLogical)
      OBVIOUS
    <2> HIDE DEF m, e
    <2>4. IsPlacedFrom(e, fixed, n, m)
      BY <1>1, <2>2, <2>3, MapGreedilySound
    <2>5. m.root = n.root
      BY <1>1, <2>2, <2>3, <2>4, MapGreedilySound
    <2>6. IsModified(e, fixed, n, m)
      BY <2>4, <2>5 DEF IsModified
    <2> QED BY <2>1, <2>6 DEF e
  <1>3. CASE ~config.greedyMapper
    <2>1. Modified(n) = n
      BY <1>3, Zenon DEF Modified
    <2> QED BY <2>1 DEF IsModified, IsPlacedFrom
  <1> QED BY <1>2, <1>3

(* The node of a price.                                                    *)
LEMMA PriceIs ==
    ASSUME NEW n
    PROVE  Price(n).node = Modified(n)
  BY DEF Price, PriceOf

(* The cycle in which a child is priced.                                   *)
LEMMA LaterCycle ==
    ASSUME NEW z \in Int
    PROVE  Max({z, 0}) \in {z, 0} /\ Max({z, 0}) >= 0 /\ (z >= 0 => Max({z, 0}) = z)
  <1> DEFINE S == {z, 0}
  <1>1. \E x \in S : \A y \in S : x >= y
    <2>1. CASE z >= 0
      BY <2>1
    <2>2. CASE z < 0
      BY <2>2
    <2> QED BY <2>1, <2>2
  <1>2. Max(S) \in S /\ \A y \in S : Max(S) >= y
    BY <1>1 DEF Max
  <1> QED BY <1>2

(* DefaultExpander computes the cost in cycle 0 and goes back to the       *)
(* node's own cycle.                                                       *)
LEMMA PriceInCycleSound ==
    ASSUME IsEnvironment(env), HasNoSwapGates(env), NEW fixed,
           fixed => ~config.greedyMapper, NEW n, Sound(env, n, <<>>)
    PROVE  IsModified(env, fixed, n, PriceInCycle(n).node)
  <1> DEFINE e == env
             c == n.cycle
             z == Max({c, 0})
             m == [n EXCEPT !.cycle = z]
             k == Modified(m)
             o == [k EXCEPT !.cycle = c]
  <1>1. IsEnvironment(e) /\ HasNoSwapGates(e) /\ Sound(e, n, <<>>)
    OBVIOUS
  <1>2. PriceInCycle(n).node = o
    <2> DEFINE p == Price(m)
    <2>1. PriceInCycle(n) = [p EXCEPT !.node.cycle = c]
      BY DEF PriceInCycle
    <2>2. p.node = k /\ "node" \in DOMAIN p
      BY DEF Price, PriceOf
    <2> HIDE DEF p, k, m, c
    <2>3. [p EXCEPT !.node.cycle = c].node = [p.node EXCEPT !.cycle = c]
      BY <2>2
    <2> QED BY <2>1, <2>2, <2>3
  <1>3. c \in Int /\ (c < 0 => n.scheduled = <<>>)
    <2>1. n \in Nodes
      BY SoundIsNode
    <2> QED BY <2>1 DEF Sound, Nodes
  <1>4. z \in {c, 0} /\ z >= 0 /\ (c >= 0 => z = c)
    BY <1>3, LaterCycle
  <1>5. m = [n EXCEPT !.cycle = z]
    OBVIOUS
  <1> HIDE DEF z, c, m
  <1>6. IsInCycle(e, fixed, n, z, m)
    <2>1. z \in Int /\ (z < 0 => n.scheduled = <<>>) /\ (z = n.cycle \/ n.scheduled = <<>>)
      BY <1>3, <1>4 DEF c
    <2> QED BY <1>1, <1>5, <2>1, CycleSound
  <1>7. IsModified(e, fixed, m, k)
    <2>1. Sound(e, m, <<>>)
      BY <1>6 DEF IsInCycle
    <2> QED BY <2>1, ModifiedSound
  <1>8. o = [k EXCEPT !.cycle = c]
    OBVIOUS
  <1> HIDE DEF k, o, e
  <1>9. /\ Sound(e, k, <<>>) /\ k.cycle = z /\ k.root = n.root
        /\ k.scheduled = n.scheduled /\ k.readyGates = n.readyGates
        /\ Lawful(e, fixed, n) => Lawful(e, fixed, k)
    BY <1>6, <1>7 DEF IsInCycle, IsModified, IsPlacedFrom
  <1>10. IsInCycle(e, fixed, k, c, o)
    <2>1. c \in Int /\ (c < 0 => k.scheduled = <<>>) /\ (c = k.cycle \/ k.scheduled = <<>>)
      BY <1>3, <1>4, <1>9
    <2> QED BY <1>1, <1>8, <1>9, <2>1, CycleSound
  <1>11. IsModified(e, fixed, n, o)
    BY <1>9, <1>10 DEF IsInCycle, IsModified, IsPlacedFrom, c
  <1> QED BY <1>2, <1>11 DEF e

-----------------------------------------------------------------------------
(* The children of a node, with their prices.                              *)

(* With a layout module that keeps nodes sound, the priced children are    *)
(* what the children of the expander were.                                 *)
LEMMA PricedChildren ==
    ASSUME NEW e, NEW fixed, NEW n, NEW x, AreChildrenOf(e, fixed, n, x),
           NEW y, y.legal = x.legal,
           NEW p, y.children = [i \in DOMAIN x.children |-> p[i]],
           \A i \in DOMAIN x.children : Sound(e, x.children[i], <<>>)
               => IsModified(e, fixed, x.children[i], p[i].node)
    PROVE  AreOffspring(e, fixed, n, y)
  <1>1. PICK S : /\ x.children \in Seq(S)
                 /\ \A m \in S : /\ IsChildOf(e, n, m)
                                 /\ x.legal /\ Lawful(e, fixed, n) => Lawful(e, fixed, m)
    BY DEF AreChildrenOf
  <1> DEFINE N == Len(x.children)
             T == {p[i] : i \in 1..N}
  <1>2. N \in Nat /\ DOMAIN x.children = 1..N /\ \A i \in 1..N : x.children[i] \in S
    BY <1>1
  <1>3. y.children \in Seq(T)
    <2>1. y.children = [i \in 1..N |-> p[i]]
      BY <1>2
    <2>2. y.children \in [1..N -> T]
      BY <2>1
    <2> HIDE DEF N, T
    <2> QED BY <1>2, <2>2
  <1>4. ASSUME NEW c \in T
        PROVE  /\ IsChildOf(e, n, c.node)
               /\ y.legal /\ Lawful(e, fixed, n) => Lawful(e, fixed, c.node)
    <2>1. PICK i \in 1..N : c = p[i]
      OBVIOUS
    <2> DEFINE m == x.children[i]
    <2>2. /\ IsChildOf(e, n, m)
          /\ x.legal /\ Lawful(e, fixed, n) => Lawful(e, fixed, m)
      BY <1>1, <1>2
    <2>3. Sound(e, m, <<>>) /\ m.root = FALSE
      BY <2>2, Zenon DEF IsChildOf
    <2>4. IsModified(e, fixed, m, c.node)
      BY <1>2, <2>1, <2>3
    <2> HIDE DEF m
    <2>5. /\ Sound(e, c.node, <<>>) /\ c.node.root = FALSE
          /\ Lawful(e, fixed, m) => Lawful(e, fixed, c.node)
      BY <2>3, <2>4, Zenon DEF IsModified, IsPlacedFrom
    <2> QED BY <2>2, <2>5, Zenon DEF IsChildOf
  <1> HIDE DEF T
  <1> QED BY <1>3, <1>4 DEF AreOffspring

(* GreedyTopK keeps the best of them.                                      *)
LEMMA BestChildren ==
    ASSUME NEW e, NEW fixed, NEW n, NEW y, AreOffspring(e, fixed, n, y),
           NEW k, NEW z, z.legal = y.legal, z.children = KBest(y.children, k)
    PROVE  AreOffspring(e, fixed, n, z)
  <1>1. PICK S : /\ y.children \in Seq(S)
                 /\ \A c \in S : /\ IsChildOf(e, n, c.node)
                                 /\ y.legal /\ Lawful(e, fixed, n) => Lawful(e, fixed, c.node)
    BY DEF AreOffspring
  <1>2. z.children \in Seq(S)
    BY <1>1, KBestType
  <1>3. \A c \in S : /\ IsChildOf(e, n, c.node)
                     /\ z.legal /\ Lawful(e, fixed, n) => Lawful(e, fixed, c.node)
    BY <1>1
  <1> QED BY <1>2, <1>3 DEF AreOffspring

(* Expansions are records with children and a flag.                        *)
IsExpansion(x) == x = Expansion(x.children, x.legal)

(* What DefaultExpander and GreedyTopK return is such a record.            *)
LEMMA ExpansionsAre ==
    ASSUME NEW n, NEW gs, NEW size
    PROVE  IsExpansion(ExpandAll(n, gs, size)) /\ IsExpansion(ExpandGreedily(n, gs))
  <1>1. ASSUME NEW attempts
        PROVE  IsExpansion(Succeeded(attempts))
    BY DEF IsExpansion, Succeeded, Expansion
  <1> DEFINE x == Succeeded(Attempts(n, gs, size))
             b == IsInBounds(n, gs)
  <1>2. ExpandAll(n, gs, size) = [x EXCEPT !.legal = @ /\ b]
    BY DEF ExpandAll
  <1>3. x = Expansion(x.children, x.legal)
    BY <1>1, Zenon DEF IsExpansion
  <1> DEFINE l == x.legal /\ b
  <1>4. [x EXCEPT !.legal = @ /\ b] = [x EXCEPT !.legal = l]
    OBVIOUS
  <1> HIDE DEF x, b, l
  <1>5. [x EXCEPT !.legal = l] = Expansion(x.children, l)
    BY <1>3 DEF Expansion
  <1>6. IsExpansion(Expansion(x.children, l))
    BY DEF IsExpansion, Expansion
  <1>7. IsExpansion(ExpandAll(n, gs, size))
    BY <1>2, <1>4, <1>5, <1>6, Zenon
  <1> QED BY <1>1, <1>7 DEF ExpandGreedily

(* The children of an expansion are replaced.                              *)
LEMMA OtherChildren ==
    ASSUME NEW x, IsExpansion(x), NEW c
    PROVE  /\ [x EXCEPT !.children = c].children = c
           /\ [x EXCEPT !.children = c].legal = x.legal
  <1> DEFINE a == x.children
             b == x.legal
  <1>1. x = Expansion(a, b)
    BY DEF IsExpansion
  <1> HIDE DEF a, b
  <1>2. /\ [Expansion(a, b) EXCEPT !.children = c].children = c
        /\ [Expansion(a, b) EXCEPT !.children = c].legal = b
    BY DEF Expansion
  <1>3. Expansion(a, b).legal = b
    BY DEF Expansion
  <1> QED BY <1>1, <1>2, <1>3

-----------------------------------------------------------------------------
(* The nodes of the search.                                                *)

(* A root has nothing scheduled, and NoSwaps clears all of its layout.     *)
RootOk(e, c, n) ==
    n.root => /\ n.scheduled = <<>>
              /\ c.expander = "NoSwaps" => IsUnmappedBeyond(e, n)

GoodNode(e, c, lawful, n) ==
    /\ Sound(e, n, <<>>)
    /\ RootOk(e, c, n)
    /\ lawful => Lawful(e, StartsFixed(c), n)

(* Whatever the configuration, an expander makes sound children of a sound *)
(* node.                                                                   *)
LEMMA ExpandSound ==
    ASSUME IsEnvironment(env), HasNoSwapGates(env),
           config.expander \in {"DefaultExpander", "GreedyTopK", "NoSwaps"},
           NEW fixed, fixed => StartsFixed(config),
           NEW x, Sound(env, x.node, <<>>), RootOk(env, config, x.node), NEW size
    PROVE  AreOffspring(env, fixed, x.node, Expand(x, size))
  <1> DEFINE n == x.node
             all == ExpandAll(n, env.gates, size)
             greedy == ExpandGreedily(n, env.gates)
             none == ExpandWithoutSwaps(n, Cost(x), env.gates, env.numLogical)
  <1>1. IsExpansion(all) /\ IsExpansion(greedy)
    BY ExpansionsAre
  <1>2. fixed => ~config.greedyMapper
    BY DEF StartsFixed
  <1>3. CASE config.expander = "DefaultExpander"
    <2> DEFINE p == Mapped(all.children, PriceInCycle)
               y == [all EXCEPT !.children = p]
    <2>1. Expand(x, size) = y
      BY <1>3 DEF Expand
    <2>2. AreChildrenOf(env, fixed, n, all)
      BY ExpandAllSound
    <2>3. y.legal = all.legal /\ y.children = p
      BY <1>1, OtherChildren
    <2>4. p = [i \in DOMAIN all.children |-> p[i]]
      BY DEF Mapped
    <2>5. ASSUME NEW i \in DOMAIN all.children, Sound(env, all.children[i], <<>>)
          PROVE  IsModified(env, fixed, all.children[i], p[i].node)
      <3>1. p[i] = PriceInCycle(all.children[i])
        BY DEF Mapped
      <3> QED BY <1>2, <2>5, <3>1, PriceInCycleSound
    <2> HIDE DEF p, y, all, n
    <2>6. y.children = [i \in DOMAIN all.children |-> p[i]]
      BY <2>3, <2>4
    <2>7. AreOffspring(env, fixed, n, y)
      BY <2>2, <2>3, <2>5, <2>6, PricedChildren
    <2> QED BY <2>1, <2>7 DEF n
  <1>4. CASE config.expander = "GreedyTopK"
    <2> DEFINE p == Mapped(greedy.children, Price)
               y == [greedy EXCEPT !.children = p]
               z == [greedy EXCEPT !.children = KBest(p, config.k)]
    <2>1. Expand(x, size) = z
      BY <1>4 DEF Expand
    <2>2. AreChildrenOf(env, fixed, n, greedy)
      BY ExpandGreedilySound
    <2>3. /\ y.legal = greedy.legal /\ y.children = p
          /\ z.legal = greedy.legal /\ z.children = KBest(p, config.k)
      BY <1>1, OtherChildren
    <2>4. p = [i \in DOMAIN greedy.children |-> p[i]]
      BY DEF Mapped
    <2>5. ASSUME NEW i \in DOMAIN greedy.children, Sound(env, greedy.children[i], <<>>)
          PROVE  IsModified(env, fixed, greedy.children[i], p[i].node)
      <3>1. p[i] = Price(greedy.children[i])
        BY DEF Mapped
      <3> QED BY <1>2, <2>5, <3>1, ModifiedSound, PriceIs
    <2> HIDE DEF p, y, z, greedy, n
    <2>6. y.children = [i \in DOMAIN greedy.children |-> p[i]]
      BY <2>3, <2>4
    <2>7. AreOffspring(env, fixed, n, y)
      BY <2>2, <2>3, <2>5, <2>6, PricedChildren
    <2>8. z.legal = y.legal /\ z.children = KBest(y.children, config.k)
      BY <2>3
    <2>9. AreOffspring(env, fixed, n, z)
      BY <2>7, <2>8, BestChildren
    <2> QED BY <2>1, <2>9 DEF n
  <1>5. CASE config.expander = "NoSwaps"
    <2>1. Expand(x, size) = none
      BY <1>5 DEF Expand
    <2>2. ~fixed /\ (n.root => n.scheduled = <<>> /\ IsUnmappedBeyond(env, n))
      BY <1>5 DEF StartsFixed, RootOk
    <2>3. none = ExpandWithoutSwaps(n, Cost(x), env.gates, env.numLogical)
      OBVIOUS
    <2>4. Sound(env, n, <<>>)
      OBVIOUS
    <2> HIDE DEF none, n
    <2>5. AreOffspring(env, fixed, n, none)
      BY <2>2, <2>3, <2>4, ExpandWithoutSwapsSound
    <2> QED BY <2>1, <2>5 DEF n
  <1> QED BY <1>3, <1>4, <1>5

-----------------------------------------------------------------------------
(* The queue.                                                              *)

AreGood(e, c, lawful, q) ==
    \E S : q \in Seq(S) /\ \A x \in S : GoodNode(e, c, lawful, x.node)

(* Less is asked of nodes after an assertion has failed.                   *)
LEMMA LessIsAsked ==
    ASSUME NEW e, NEW c, NEW more, NEW less, less => more
    PROVE  /\ \A n : GoodNode(e, c, more, n) => GoodNode(e, c, less, n)
           /\ \A q : AreGood(e, c, more, q) => AreGood(e, c, less, q)
  <1>1. \A n : GoodNode(e, c, more, n) => GoodNode(e, c, less, n)
    BY Zenon DEF GoodNode
  <1> QED BY <1>1, Zenon DEF AreGood

(* The nodes of a queue, and of what is left of it without one of them.    *)
LEMMA QueueEntry ==
    ASSUME NEW e, NEW c, NEW l, NEW q, AreGood(e, c, l, q), NEW i \in DOMAIN q
    PROVE  GoodNode(e, c, l, q[i].node) /\ AreGood(e, c, l, RemoveAt(q, i))
  <1>1. PICK S : q \in Seq(S) /\ \A x \in S : GoodNode(e, c, l, x.node)
    BY DEF AreGood
  <1>2. Len(q) \in Nat /\ i \in 1..Len(q) /\ q[i] \in S
    BY <1>1
  <1> DEFINE before == SubSeq(q, 1, i-1)
             after == SubSeq(q, i+1, Len(q))
  <1>3. before \in Seq(S)
    <2>1. i-1 \in 0..Len(q)
      BY <1>2
    <2> QED BY <1>1, <2>1, SubSeqProperties
  <1>4. after \in Seq(S)
    <2>1. i+1 \in 1..Len(q)+1
      BY <1>2
    <2> QED BY <1>1, <1>2, <2>1, SubSeqProperties
  <1>5. RemoveAt(q, i) = before \o after
    BY DEF RemoveAt
  <1> HIDE DEF before, after
  <1>6. RemoveAt(q, i) \in Seq(S)
    BY <1>3, <1>4, <1>5
  <1> QED BY <1>1, <1>2, <1>6 DEF AreGood

(* The state that push changes, with a queue of good nodes.                *)
StoreOk(e, c, s) ==
    /\ s = Store(s.queue, s.records, s.dead, s.pushed, s.holds)
    /\ AreGood(e, c, s.holds, s.queue)

(* Such a state, built from its parts.                                     *)
LEMMA StoreIsOk ==
    ASSUME NEW e, NEW c, NEW q, NEW r, NEW d, NEW p, NEW h, AreGood(e, c, h, q)
    PROVE  StoreOk(e, c, Store(q, r, d, p, h)) /\ Store(q, r, d, p, h).holds = h
  <1> DEFINE s == Store(q, r, d, p, h)
  <1>1. s.queue = q /\ s.records = r /\ s.dead = d /\ s.pushed = p /\ s.holds = h
    BY DEF Store
  <1>2. s = Store(q, r, d, p, h)
    OBVIOUS
  <1> HIDE DEF s
  <1>3. StoreOk(e, c, s)
    BY <1>1, <1>2 DEF StoreOk
  <1> QED BY <1>1, <1>3 DEF s

(* TrimSlowNodes keeps some of the nodes.                                  *)
LEMMA TrimKeeps ==
    ASSUME NEW e, NEW c, NEW s, StoreOk(e, c, s)
    PROVE  StoreOk(e, c, Trim(s)) /\ Trim(s).holds = s.holds
  <1> DEFINE D == DOMAIN s.queue
             order == Listed(D, {p \in D \X D : MoreProgress(s.queue[p[1]], s.queue[p[2]])})
             slow == SubSeq(order, config.targetSize + 1, Len(order))
             at == D \ Range(slow)
             q == Picked(s.queue, at)
             r == DeleteRecords(s.records, [i \in DOMAIN slow |-> s.queue[slow[i]]])
  <1>1. Trim(s) = IF config.maxSize = 0 \/ Len(s.queue) <= config.maxSize THEN s
                  ELSE [s EXCEPT !.queue = q, !.records = r]
    BY Zenon DEF Trim, Mapped
  <1>2. AreGood(e, c, s.holds, q)
    <2>1. PICK S : s.queue \in Seq(S) /\ \A x \in S : GoodNode(e, c, s.holds, x.node)
      BY DEF StoreOk, AreGood
    <2>2. at \in SUBSET DOMAIN s.queue
      OBVIOUS
    <2> HIDE DEF at
    <2>3. q \in Seq(S)
      BY <2>1, <2>2, PickedIs
    <2> QED BY <2>1, <2>3 DEF AreGood
  <1> HIDE DEF q, r
  <1>3. [s EXCEPT !.queue = q, !.records = r] = Store(q, r, s.dead, s.pushed, s.holds)
    <2> DEFINE a == s.queue
               b == s.records
               d == s.dead
               p == s.pushed
               h == s.holds
    <2>1. s = Store(a, b, d, p, h)
      BY DEF StoreOk
    <2> HIDE DEF a, b, d, p, h
    <2>2. [s EXCEPT !.queue = q] = Store(q, b, d, p, h)
      BY <2>1 DEF Store
    <2>3. [Store(q, b, d, p, h) EXCEPT !.records = r] = Store(q, r, d, p, h)
      BY DEF Store
    <2>4. [s EXCEPT !.queue = q, !.records = r] = [[s EXCEPT !.queue = q] EXCEPT !.records = r]
      BY <2>1 DEF Store
    <2>5. [s EXCEPT !.queue = q, !.records = r] = Store(q, r, d, p, h)
      BY <2>2, <2>3, <2>4
    <2> QED BY <2>5 DEF d, p, h
  <1>4. /\ StoreOk(e, c, Store(q, r, s.dead, s.pushed, s.holds))
        /\ Store(q, r, s.dead, s.pushed, s.holds).holds = s.holds
    BY <1>2, StoreIsOk
  <1>5. CASE config.maxSize = 0 \/ Len(s.queue) <= config.maxSize
    BY <1>1, <1>5
  <1>6. CASE ~(config.maxSize = 0 \/ Len(s.queue) <= config.maxSize)
    <2>1. Trim(s) = Store(q, r, s.dead, s.pushed, s.holds)
      BY <1>1, <1>3, <1>6
    <2> QED BY <1>4, <2>1
  <1> QED BY <1>5, <1>6

(* A child is pushed, or dropped by the filters.                           *)
LEMMA PushKeeps ==
    ASSUME NEW e, NEW c, NEW s, StoreOk(e, c, s),
           NEW new, GoodNode(e, c, s.holds, new.node)
    PROVE  StoreOk(e, c, Push(s, new)) /\ (Push(s, new).holds => s.holds)
  <1> DEFINE f == FilterEntry(s.records, s.dead, config.filters, new, env.gates)
             h == s.holds /\ f.holds
             q == IF f.drop THEN s.queue ELSE Append(s.queue, new)
             t == Store(q, f.map, f.dead, new.id, h)
  <1>1. Push(s, new) = Trim(t)
    BY DEF Push, PushUnlessDropped
  <1>2. h => s.holds
    OBVIOUS
  <1> HIDE DEF f, h
  <1>3. AreGood(e, c, h, q)
    <2>1. PICK S : s.queue \in Seq(S) /\ \A x \in S : GoodNode(e, c, s.holds, x.node)
      BY DEF StoreOk, AreGood
    <2> DEFINE T == S \cup {new}
    <2>2. s.queue \in Seq(T)
      <3>1. DOMAIN s.queue = 1..Len(s.queue) /\ Len(s.queue) \in Nat
        BY <2>1
      <3>2. \A i \in DOMAIN s.queue : s.queue[i] \in T
        BY <2>1
      <3>3. s.queue = [i \in 1..Len(s.queue) |-> s.queue[i]]
        BY <2>1
      <3> HIDE DEF T
      <3>4. s.queue \in [1..Len(s.queue) -> T]
        BY <3>1, <3>2, <3>3
      <3> QED BY <3>1, <3>4
    <2>3. q \in Seq(T)
      <3>1. new \in T
        OBVIOUS
      <3> HIDE DEF T
      <3>2. Append(s.queue, new) \in Seq(T)
        BY <2>2, <3>1
      <3> QED BY <2>2, <3>2
    <2>4. \A x \in T : GoodNode(e, c, s.holds, x.node)
      BY <2>1
    <2>5. \A n : GoodNode(e, c, s.holds, n) => GoodNode(e, c, h, n)
      BY <1>2, LessIsAsked
    <2> HIDE DEF T, q
    <2> QED BY <2>3, <2>4, <2>5 DEF AreGood
  <1> HIDE DEF q
  <1>4. StoreOk(e, c, t) /\ t.holds = h
    BY <1>3, StoreIsOk
  <1> HIDE DEF t
  <1>5. StoreOk(e, c, Trim(t)) /\ Trim(t).holds = t.holds
    BY <1>4, TrimKeeps
  <1> QED BY <1>1, <1>2, <1>4, <1>5

(* All children are pushed.                                                *)
PushNext(x, children, t, i) == Push(t, NewEntry(x, children[i], t.pushed + 1))
ArePushes(s, x, children, k, f) ==
    f = [i \in 0..k |-> IF i = 0 THEN s ELSE PushNext(x, children, f[i-1], i)]

(* The recursive function of pushes exists.                                *)
LEMMA PushesExist ==
    ASSUME NEW s, NEW x, NEW children, NEW N \in Nat
    PROVE  \E f : ArePushes(s, x, children, N, f)
  <1> DEFINE T == {k \in 0..N : \E f : ArePushes(s, x, children, k, f)}
  <1>1. \A k, f : ArePushes(s, x, children, k, f)
                     <=> f = [i \in 0..k |-> IF i = 0 THEN s ELSE PushNext(x, children, f[i-1], i)]
    BY Zenon DEF ArePushes
  <1>2. 0 \in T
    <2> DEFINE f == [i \in 0..0 |-> s]
    <2>1. f = [i \in 0..0 |-> IF i = 0 THEN s ELSE PushNext(x, children, f[i-1], i)]
      OBVIOUS
    <2> HIDE DEF f
    <2>2. ArePushes(s, x, children, 0, f)
      BY <1>1, <2>1
    <2>3. 0 \in 0..N
      OBVIOUS
    <2> QED BY <2>2, <2>3
  <1>3. ASSUME NEW k \in 0..N-1, k \in T PROVE k + 1 \in T
    <2>1. PICK f : f = [i \in 0..k |-> IF i = 0 THEN s ELSE PushNext(x, children, f[i-1], i)]
      BY <1>1, <1>3
    <2> DEFINE h == [i \in 0..k+1 |-> IF i = k + 1 THEN PushNext(x, children, f[k], k + 1)
                                      ELSE f[i]]
    <2>2. ASSUME NEW i \in 0..k+1
          PROVE  h[i] = IF i = 0 THEN s ELSE PushNext(x, children, h[i-1], i)
      <3>1. CASE i = k + 1
        <4>1. h[i] = PushNext(x, children, f[k], i) /\ i # 0 /\ i - 1 = k
              /\ k \in 0..k+1 /\ k # k + 1
          BY <3>1
        <4>2. h[i-1] = f[k]
          BY <4>1
        <4> HIDE DEF h
        <4> QED BY <4>1, <4>2
      <3>2. CASE i # k + 1 /\ i # 0
        <4>1. i \in 0..k /\ i - 1 \in 0..k+1 /\ i - 1 # k + 1
          BY <3>2
        <4>2. h[i] = f[i] /\ h[i-1] = f[i-1]
          BY <3>2, <4>1
        <4>3. f[i] = PushNext(x, children, f[i-1], i)
          BY <2>1, <3>2, <4>1
        <4> HIDE DEF h
        <4> QED BY <3>2, <4>2, <4>3
      <3>3. CASE i = 0
        <4>1. h[i] = f[i] /\ i \in 0..k
          BY <3>3
        <4> HIDE DEF h
        <4> QED BY <2>1, <3>3, <4>1
      <3> QED BY <3>1, <3>2, <3>3
    <2>3. h = [i \in 0..k+1 |-> h[i]]
      OBVIOUS
    <2> HIDE DEF h
    <2>4. h = [i \in 0..k+1 |-> IF i = 0 THEN s ELSE PushNext(x, children, h[i-1], i)]
      BY <2>2, <2>3
    <2>5. k + 1 \in 0..N
      OBVIOUS
    <2> QED BY <1>1, <2>4, <2>5
  <1>4. 0..N \subseteq T
    <2> HIDE DEF T
    <2> QED BY <1>2, <1>3, UpTo
  <1> QED BY <1>4

(* Pushing sound children, one after the other, keeps the queue good.      *)
LEMMA PushAllKeeps ==
    ASSUME NEW e, NEW c, NEW s, StoreOk(e, c, s), NEW x,
           NEW S, NEW children \in Seq(S), \A y \in S : GoodNode(e, c, s.holds, y.node)
    PROVE  /\ StoreOk(e, c, PushAll(s, x, children))
           /\ PushAll(s, x, children).holds => s.holds
  <1> DEFINE N == Len(children)
             f == CHOOSE h : ArePushes(s, x, children, N, h)
             T == {k \in 0..N : StoreOk(e, c, f[k]) /\ (f[k].holds => s.holds)}
  <1>1. N \in Nat /\ DOMAIN children = 1..N
    OBVIOUS
  <1>2. ArePushes(s, x, children, N, f)
    BY <1>1, PushesExist
  <1>3. PushAll(s, x, children) = f[N]
    BY Zenon DEF PushAll, ArePushes, PushNext
  <1> HIDE DEF f, N
  <1>4. f = [i \in 0..N |-> IF i = 0 THEN s ELSE PushNext(x, children, f[i-1], i)]
    BY <1>2 DEF ArePushes
  <1>5. 0 \in T
    <2>1. f[0] = s /\ 0 \in 0..N
      BY <1>1, <1>4
    <2> QED BY <2>1
  <1>6. ASSUME NEW k \in 0..N-1, k \in T PROVE k + 1 \in T
    <2>1. k + 1 \in 1..N /\ k + 1 \in 0..N /\ k + 1 # 0 /\ (k + 1) - 1 = k
      BY <1>1
    <2> DEFINE t == f[k]
               y == children[k+1]
               new == NewEntry(x, y, t.pushed + 1)
    <2>2. f[k+1] = Push(t, new)
      <3>1. f[k+1] = PushNext(x, children, f[(k+1)-1], k + 1)
        BY <1>4, <2>1
      <3> QED BY <2>1, <3>1 DEF PushNext
    <2>3. new.node = y.node
      BY DEF NewEntry
    <2>4. y \in S
      BY <1>1, <2>1
    <2>5. StoreOk(e, c, t) /\ (t.holds => s.holds)
      BY <1>6
    <2> HIDE DEF t, y, new
    <2>6. GoodNode(e, c, s.holds, new.node)
      BY <2>3, <2>4
    <2>7. GoodNode(e, c, t.holds, new.node)
      BY <2>5, <2>6, LessIsAsked
    <2>8. StoreOk(e, c, Push(t, new)) /\ (Push(t, new).holds => t.holds)
      BY <2>5, <2>7, PushKeeps
    <2> QED BY <2>1, <2>2, <2>5, <2>8
  <1>7. N \in T
    <2> HIDE DEF T
    <2>1. 0..N \subseteq T
      BY <1>1, <1>5, <1>6, UpTo
    <2> QED BY <1>1, <2>1
  <1> QED BY <1>3, <1>7

-----------------------------------------------------------------------------
(* The first node.                                                         *)

(* What an environment and a configuration of the search are.              *)
LEMMA SetUpFacts ==
    ASSUME NoCircuitSwaps, NEW e \in Environments, NEW c \in Configurations
    PROVE  /\ IsEnvironment(e) /\ HasNoSwapGates(e)
           /\ \A layout \in InitialLayouts(e.numLogical) :
                 layout \in [Physical -> Place] \cup {NoLayout}
           /\ c.expander \in {"DefaultExpander", "GreedyTopK", "NoSwaps"}
           /\ c.searchCycles \in Int
  <1>1. /\ IsEnvironment(e)
        /\ InitialLayouts(e.numLogical) \subseteq [Physical -> Place] \cup {NoLayout}
    BY SearchAssumption
  <1>2. c \in ConfigurationFields
    BY SearchAssumption
  <1>3. HasNoSwapGates(e)
    BY DEF NoCircuitSwaps, HasNoSwapGates
  <1>4. /\ c.expander \in {"DefaultExpander", "GreedyTopK", "NoSwaps"}
        /\ c.searchCycles \in Int
    BY <1>2 DEF ConfigurationFields
  <1> QED BY <1>1, <1>3, <1>4

(* The number of search cycles.                                            *)
LEMMA SearchCyclesAre ==
    ASSUME NEW c \in Int
    PROVE  NumSearchCycles(c) \in Nat
  <1> DEFINE S == {0} \cup {CouplingDistances[p] : p \in PairsOf(NumPhysical)}
  <1>1. CASE c < 0
    <2>1. NumPhysical \in Nat \ {0}
      BY NodeAssumption
    <2>2. S \in SUBSET (0..NumPhysical-1) /\ S # {}
      <3>1. \A p \in PairsOf(NumPhysical) : CouplingDistances[p] \in 0..NumPhysical-1
        BY DistancesAre
      <3>2. 0 \in 0..NumPhysical-1
        BY <2>1
      <3> QED BY <3>1, <3>2
    <2>3. NumSearchCycles(c) = Max(S)
      BY <1>1 DEF NumSearchCycles
    <2> HIDE DEF S
    <2>4. \E m \in S : \A k \in S : k <= m
      <3>1. NumPhysical - 1 \in Nat
        BY <2>1
      <3> QED BY <2>2, <3>1, Greatest
    <2>5. \E m \in S : \A k \in S : m >= k
      <3>1. PICK m \in S : \A k \in S : k <= m
        BY <2>4
      <3>2. \A k \in S : k \in Int
        BY <2>1, <2>2
      <3>3. \A k \in S : m >= k
        BY <3>1, <3>2
      <3> QED BY <3>3
    <2>6. Max(S) \in S
      BY <2>5 DEF Max
    <2>7. Max(S) \in 0..NumPhysical-1
      BY <2>2, <2>6
    <2>8. \A x \in 0..NumPhysical-1 : x \in Nat
      BY <2>1
    <2> QED BY <2>3, <2>7, <2>8
  <1>2. CASE ~(c < 0)
    BY <1>2 DEF NumSearchCycles
  <1> QED BY <1>1, <1>2

(* A root that starts from a complete layout, or from none, is sound.      *)
LEMMA RootSound ==
    ASSUME NEW e, IsEnvironment(e), NEW k \in Nat,
           NEW layout \in [Physical -> Place] \cup {NoLayout},
           layout = NoLayout \/ IsCompleteLayout(e.numLogical, layout),
           NEW n, n = Root(e, layout, k)
    PROVE  Sound(e, n, <<>>) /\ HoldsAll(e, n.qal)
  <1>1. /\ e.numLogical \in 0..NumPhysical /\ NumPhysical \in Nat
        /\ \A x \in Physical : x \in Nat
    BY NodeAssumption DEF IsEnvironment, Physical
  <1>2. TypedNode(e, n)
    BY RootTyped
  <1>3. /\ n.scheduled = <<>> /\ n.readyGates = e.firstGates
        /\ n.numUnscheduledGates = Len(e.gates)
        /\ n.lastNonSwapGate = [q \in Physical |-> Null]
        /\ n.lastNonZeroLatencyGate = [q \in Physical |-> Null]
    BY DEF Root
  <1>4. Progress(e, n, <<>>)
    BY <1>3, RootProgress
  <1>5. IsLayout(n.qal, n.laq) /\ IsOfCircuit(e, n.qal) /\ HoldsAll(e, n.qal)
    <2>1. CASE layout = NoLayout
      <3>1. n.qal = IdentityLayout(e.numLogical) /\ n.laq = IdentityLayout(e.numLogical)
        BY <2>1 DEF Root
      <3>2. IsLayout(n.qal, n.laq)
        BY <1>1, <3>1, IdentityConsistent
      <3>3. IsOfCircuit(e, n.qal)
        BY <1>1, <3>1 DEF IdentityLayout, IsOfCircuit, Unmapped
      <3>4. HoldsAll(e, n.qal)
        <4>1. ASSUME NEW q \in 0..e.numLogical-1
              PROVE  q \in Physical /\ n.qal[q] = q
          BY <1>1, <3>1 DEF IdentityLayout, Physical
        <4> QED BY <4>1 DEF HoldsAll
      <3> QED BY <3>2, <3>3, <3>4
    <2>2. CASE layout # NoLayout
      <3>1. n.qal = layout /\ n.laq = LaqOf(layout, e.numLogical)
        BY <2>2 DEF Root
      <3>2. IsCompleteLayout(e.numLogical, layout)
        BY <2>2
      <3>3. IsLayout(n.qal, n.laq)
        BY <1>1, <3>1, <3>2, CompleteConsistent
      <3> QED BY <3>1, <3>2, <3>3 DEF IsCompleteLayout, IsOfCircuit, HoldsAll
    <2> QED BY <2>1, <2>2
  <1>6. Occupation(n)
    BY <1>3 DEF Occupation, HasNoOverlap, LastIsLatest
  <1>7. KeepsOrder(e, n.scheduled)
    BY <1>3 DEF KeepsOrder
  <1>8. <<>> \in Seq(1..Len(e.gates))
    OBVIOUS
  <1> QED BY <1>2, <1>3, <1>4, <1>5, <1>6, <1>7, <1>8 DEF Sound

(* The root of NoSwaps holds nothing on the qubits that are not cleared.   *)
LEMMA RootUnmapped ==
    ASSUME NEW e, IsEnvironment(e), NEW k,
           NEW layout, layout = NoLayout
              \/ /\ IsCompleteLayout(e.numLogical, layout)
                 /\ \A x \in Physical : x >= e.numLogical => layout[x] = Unmapped,
           NEW n, n = Root(e, layout, k)
    PROVE  IsUnmappedBeyond(e, n)
  <1>1. e.numLogical \in Nat /\ \A x \in Physical : x \in Nat
    BY NodeAssumption DEF IsEnvironment, Physical
  <1>2. \A x \in Physical : x >= e.numLogical => IdentityLayout(e.numLogical)[x] = Unmapped
    BY <1>1 DEF IdentityLayout
  <1>3. CASE layout = NoLayout
    BY <1>2, <1>3 DEF Root, IsUnmappedBeyond
  <1>4. CASE layout # NoLayout
    <2>1. n.qal = layout /\ n.laq = LaqOf(layout, e.numLogical)
      BY <1>4 DEF Root
    <2>2. ASSUME NEW q \in Physical, q >= e.numLogical
          PROVE  LaqOf(layout, e.numLogical)[q] = Unmapped
      <3>1. \A x \in Physical : layout[x] # q
        BY <1>1, <1>4, <2>2 DEF IsCompleteLayout
      <3>2. {x \in Physical : layout[x] = q} = {}
        BY <3>1
      <3> QED BY <1>2, <2>2, <3>2 DEF LaqOf
    <2> QED BY <1>4, <2>1, <2>2 DEF IsUnmappedBeyond
  <1> QED BY <1>3, <1>4

(* The first entry of the queue.                                           *)
LEMMA FirstGood ==
    ASSUME NoCircuitSwaps, CompleteLayouts, ClearedByNoSwaps,
           env \in Environments, config \in Configurations, NEW root \in SearchRoots
    PROVE  GoodNode(env, config, TRUE, Price(root).node)
  <1> DEFINE fixed == StartsFixed(config)
             n == Price(root).node
  <1>1. /\ IsEnvironment(env) /\ HasNoSwapGates(env)
        /\ \A layout \in InitialLayouts(env.numLogical) :
              layout \in [Physical -> Place] \cup {NoLayout}
        /\ config.searchCycles \in Int
    BY SetUpFacts
  <1>2. PICK layout \in InitialLayouts(env.numLogical) :
            root = Root(env, layout, NumSearchCycles(config.searchCycles))
    BY DEF SearchRoots
  <1>3. layout = NoLayout \/ IsCompleteLayout(env.numLogical, layout)
    BY <1>2 DEF CompleteLayouts
  <1>4. NumSearchCycles(config.searchCycles) \in Nat
    BY <1>1, SearchCyclesAre
  <1>5. Sound(env, root, <<>>) /\ HoldsAll(env, root.qal)
    BY <1>1, <1>2, <1>3, <1>4, RootSound
  <1>6. root.scheduled = <<>> /\ root.root
    BY <1>2 DEF Root
  <1>7. fixed => ~config.greedyMapper
    BY DEF StartsFixed
  <1> HIDE DEF fixed
  <1>8. IsModified(env, fixed, root, n)
    BY <1>1, <1>5, <1>7, ModifiedSound, PriceIs
  <1>9. Lawful(env, fixed, root)
    <2>1. root \in Nodes /\ IsOfCircuit(env, root.qal)
      BY <1>5, SoundIsNode DEF Sound
    <2> QED BY <1>5, <1>6, <2>1, EmptyLawful
  <1>10. Sound(env, n, <<>>) /\ n.scheduled = <<>> /\ Lawful(env, fixed, n)
    BY <1>6, <1>8, <1>9 DEF IsModified, IsPlacedFrom
  <1>11. config.expander = "NoSwaps" => IsUnmappedBeyond(env, n)
    <2> SUFFICES ASSUME config.expander = "NoSwaps" PROVE IsUnmappedBeyond(env, n)
      OBVIOUS
    <2>1. /\ ~config.greedyMapper
          /\ layout = NoLayout
             \/ \A x \in Physical : x >= env.numLogical => layout[x] = Unmapped
      BY DEF ClearedByNoSwaps
    <2>2. IsUnmappedBeyond(env, root)
      BY <1>1, <1>2, <1>3, <2>1, RootUnmapped
    <2>3. n = root
      BY <2>1, PriceIs DEF Modified
    <2> QED BY <2>2, <2>3
  <1> HIDE DEF n
  <1>12. RootOk(env, config, n)
    BY <1>10, <1>11 DEF RootOk
  <1> QED BY <1>10, <1>12, Zenon DEF GoodNode, fixed, n

-----------------------------------------------------------------------------
(* The invariant of the search.                                            *)

(* As long as no assertion has failed, all nodes are lawful; what run      *)
(* returns is the result of such a node.                                   *)
BestOk(lawful, x) ==
    x = NoEntry \/ (GoodNode(env, config, lawful, x.node) /\ IsFinalNode(x.node))

SearchInv ==
    /\ env \in Environments /\ config \in Configurations
    /\ AreGood(env, config, status # "aborted", queue)
    /\ BestOk(status # "aborted", best)
    /\ status \in {"found", "returned"} => best # NoEntry
    /\ status = "returned" => result = ResultOf(best.node, env.gates)

Hypotheses == NoCircuitSwaps /\ CompleteLayouts /\ ClearedByNoSwaps

(* A queue with one entry.                                                 *)
LEMMA OneEntry ==
    ASSUME NEW e, NEW c, NEW l, NEW x, GoodNode(e, c, l, x.node)
    PROVE  AreGood(e, c, l, <<x>>)
  <1> DEFINE S == {x}
  <1>1. <<x>> \in Seq(S)
    OBVIOUS
  <1>2. ASSUME NEW y \in S PROVE GoodNode(e, c, l, y.node)
    <2>1. y = x
      OBVIOUS
    <2> QED BY <2>1, Zenon
  <1> HIDE DEF S
  <1> QED BY <1>1, <1>2 DEF AreGood

(* The search starts with a good root in the queue.                        *)
LEMMA SearchInit ==
    ASSUME Hypotheses
    PROVE  Init => SearchInv
  <1> SUFFICES ASSUME Init PROVE SearchInv
    OBVIOUS
  <1>1. env \in Environments /\ config \in Configurations
    BY DEF Init
  <1>2. PICK root \in SearchRoots : StartWith(root)
    BY DEF Init
  <1> DEFINE p == Price(root)
             x == [id |-> 1, stack |-> 0, node |-> p.node, costs |-> <<p.cost>>]
  <1>3. queue = <<x>> /\ best = NoEntry /\ status = "searching"
    BY <1>2 DEF StartWith
  <1>4. GoodNode(env, config, TRUE, p.node)
    BY <1>1, FirstGood DEF Hypotheses
  <1>5. x.node = p.node
    OBVIOUS
  <1> HIDE DEF x, p
  <1>6. GoodNode(env, config, TRUE, x.node)
    BY <1>4, <1>5
  <1>7. AreGood(env, config, TRUE, queue)
    BY <1>3, <1>6, OneEntry
  <1>8. AreGood(env, config, status # "aborted", queue)
    BY <1>3, <1>7, LessIsAsked
  <1> QED BY <1>1, <1>3, <1>8 DEF SearchInv, BestOk

(* The best final node after an iteration.                                 *)
LEMMA BestAfterOk ==
    ASSUME NEW lawful, BestOk(lawful, best), NEW x, GoodNode(env, config, lawful, x.node)
    PROVE  BestOk(lawful, BestAfter(x))
  BY Zenon DEF BestOk, BestAfter

(* Less is asked of the best final node, too, after a failed assertion.    *)
LEMMA LessOfBest ==
    ASSUME NEW more, NEW less, less => more, NEW x, BestOk(more, x)
    PROVE  BestOk(less, x)
  BY LessIsAsked, Zenon DEF BestOk

(* The children of a good node are good, if all assertions have held.      *)
LEMMA OffspringGood ==
    ASSUME NEW e, NEW c, NEW n, GoodNode(e, c, TRUE, n),
           NEW fixed, fixed = StartsFixed(c),
           NEW x, AreOffspring(e, fixed, n, x), NEW h, h => x.legal
    PROVE  \E S : x.children \in Seq(S) /\ \A y \in S : GoodNode(e, c, h, y.node)
  <1>1. PICK S : /\ x.children \in Seq(S)
                 /\ \A y \in S : /\ IsChildOf(e, n, y.node)
                                 /\ x.legal /\ Lawful(e, fixed, n) => Lawful(e, fixed, y.node)
    BY DEF AreOffspring
  <1>2. Lawful(e, fixed, n)
    BY Zenon DEF GoodNode
  <1>3. ASSUME NEW y \in S PROVE GoodNode(e, c, h, y.node)
    <2>1. Sound(e, y.node, <<>>) /\ y.node.root = FALSE
      BY <1>1, Zenon DEF IsChildOf
    <2>2. h => Lawful(e, fixed, y.node)
      BY <1>1, <1>2, Zenon
    <2>3. RootOk(e, c, y.node)
      BY <2>1, Zenon DEF RootOk
    <2> QED BY <2>1, <2>2, <2>3, Zenon DEF GoodNode
  <1> QED BY <1>1, <1>3

(* An iteration that pushes the children of an entry.                      *)
LEMMA ExpansionKeeps ==
    ASSUME Hypotheses, env \in Environments, config \in Configurations,
           NEW rest, AreGood(env, config, TRUE, rest),
           NEW x, GoodNode(env, config, TRUE, x.node), NEW size
    PROVE  StoreOk(env, config, PushExpansion(rest, x, Expand(x, size)))
  <1> DEFINE y == Expand(x, size)
             h == IsCounted(x) /\ y.legal
             s == Store(rest, Records, dead, pushed, h)
             fixed == StartsFixed(config)
             n == x.node
  <1>1. PushExpansion(rest, x, y) = PushAll(s, x, y.children)
    BY DEF PushExpansion
  <1>2. /\ IsEnvironment(env) /\ HasNoSwapGates(env)
        /\ config.expander \in {"DefaultExpander", "GreedyTopK", "NoSwaps"}
    BY SetUpFacts DEF Hypotheses
  <1>3. Sound(env, n, <<>>) /\ RootOk(env, config, n)
    BY Zenon DEF GoodNode
  <1>4. AreOffspring(env, fixed, n, y)
    BY <1>2, <1>3, ExpandSound
  <1>5. h => y.legal
    OBVIOUS
  <1> HIDE DEF h, y, fixed
  <1>6. StoreOk(env, config, s) /\ s.holds = h
    <2>1. AreGood(env, config, h, rest)
      BY LessIsAsked
    <2> QED BY <2>1, StoreIsOk
  <1> HIDE DEF s
  <1>7. PICK S : y.children \in Seq(S) /\ \A z \in S : GoodNode(env, config, h, z.node)
    <2>1. GoodNode(env, config, TRUE, n) /\ fixed = StartsFixed(config)
      BY DEF fixed
    <2> HIDE DEF n
    <2> QED BY <1>4, <1>5, <2>1, OffspringGood
  <1>8. \A z \in S : GoodNode(env, config, s.holds, z.node)
    BY <1>6, <1>7
  <1>9. StoreOk(env, config, PushAll(s, x, y.children))
    BY <1>6, <1>7, <1>8, PushAllKeeps
  <1> QED BY <1>1, <1>9 DEF y

(* Every step of the search keeps the invariant.                           *)
LEMMA SearchStep ==
    ASSUME Hypotheses
    PROVE  SearchInv /\ [Next]_searchVars => SearchInv'
  <1> SUFFICES ASSUME SearchInv, [Next]_searchVars
               PROVE  SearchInv'
    OBVIOUS
  <1>1. /\ env \in Environments /\ config \in Configurations
        /\ AreGood(env, config, status # "aborted", queue)
        /\ BestOk(status # "aborted", best)
        /\ status \in {"found", "returned"} => best # NoEntry
        /\ status = "returned" => result = ResultOf(best.node, env.gates)
    BY DEF SearchInv
  <1>2. ASSUME NEW h, NEW next, next \in {"searching", "found"},
               status' = Abort(h, next)
        PROVE  /\ status' # "aborted" => h
               /\ status' # "returned"
               /\ status' = "found" => next = "found"
    BY <1>2 DEF Abort
  <1>3. ASSUME CanPop, NEW i \in DOMAIN queue, Pop(queue[i])
        PROVE  /\ AreGood(env, config, TRUE, RemoveAt(queue, i))
               /\ GoodNode(env, config, TRUE, queue[i].node)
               /\ env' = env /\ config' = config /\ result' = result
               /\ BestOk(TRUE, best')
    <2>1. status # "aborted"
      BY <1>3 DEF CanPop
    <2>2. AreGood(env, config, TRUE, queue) /\ BestOk(TRUE, best)
      <3>1. TRUE => status # "aborted"
        BY <2>1
      <3> QED BY <1>1, <3>1, LessIsAsked, LessOfBest
    <2>3. /\ AreGood(env, config, TRUE, RemoveAt(queue, i))
          /\ GoodNode(env, config, TRUE, queue[i].node)
      BY <2>2, QueueEntry
    <2>4. best' = BestAfter(queue[i]) /\ env' = env /\ config' = config /\ result' = result
      BY <1>3 DEF Pop
    <2>5. BestOk(TRUE, BestAfter(queue[i]))
      BY <2>2, <2>3, BestAfterOk
    <2> QED BY <2>3, <2>4, <2>5
  <1>4. ASSUME NEW q, queue' = q, NEW h, AreGood(env, config, h, q),
               env' = env, config' = config, BestOk(TRUE, best'),
               status' # "aborted" => h,
               status' # "returned", status' = "found" => best' # NoEntry
        PROVE  SearchInv'
    <2>1. AreGood(env, config, status' # "aborted", q)
      BY <1>4, LessIsAsked
    <2>2. BestOk(status' # "aborted", best')
      BY <1>4, LessOfBest
    <2>3. BestOk(status # "aborted", best)'
      BY <1>4, <2>2 DEF BestOk, IsFinalNode, NoEntry
    <2>4. AreGood(env', config', status' # "aborted", queue')
      BY <1>4, <2>1
    <2> QED BY <1>1, <1>4, <2>3, <2>4 DEF SearchInv
  <1>5. CASE PopDead
    <2>1. PICK i \in DOMAIN queue :
              /\ Pop(queue[i]) /\ queue' = RemoveAt(queue, i)
              /\ status' = Abort(IsCounted(queue[i]), "searching")
      BY <1>5 DEF PopDead
    <2>2. CanPop
      BY <1>5 DEF PopDead
    <2>3. status' # "returned" /\ status' # "found"
      BY <1>2, <2>1
    <2> QED BY <1>3, <1>4, <2>1, <2>2, <2>3
  <1>6. CASE PopAndExpand
    <2>1. PICK i \in DOMAIN queue :
              /\ Pop(queue[i])
              /\ IF best' # NoEntry /\ Cost(queue[i]) >= Cost(best')
                 THEN /\ queue' = RemoveAt(queue, i)
                      /\ status' = Abort(IsCounted(queue[i]), "found")
                 ELSE GoOnWith(PushExpansion(RemoveAt(queue, i), queue[i],
                                   Expand(queue[i], Len(RemoveAt(queue, i)))))
      BY <1>6 DEF PopAndExpand
    <2>2. CanPop
      BY <1>6 DEF PopAndExpand
    <2> DEFINE x == queue[i]
               rest == RemoveAt(queue, i)
    <2>3. /\ AreGood(env, config, TRUE, rest) /\ GoodNode(env, config, TRUE, x.node)
          /\ env' = env /\ config' = config /\ BestOk(TRUE, best')
      BY <1>3, <2>1, <2>2
    <2>4. CASE best' # NoEntry /\ Cost(x) >= Cost(best')
      <3>1. queue' = rest /\ status' = Abort(IsCounted(x), "found")
        BY <2>1, <2>4
      <3>2. status' # "returned"
        BY <1>2, <3>1
      <3> HIDE DEF x, rest
      <3> QED BY <1>4, <2>3, <2>4, <3>1, <3>2
    <2>5. CASE ~(best' # NoEntry /\ Cost(x) >= Cost(best'))
      <3> DEFINE s == PushExpansion(rest, x, Expand(x, Len(rest)))
      <3>1. queue' = s.queue /\ status' = Abort(s.holds, "searching")
        BY <2>1, <2>5 DEF GoOnWith
      <3>2. /\ status' # "aborted" => s.holds
            /\ status' # "returned" /\ status' # "found"
        BY <1>2, <3>1
      <3> HIDE DEF x, rest
      <3>3. AreGood(env, config, s.holds, s.queue)
        BY <1>1, <2>3, ExpansionKeeps DEF StoreOk
      <3> HIDE DEF s
      <3> QED BY <1>4, <2>3, <3>1, <3>2, <3>3
    <2> QED BY <2>4, <2>5
  <1>7. CASE GiveUp
    <2>1. /\ status = "searching" /\ status' = "failed"
          /\ UNCHANGED <<env, config, queue, best, result>>
      BY <1>7 DEF GiveUp
    <2>2. (status # "aborted") = TRUE /\ (status' # "aborted") = TRUE
      BY <2>1
    <2>3. AreGood(env, config, TRUE, queue) /\ BestOk(TRUE, best)
      BY <1>1, <2>2
    <2>4. BestOk(TRUE, best')
      BY <2>1, <2>3
    <2> QED BY <1>4, <2>1, <2>3, <2>4
  <1>8. CASE Return
    <2>1. /\ status = "found" /\ status' = "returned"
          /\ result' = ResultOf(best.node, env.gates)
          /\ queue' = <<>> /\ UNCHANGED <<env, config, best>>
      BY <1>8 DEF Return
    <2>2. AreGood(env', config', status' # "aborted", queue')
      <3>1. queue' \in Seq({})
        BY <2>1
      <3>2. \A y \in {} : GoodNode(env', config', status' # "aborted", y.node)
        OBVIOUS
      <3> QED BY <3>1, <3>2 DEF AreGood
    <2>3. BestOk(status # "aborted", best)'
      <3>1. (status # "aborted") = TRUE /\ (status' # "aborted") = TRUE
        BY <2>1
      <3>2. BestOk(TRUE, best)
        BY <1>1, <3>1
      <3> QED BY <2>1, <3>1, <3>2 DEF BestOk, IsFinalNode, NoEntry
    <2> QED BY <1>1, <2>1, <2>2, <2>3 DEF SearchInv
  <1>9. CASE UNCHANGED searchVars
    <2>1. UNCHANGED <<env, config, queue, best, status, result>>
      BY <1>9 DEF searchVars
    <2> QED BY <1>1, <2>1 DEF SearchInv, BestOk, IsFinalNode, NoEntry
  <1> QED BY <1>5, <1>6, <1>7, <1>8, <1>9 DEF Next

-----------------------------------------------------------------------------
(* The theorems.                                                           *)

(* The invariant holds in all states of every search.                      *)
LEMMA SearchInvariant ==
    ASSUME Hypotheses
    PROVE  Spec => []SearchInv
  <1>1. Init => SearchInv
    BY SearchInit
  <1>2. SearchInv /\ [Next]_searchVars => SearchInv'
    BY SearchStep
  <1> QED BY <1>1, <1>2, PTL DEF Spec

(* A sound node is what the property of the runs calls so.                 *)
LEMMA SoundIsSound ==
    ASSUME IsEnvironment(env), NEW n, Sound(env, n, <<>>)
    PROVE  IsSound(n)
  <1> DEFINE e == env
             done == DoneOf(n)
  <1>1. /\ TypedNode(e, n) /\ IsLayout(n.qal, n.laq) /\ Progress(e, n, <<>>)
        /\ Occupation(n)
    BY DEF Sound
  <1>2. /\ n.readyGates \subseteq 1..Len(e.gates)
        /\ DOMAIN e.gates = 1..Len(e.gates)
    BY <1>1 DEF TypedNode, IsEnvironment
  <1>3. /\ \A c \in 1..Len(e.gates) : c \in FrontierOf(e.gates, done) <=> c \in n.readyGates
        /\ n.numUnscheduledGates = Cardinality(1..Len(e.gates) \ done)
    BY <1>1 DEF Progress
  <1>4. FrontierOf(e.gates, done) \subseteq 1..Len(e.gates)
    BY <1>2 DEF FrontierOf
  <1>5. n.readyGates = FrontierOf(e.gates, done)
    BY <1>2, <1>3, <1>4
  <1>6. HasNoOverlap(n.scheduled)
    BY <1>1 DEF Occupation
  <1> QED BY <1>1, <1>2, <1>3, <1>5, <1>6 DEF IsSound, DoneOf

(* Whatever the configuration, the nodes in the queue are consistent: the  *)
(* layout is one, the ready gates are the frontier of the circuit, all     *)
(* gates are counted, and no gates overlap.                                *)
THEOREM NodesCorrect ==
    ASSUME Hypotheses
    PROVE  Spec => []NodesAreSound
  <1>1. SearchInv => NodesAreSound
    <2> SUFFICES ASSUME SearchInv, NEW i \in DOMAIN queue
                 PROVE  IsSound(queue[i].node)
      BY DEF NodesAreSound
    <2>1. GoodNode(env, config, status # "aborted", queue[i].node)
      BY QueueEntry DEF SearchInv
    <2>2. Sound(env, queue[i].node, <<>>)
      BY <2>1, Zenon DEF GoodNode
    <2>3. IsEnvironment(env)
      BY SetUpFacts DEF SearchInv, Hypotheses
    <2> QED BY <2>2, <2>3, SoundIsSound
  <1> QED BY <1>1, SearchInvariant, PTL

(* The result of a sound, lawful node without ready gates.                 *)
IsResultOf(e, fixed, r) ==
    /\ IsFaithful(e.gates, r) /\ IsComplete(e.gates, r)
    /\ IsInOrder(e.gates, r) /\ IsOnCouplings(r)
    /\ fixed => IsInTime(e.gates, r) /\ HasNoOverlap(r.scheduledGates)

(* The schedule of the result is that of the node, if all gates of it are  *)
(* on physical qubits.                                                     *)
LEMMA SameSchedule ==
    ASSUME NEW e, NEW n \in Nodes, NEW walk, Known(e, n, walk), ArePlaced(n.scheduled)
    PROVE  ResultOfWalk(n, walk).scheduledGates = n.scheduled
  <1> DEFINE k == Len(n.scheduled)
             s == walk[k].scheduled
             t == n.scheduled
  <1>1. /\ k \in Nat /\ s \in [1..k -> Entries(e)]
        /\ \A x \in 1..k : SameEntry(s[x], t[x])
    BY DEF Known
  <1>2. t \in Seq(ScheduledGates) /\ DOMAIN t = 1..k
    BY DEF Nodes
  <1>3. ASSUME NEW x \in 1..k PROVE s[x] = t[x]
    <2>1. s[x] \in ScheduledGates /\ t[x] \in ScheduledGates
      BY <1>1, <1>2 DEF Entries
    <2>2. t[x].physicalTarget # Unmapped
      BY <1>2 DEF ArePlaced
    <2>3. SameEntry(s[x], t[x])
      BY <1>1
    <2> HIDE DEF s, t
    <2> QED BY <2>1, <2>2, <2>3 DEF SameEntry, ScheduledGates
  <1>4. s = t
    <2>1. s = [x \in 1..k |-> s[x]]
      BY <1>1
    <2>2. t = [x \in 1..k |-> t[x]]
      BY <1>2
    <2> HIDE DEF s, t, k
    <2> QED BY <1>3, <2>1, <2>2
  <1> QED BY <1>4 DEF ResultOfWalk

(* The result of a sound and lawful final node is a correct one.           *)
LEMMA ResultSound ==
    ASSUME NEW e, NEW fixed, IsEnvironment(e), HasNoSwapGates(e), NEW n,
           Sound(e, n, <<>>), Lawful(e, fixed, n), n.readyGates = {}
    PROVE  IsResultOf(e, fixed, ResultOf(n, e.gates))
  <1>1. /\ n \in Nodes /\ IsLayout(n.qal, n.laq) /\ Progress(e, n, <<>>)
        /\ KeepsOrder(e, n.scheduled) /\ HasNoOverlap(n.scheduled)
    BY SoundIsNode DEF Sound, Occupation
  <1>2. Timing(e, n) /\ OnCoupling(n.scheduled) /\ Remembers(e, n)
    BY Zenon DEF Lawful
  <1>3. PICK walk : /\ Walks(e, n, walk) /\ Known(e, n, walk)
                    /\ ResultOf(n, e.gates) = ResultOfWalk(n, walk)
    BY <1>1, <1>2, KnownResult
  <1> DEFINE r == ResultOfWalk(n, walk)
  <1>4. \A g \in 1..Len(e.gates) : \E i \in DOMAIN n.scheduled : n.scheduled[i].gate = g
    BY <1>1, AllScheduled
  <1>5. IsFaithful(e.gates, r)
    BY <1>1, <1>3, FaithfulResult
  <1>6. IsComplete(e.gates, r)
    BY <1>1, <1>3, <1>4, CompleteResult
  <1>7. IsInOrder(e.gates, r)
    BY <1>1, <1>3, <1>4, OrderedResult
  <1>8. IsOnCouplings(r)
    <2> DEFINE k == Len(n.scheduled)
               s == walk[k].scheduled
    <2>1. /\ k \in Nat /\ s \in [1..k -> Entries(e)]
          /\ \A x \in 1..k : SameEntry(s[x], n.scheduled[x])
      BY <1>3 DEF Known
    <2>2. r.scheduledGates = s /\ DOMAIN s = 1..k
      BY <2>1 DEF ResultOfWalk
    <2> SUFFICES ASSUME NEW i \in 1..k, s[i].physicalControl # Unmapped
                 PROVE  Coupled(s[i].physicalControl, s[i].physicalTarget)
      BY <2>2 DEF IsOnCouplings
    <2>3. n.scheduled[i].physicalControl = s[i].physicalControl /\ DOMAIN n.scheduled = 1..k
      BY <1>1, <2>1 DEF SameEntry, Nodes
    <2>4. Coupled(n.scheduled[i].physicalControl, n.scheduled[i].physicalTarget)
      BY <1>2, <2>3 DEF OnCoupling
    <2>5. n.scheduled[i].physicalTarget # Unmapped
      BY <2>4, NodeAssumption DEF Coupled, Physical, Unmapped
    <2>6. s[i].physicalTarget = n.scheduled[i].physicalTarget
      BY <2>1, <2>5 DEF SameEntry
    <2> QED BY <2>3, <2>4, <2>6
  <1>9. ASSUME fixed
        PROVE  IsInTime(e.gates, r) /\ HasNoOverlap(r.scheduledGates)
    <2>1. ArePlaced(n.scheduled)
      BY <1>9, Zenon DEF Lawful, AllPlaced
    <2>2. r.scheduledGates = n.scheduled
      BY <1>1, <1>3, <2>1, SameSchedule
    <2> HIDE DEF r
    <2>3. AllInTime(e, n.scheduled)
      BY <1>2 DEF Timing
    <2>4. IsInTime(e.gates, r)
      BY <2>1, <2>2, <2>3 DEF IsInTime, AllInTime, ArePlaced, OfCircuit, InTime
    <2> QED BY <1>1, <2>2, <2>4
  <1> HIDE DEF r
  <1> QED BY <1>3, <1>5, <1>6, <1>7, <1>8, <1>9, Zenon DEF IsResultOf, r

(* What run has returned in a state of the invariant.                      *)
LEMMA ReturnedIsCorrect ==
    ASSUME Hypotheses
    PROVE  SearchInv /\ status = "returned" => IsResultOf(env, StartsFixed(config), result)
  <1> SUFFICES ASSUME SearchInv, status = "returned"
               PROVE  IsResultOf(env, StartsFixed(config), result)
    OBVIOUS
  <1> DEFINE n == best.node
             fixed == StartsFixed(config)
  <1>1. /\ env \in Environments /\ config \in Configurations
        /\ BestOk(status # "aborted", best) /\ best # NoEntry
        /\ result = ResultOf(n, env.gates)
    BY DEF SearchInv
  <1>2. IsEnvironment(env) /\ HasNoSwapGates(env)
    BY <1>1, SetUpFacts DEF Hypotheses
  <1>3. GoodNode(env, config, status # "aborted", n) /\ IsFinalNode(n)
    BY <1>1, Zenon DEF BestOk
  <1>4. Sound(env, n, <<>>) /\ Lawful(env, fixed, n)
    <2>1. status # "aborted"
      OBVIOUS
    <2> QED BY <1>3, <2>1, Zenon DEF GoodNode
  <1>5. n.readyGates = {}
    BY <1>3 DEF IsFinalNode
  <1> HIDE DEF n, fixed
  <1>6. IsResultOf(env, fixed, ResultOf(n, env.gates))
    BY <1>2, <1>4, <1>5, ResultSound
  <1> QED BY <1>1, <1>6 DEF n, fixed

(* Whatever the configuration, run returns a correct implementation of the *)
(* circuit: the gates act on the qubits of the circuit, all of them, in    *)
(* order, and on coupled qubits; from a fixed layout also in time and      *)
(* without overlap.                                                        *)
THEOREM ResultCorrect ==
    ASSUME Hypotheses
    PROVE  Spec => []ResultIsCorrect
  <1>1. SearchInv => ResultIsCorrect
    BY ReturnedIsCorrect, Zenon DEF ResultIsCorrect, IsResultOf
  <1> QED BY <1>1, SearchInvariant, PTL

-----------------------------------------------------------------------------
(* The search as an implementation of Mapping.                             *)

(* Mapping judges a result as Result does.                                 *)
LEMMA PromiseIsTheSame ==
    ASSUME NEW gates, NEW r
    PROVE  /\ Promise!IsCorrect(gates, r) <=> IsCorrect(gates, r)
           /\ Promise!Searching = Searching
           /\ Promise!Success(r) = Success(r)
  <1> USE DEF Promise!IsTwoQubit, IsTwoQubit, Promise!QubitsOf, QubitsOf,
              Promise!GeneratedSwap, GeneratedSwap, Promise!Unmapped, Unmapped,
              Promise!Physical, Physical
  <1>1. Promise!IsFaithful(gates, r) <=> IsFaithful(gates, r)
    BY Zenon DEF Promise!IsFaithful, IsFaithful, Promise!LayoutAfter, LayoutAfter,
                 Promise!SwapQal, SwapQal
  <1>2. Promise!IsComplete(gates, r) <=> IsComplete(gates, r)
    BY Zenon DEF Promise!IsComplete, IsComplete, Promise!IsLayout, IsLayout
  <1>3. Promise!IsInOrder(gates, r) <=> IsInOrder(gates, r)
    BY Zenon DEF Promise!IsInOrder, IsInOrder, Promise!Cardinality, Cardinality
  <1>4. Promise!IsInTime(gates, r) <=> IsInTime(gates, r)
    BY Zenon DEF Promise!IsInTime, IsInTime, Promise!EndOf, EndOf
  <1>5. Promise!IsOnCouplings(r) <=> IsOnCouplings(r)
    BY Zenon DEF Promise!IsOnCouplings, IsOnCouplings, Promise!Coupled, Coupled
  <1>6. Promise!HasNoOverlap(r.scheduledGates) <=> HasNoOverlap(r.scheduledGates)
    BY Zenon DEF Promise!HasNoOverlap, HasNoOverlap, Promise!EndOf, EndOf,
                 Promise!Occupies, Occupies, Promise!QubitsOfEntry, QubitsOfEntry
  <1>7. Promise!Searching = Searching /\ Promise!Success(r) = Success(r)
    BY Zenon DEF Promise!Searching, Searching, Promise!Success, Success
  <1> QED BY <1>1, <1>2, <1>3, <1>4, <1>5, <1>6, <1>7 DEF Promise!IsCorrect, IsCorrect

(* The abstract state only changes at the end.                             *)
LEMMA SameOutcome ==
    ASSUME status \in {"searching", "found", "aborted"},
           status' \in {"searching", "found", "aborted"},
           env' = env, config' = config
    PROVE  UNCHANGED Promise!mappingVars
  <1>1. Outcome = Searching
    BY DEF Outcome
  <1>2. Outcome' = Searching
    BY DEF Outcome, Searching
  <1> QED BY <1>1, <1>2 DEF Promise!mappingVars

(* An iteration of the loop goes on, or has found a final node.            *)
LEMMA StillSearching ==
    ASSUME PopDead \/ PopAndExpand
    PROVE  /\ status \in {"searching", "found", "aborted"}
           /\ status' \in {"searching", "found", "aborted"}
           /\ env' = env /\ config' = config
  <1>1. ASSUME NEW h, NEW next, next \in {"searching", "found"}, status' = Abort(h, next)
        PROVE  status' \in {"searching", "found", "aborted"}
    BY <1>1 DEF Abort
  <1>2. CASE PopDead
    <2>1. PICK i \in DOMAIN queue :
              Pop(queue[i]) /\ status' = Abort(IsCounted(queue[i]), "searching")
      BY <1>2 DEF PopDead
    <2> QED BY <1>1, <1>2, <2>1 DEF PopDead, CanPop, Pop
  <1>3. CASE PopAndExpand
    <2>1. PICK i \in DOMAIN queue :
              /\ Pop(queue[i])
              /\ IF best' # NoEntry /\ Cost(queue[i]) >= Cost(best')
                 THEN status' = Abort(IsCounted(queue[i]), "found")
                 ELSE GoOnWith(PushExpansion(RemoveAt(queue, i), queue[i],
                                   Expand(queue[i], Len(RemoveAt(queue, i)))))
      BY <1>3 DEF PopAndExpand
    <2>2. ASSUME NEW s, GoOnWith(s)
          PROVE  status' = Abort(s.holds, "searching")
      BY <2>2 DEF GoOnWith
    <2>3. status' \in {"searching", "found", "aborted"}
      BY <1>1, <2>1, <2>2
    <2> QED BY <1>3, <2>1, <2>3 DEF PopAndExpand, CanPop, Pop
  <1> QED BY <1>2, <1>3

(* From fixed layouts, every step of the search implements a step of       *)
(* Mapping or none, except that it may give up (and see QueueNeverEmpty);  *)
(* that the search ends at all is left to TLC.                             *)
THEOREM StepsImplementMapping ==
    ASSUME Hypotheses, \A c \in Configurations : StartsFixed(c)
    PROVE  Spec => /\ Promise!Init
                   /\ [][GiveUp \/ [Promise!Next]_(Promise!mappingVars)]_searchVars
  <1>1. Init => Promise!Init
    <2> SUFFICES ASSUME Init PROVE Promise!Init
      OBVIOUS
    <2>1. status = "searching"
      BY DEF Init, StartWith
    <2>2. Outcome = Searching
      BY <2>1 DEF Outcome
    <2> QED BY <2>2, PromiseIsTheSame DEF Promise!Init
  <1>2. SearchInv /\ SearchInv' /\ ResultIsCorrect' /\ [Next]_searchVars
            => [GiveUp \/ [Promise!Next]_(Promise!mappingVars)]_searchVars
    <2> SUFFICES ASSUME SearchInv, SearchInv', ResultIsCorrect', Next
                 PROVE  GiveUp \/ [Promise!Next]_(Promise!mappingVars)
      OBVIOUS
    <2>1. CASE PopDead \/ PopAndExpand
      BY <2>1, StillSearching, SameOutcome
    <2>2. CASE Return
      <3>1. /\ status = "found" /\ status' = "returned"
            /\ env' = env /\ config' = config
        BY <2>2 DEF Return
      <3>2. StartsFixed(config') /\ StartsFixed(config)
        BY <3>1 DEF SearchInv
      <3>3. /\ IsFaithful(env.gates, result')
            /\ IsComplete(env.gates, result')
            /\ IsInOrder(env.gates, result')
            /\ IsOnCouplings(result')
            /\ IsInTime(env.gates, result') /\ HasNoOverlap(result'.scheduledGates)
        BY <3>1, <3>2 DEF ResultIsCorrect
      <3>4. IsCorrect(env.gates, result')
        BY <3>3 DEF IsCorrect
      <3>5. Outcome = Searching /\ Outcome' = Success(result')
        BY <3>1 DEF Outcome
      <3>6. Outcome'.kind = "success" /\ Outcome'.result = result'
        BY <3>5 DEF Success
      <3>7. config.expander # "NoSwaps"
        BY <3>2 DEF StartsFixed
      <3>8. Promise!Succeed
        BY <3>1, <3>4, <3>5, <3>6, <3>7, PromiseIsTheSame DEF Promise!Succeed
      <3> QED BY <3>8 DEF Promise!Next
    <2>3. CASE GiveUp
      BY <2>3
    <2> QED BY <2>1, <2>2, <2>3 DEF Next
  <1> QED BY <1>1, <1>2, SearchInvariant, ResultCorrect, PTL DEF Spec

-----------------------------------------------------------------------------
(* What the filters remember.                                              *)

(* A bucket of a filter holds records of entries in E with its key, of no  *)
(* entry more than one.                                                    *)
IsBucket(f, E, key, b) ==
    /\ b \in Seq(E)
    /\ \A i \in 1..Len(b) : KeyOf(f, b[i].node) = key
    /\ \A i, j \in 1..Len(b) : b[i].id = b[j].id => i = j

IsMap(f, E, map) == \A key \in DOMAIN map : IsBucket(f, E, key, map[key])

AreRecords(E, r) ==
    /\ r = [f \in FilterNames |-> r[f]]
    /\ \A f \in FilterNames : IsMap(f, E, r[f])

(* No two entries have the same number.                                    *)
HasIds(E) == \A x, y \in E : x.id = y.id => x = y

(* A sequence over a set that has all its elements.                        *)
LEMMA SeqOver ==
    ASSUME NEW S, NEW T, NEW b \in Seq(S), \A i \in 1..Len(b) : b[i] \in T
    PROVE  b \in Seq(T)
  <1>1. Len(b) \in Nat /\ b = [i \in 1..Len(b) |-> b[i]]
    OBVIOUS
  <1>2. b \in [1..Len(b) -> T]
    BY <1>1
  <1> QED BY <1>1, <1>2

(* More entries may be remembered than are.                                *)
LEMMA MoreEntries ==
    ASSUME NEW S, NEW T, S \subseteq T
    PROVE  /\ \A f, key, b : IsBucket(f, S, key, b) => IsBucket(f, T, key, b)
           /\ \A f, map : IsMap(f, S, map) => IsMap(f, T, map)
           /\ \A r : AreRecords(S, r) => AreRecords(T, r)
  <1>1. ASSUME NEW f, NEW key, NEW b, IsBucket(f, S, key, b)
        PROVE  IsBucket(f, T, key, b)
    <2>1. b \in Seq(S) /\ \A i \in 1..Len(b) : b[i] \in T
      BY <1>1 DEF IsBucket
    <2>2. b \in Seq(T)
      BY <2>1, SeqOver
    <2> QED BY <1>1, <2>2 DEF IsBucket
  <1>2. \A f, map : IsMap(f, S, map) => IsMap(f, T, map)
    BY <1>1 DEF IsMap
  <1>3. \A r : AreRecords(S, r) => AreRecords(T, r)
    BY <1>2, Zenon DEF AreRecords
  <1> QED BY <1>1, <1>2, <1>3

(* One record less.                                                        *)
LEMMA WithoutRecordIs ==
    ASSUME NEW S, NEW b \in Seq(S), NEW i \in 1..Len(b),
           NEW c, c = WithoutRecord(b, i)
    PROVE  /\ c \in Seq(S) /\ Len(c) = Len(b) - 1
           /\ \A j \in 1..Len(c) : c[j] = IF j = i THEN b[Len(b)] ELSE b[j]
  <1> DEFINE k == Len(b)
             d == [b EXCEPT ![i] = Last(b)]
  <1>1. k \in Nat /\ i \in 1..k /\ k \in 1..k /\ Last(b) = b[k] /\ b[k] \in S
    BY DEF Last
  <1>2. d \in Seq(S) /\ Len(d) = k /\ \A j \in 1..k : d[j] = IF j = i THEN b[k] ELSE b[j]
    BY <1>1
  <1>3. c = SubSeq(d, 1, k - 1)
    BY DEF WithoutRecord
  <1> HIDE DEF d, k
  <1>4. k - 1 \in 0..Len(d) /\ 1 \in 1..k
    BY <1>1, <1>2
  <1>5. /\ SubSeq(d, 1, k - 1) \in Seq(S)
        /\ Len(SubSeq(d, 1, k - 1)) = k - 1
        /\ \A j \in 1..k-1 : SubSeq(d, 1, k - 1)[j] = d[j]
    BY <1>1, <1>2, <1>4
  <1>6. c \in Seq(S) /\ Len(c) = k - 1 /\ \A j \in 1..Len(c) : c[j] = d[j] /\ j \in 1..k
    BY <1>1, <1>3, <1>5
  <1> QED BY <1>2, <1>6 DEF k

(* A bucket after a record has been removed from it.                       *)
LEMMA BucketWithout ==
    ASSUME NEW f, NEW E, HasIds(E), NEW key, NEW b, IsBucket(f, E, key, b),
           NEW i \in 1..Len(b)
    PROVE  /\ IsBucket(f, E \ {b[i]}, key, WithoutRecord(b, i))
           /\ Len(WithoutRecord(b, i)) = Len(b) - 1
  <1> DEFINE c == WithoutRecord(b, i)
             k == Len(b)
  <1>1. b \in Seq(E) /\ k \in Nat /\ i \in 1..k
    BY DEF IsBucket
  <1>2. /\ c \in Seq(E) /\ Len(c) = k - 1
        /\ \A j \in 1..k-1 : c[j] = IF j = i THEN b[k] ELSE b[j]
    BY <1>1, WithoutRecordIs
  <1> DEFINE from(j) == IF j = i THEN k ELSE j
  <1> HIDE DEF c
  <1>3. ASSUME NEW j \in 1..k-1
        PROVE  from(j) \in 1..k /\ c[j] = b[from(j)] /\ from(j) # i
    BY <1>1, <1>2
  <1>4. \A j, l \in 1..k-1 : from(j) = from(l) => j = l
    BY <1>1
  <1> HIDE DEF from
  <1>5. \A j, l \in 1..k-1 : c[j].id = c[l].id => j = l
    BY <1>3, <1>4 DEF IsBucket
  <1>6. \A j \in 1..k-1 : KeyOf(f, c[j].node) = key
    BY <1>3 DEF IsBucket
  <1>7. \A j \in 1..Len(c) : c[j] \in E \ {b[i]}
    <2> SUFFICES ASSUME NEW j \in 1..k-1 PROVE c[j] \in E \ {b[i]}
      BY <1>2
    <2>1. b[from(j)] \in E /\ b[from(j)].id # b[i].id
      BY <1>1, <1>3 DEF IsBucket
    <2> QED BY <1>3, <2>1
  <1>8. c \in Seq(E \ {b[i]})
    BY <1>2, <1>7, SeqOver
  <1> QED BY <1>2, <1>5, <1>6, <1>8 DEF IsBucket, c, k

(* No position is forgotten when elements of a sequence are picked.        *)
LEMMA PickedAll ==
    ASSUME NEW S, NEW s \in Seq(S), NEW positions \in SUBSET DOMAIN s, NEW j \in positions
    PROVE  \E i \in DOMAIN Picked(s, positions) : Picked(s, positions)[i] = s[j]
  <1> DEFINE order == InOrder(positions)
             k == Len(order)
  <1>1. IsFiniteSet(positions) /\ positions \in SUBSET Nat
    <2>1. Len(s) \in Int /\ 1 \in Int /\ positions \in SUBSET (1..Len(s))
      OBVIOUS
    <2>2. IsFiniteSet(1..Len(s))
      BY <2>1, FS_Interval
    <2> QED BY <2>1, <2>2, FS_Subset
  <1>2. /\ order \in Seq(positions) /\ IsOneToOne(order)
        /\ k = Cardinality(positions) /\ k \in Nat /\ DOMAIN order = 1..k
    BY <1>1, InOrderIs DEF IsListOf
  <1> HIDE DEF order, k
  <1>3. order \in Injection(1..k, positions)
    BY <1>2 DEF Injection, IsInjective, IsOneToOne
  <1>4. Cardinality(1..k) = k
    BY <1>2, FS_Interval
  <1>5. order \in Surjection(1..k, positions)
    BY <1>1, <1>2, <1>3, <1>4, FS_Injection
  <1>6. PICK i \in 1..k : order[i] = j
    BY <1>5 DEF Surjection
  <1>7. Picked(s, positions) = [l \in 1..k |-> s[order[l]]]
    BY <1>2 DEF Picked, order
  <1> QED BY <1>6, <1>7

(* Looking up a bucket, and changing it.                                   *)
LEMMA BucketIs ==
    ASSUME NEW f, NEW E, NEW map, IsMap(f, E, map), NEW key
    PROVE  IsBucket(f, E, key, Bucket(map, key))
  <1>1. CASE key \in DOMAIN map
    BY <1>1 DEF IsMap, Bucket
  <1>2. CASE key \notin DOMAIN map
    <2>1. Bucket(map, key) = <<>>
      BY <1>2 DEF Bucket
    <2> QED BY <2>1 DEF IsBucket
  <1> QED BY <1>1, <1>2

(* A map stays one when a bucket is replaced.                              *)
LEMMA SetBucketIs ==
    ASSUME NEW f, NEW E, NEW map, IsMap(f, E, map), NEW key,
           NEW b, IsBucket(f, E, key, b)
    PROVE  IsMap(f, E, SetBucket(map, key, b))
  BY DEF IsMap, SetBucket

(* deleteRecord makes all filters forget an entry.                         *)
LEMMA DeleteRecordIs ==
    ASSUME NEW E, HasIds(E), NEW r, AreRecords(E, r), NEW x
    PROVE  AreRecords(E \ {x}, DeleteRecord(r, x))
  <1> DEFINE key(f) == KeyOf(f, x.node)
             bucket(f) == Bucket(r[f], key(f))
             at(f) == {i \in DOMAIN bucket(f) : bucket(f)[i].id = x.id}
             map(f) == IF at(f) = {} THEN r[f]
                       ELSE SetBucket(r[f], key(f), WithoutRecord(bucket(f), Min(at(f))))
  <1>1. DeleteRecord(r, x) = [f \in FilterNames |-> map(f)]
    BY Zenon DEF DeleteRecord
  <1>2. ASSUME NEW f \in FilterNames, NEW k \in DOMAIN map(f)
        PROVE  IsBucket(f, E \ {x}, k, map(f)[k])
    <2> DEFINE K == key(f)
               b == bucket(f)
               T == at(f)
               c == WithoutRecord(b, Min(T))
    <2>1. IsMap(f, E, r[f]) /\ IsBucket(f, E, K, b)
      BY BucketIs DEF AreRecords
    <2>2. b \in Seq(E) /\ DOMAIN b = 1..Len(b)
      BY <2>1 DEF IsBucket
    <2>3. ASSUME NEW l, IsBucket(f, E, l, map(f)[l]),
                 \A i \in 1..Len(map(f)[l]) : map(f)[l][i] # x
          PROVE  IsBucket(f, E \ {x}, l, map(f)[l])
      <3> HIDE DEF map
      <3> DEFINE m == map(f)[l]
      <3>1. m \in Seq(E) /\ \A i \in 1..Len(m) : m[i] \in E \ {x}
        BY <2>3 DEF IsBucket
      <3>2. m \in Seq(E \ {x})
        <4> HIDE DEF m
        <4> QED BY <3>1, SeqOver
      <3> QED BY <2>3, <3>2 DEF IsBucket
    <2>4. ASSUME NEW l, l # K, IsBucket(f, E, l, map(f)[l])
          PROVE  \A i \in 1..Len(map(f)[l]) : map(f)[l][i] # x
      <3>1. \A i \in 1..Len(map(f)[l]) : KeyOf(f, map(f)[l][i].node) = l
        BY <2>4 DEF IsBucket
      <3> QED BY <2>4, <3>1, Zenon
    <2>5. CASE T = {}
      <3>1. map(f) = r[f]
        BY <2>5
      <3>2. IsBucket(f, E, k, map(f)[k])
        BY <2>1, <3>1 DEF IsMap
      <3>3. CASE k = K
        <4>1. map(f)[k] = b
          BY <3>1, <3>3 DEF Bucket
        <4>2. \A i \in 1..Len(b) : b[i] # x
          BY <2>2, <2>5
        <4> HIDE DEF map, b
        <4> QED BY <2>3, <3>2, <4>1, <4>2
      <3> HIDE DEF map, K
      <3> QED BY <2>3, <2>4, <3>2, <3>3
    <2>6. CASE T # {}
      <3>1. map(f) = SetBucket(r[f], K, c)
        BY <2>6
      <3>2. Min(T) \in 1..Len(b) /\ b[Min(T)].id = x.id
        <4>1. T \in SUBSET Nat
          BY <2>2
        <4>2. \E m \in T : \A n \in T : m <= n
          <5> HIDE DEF T
          <5> QED BY <2>6, <4>1, Least
        <4>3. Min(T) \in T
          <5> HIDE DEF T
          <5> QED BY <4>2 DEF Min
        <4> QED BY <2>2, <4>3
      <3>3. IsBucket(f, E \ {b[Min(T)]}, K, c)
        BY <2>1, <3>2, BucketWithout
      <3>4. b[Min(T)] \in E
        BY <2>2, <3>2
      <3>5. IsBucket(f, E, K, c)
        BY <3>3, MoreEntries
      <3>6. IsMap(f, E, map(f))
        BY <2>1, <3>1, <3>5, SetBucketIs
      <3>7. IsBucket(f, E, k, map(f)[k])
        <4> HIDE DEF map
        <4> QED BY <3>6 DEF IsMap
      <3>8. CASE k = K
        <4>1. map(f)[k] = c
          BY <3>1, <3>8 DEF SetBucket
        <4>2. ASSUME NEW i \in 1..Len(c) PROVE c[i] # x
          <5>1. c[i] \in E \ {b[Min(T)]}
            <6> HIDE DEF c
            <6> QED BY <3>3 DEF IsBucket
          <5>2. c[i].id # x.id
            <6> HIDE DEF c, b, T
            <6> QED BY <3>2, <3>4, <5>1 DEF HasIds
          <5> QED BY <5>2
        <4> HIDE DEF map, c
        <4> QED BY <2>3, <3>7, <4>1, <4>2
      <3> HIDE DEF map, K
      <3> QED BY <2>3, <2>4, <3>7, <3>8
    <2> QED BY <2>5, <2>6
  <1>3. \A f \in FilterNames : IsMap(f, E \ {x}, map(f))
    BY <1>2 DEF IsMap
  <1> HIDE DEF map
  <1> QED BY <1>1, <1>3 DEF AreRecords

(* deleteRecord of one entry after the other.                              *)
AreDeletions(r, entries, k, f) ==
    f = [i \in 0..k |-> IF i = 0 THEN r ELSE DeleteRecord(f[i-1], entries[i])]

(* The sequence of deletions exists.                                       *)
LEMMA DeletionsExist ==
    ASSUME NEW r, NEW entries, NEW N \in Nat
    PROVE  \E f : AreDeletions(r, entries, N, f)
  <1> DEFINE T == {k \in 0..N : \E f : AreDeletions(r, entries, k, f)}
             Later(t, i) == DeleteRecord(t, entries[i])
  <1>1. \A k, f : AreDeletions(r, entries, k, f)
                     <=> f = [i \in 0..k |-> IF i = 0 THEN r ELSE Later(f[i-1], i)]
    BY Zenon DEF AreDeletions
  <1> HIDE DEF Later
  <1>2. 0 \in T
    <2> DEFINE f == [i \in 0..0 |-> r]
    <2>1. f = [i \in 0..0 |-> IF i = 0 THEN r ELSE Later(f[i-1], i)]
      OBVIOUS
    <2> HIDE DEF f
    <2>2. AreDeletions(r, entries, 0, f)
      BY <1>1, <2>1
    <2>3. 0 \in 0..N
      OBVIOUS
    <2> QED BY <2>2, <2>3
  <1>3. ASSUME NEW k \in 0..N-1, k \in T PROVE k + 1 \in T
    <2>1. PICK f : f = [i \in 0..k |-> IF i = 0 THEN r ELSE Later(f[i-1], i)]
      BY <1>1, <1>3
    <2> DEFINE h == [i \in 0..k+1 |-> IF i = k + 1 THEN Later(f[k], k + 1) ELSE f[i]]
    <2>2. ASSUME NEW i \in 0..k+1
          PROVE  h[i] = IF i = 0 THEN r ELSE Later(h[i-1], i)
      <3>1. CASE i = k + 1
        <4>1. h[i] = Later(f[k], i) /\ i # 0 /\ i - 1 = k
              /\ k \in 0..k+1 /\ k # k + 1
          BY <3>1
        <4>2. h[i-1] = f[k]
          BY <4>1
        <4> HIDE DEF h
        <4> QED BY <4>1, <4>2
      <3>2. CASE i # k + 1 /\ i # 0
        <4>1. i \in 0..k /\ i - 1 \in 0..k+1 /\ i - 1 # k + 1
          BY <3>2
        <4>2. h[i] = f[i] /\ h[i-1] = f[i-1]
          BY <3>2, <4>1
        <4>3. f[i] = Later(f[i-1], i)
          BY <2>1, <3>2, <4>1
        <4> HIDE DEF h
        <4> QED BY <3>2, <4>2, <4>3
      <3>3. CASE i = 0
        <4>1. h[i] = f[i] /\ i \in 0..k
          BY <3>3
        <4> HIDE DEF h
        <4> QED BY <2>1, <3>3, <4>1
      <3> QED BY <3>1, <3>2, <3>3
    <2>3. h = [i \in 0..k+1 |-> h[i]]
      OBVIOUS
    <2> HIDE DEF h
    <2>4. h = [i \in 0..k+1 |-> IF i = 0 THEN r ELSE Later(h[i-1], i)]
      BY <2>2, <2>3
    <2>5. k + 1 \in 0..N
      OBVIOUS
    <2> QED BY <1>1, <2>4, <2>5
  <1>4. 0..N \subseteq T
    <2> HIDE DEF T
    <2> QED BY <1>2, <1>3, UpTo
  <1> QED BY <1>4

(* Entries that are deleted one after the other are all forgotten.         *)
LEMMA DeleteRecordsIs ==
    ASSUME NEW E, HasIds(E), NEW r, AreRecords(E, r), NEW S, NEW xs \in Seq(S)
    PROVE  AreRecords(E \ {xs[i] : i \in 1..Len(xs)}, DeleteRecords(r, xs))
  <1> DEFINE N == Len(xs)
             f == CHOOSE h : AreDeletions(r, xs, N, h)
             left(k) == E \ {xs[i] : i \in 1..k}
             T == {k \in 0..N : AreRecords(left(k), f[k])}
  <1>1. N \in Nat
    OBVIOUS
  <1>2. AreDeletions(r, xs, N, f)
    BY <1>1, DeletionsExist
  <1>3. DeleteRecords(r, xs) = f[N]
    BY Zenon DEF DeleteRecords, AreDeletions
  <1> HIDE DEF f, N
  <1>4. f = [i \in 0..N |-> IF i = 0 THEN r ELSE DeleteRecord(f[i-1], xs[i])]
    BY <1>2 DEF AreDeletions
  <1>5. 0 \in T
    <2>1. f[0] = r /\ 0 \in 0..N
      BY <1>1, <1>4
    <2>2. left(0) = E
      OBVIOUS
    <2> HIDE DEF left
    <2> QED BY <2>1, <2>2
  <1>6. ASSUME NEW k \in 0..N-1, k \in T PROVE k + 1 \in T
    <2>1. k + 1 \in 1..N /\ k + 1 \in 0..N /\ k + 1 # 0 /\ (k + 1) - 1 = k
      BY <1>1
    <2>2. f[k+1] = DeleteRecord(f[k], xs[k+1])
      <3>1. f[k+1] = DeleteRecord(f[(k+1)-1], xs[k+1])
        BY <1>4, <2>1
      <3> QED BY <2>1, <3>1
    <2>3. HasIds(left(k))
      BY DEF HasIds
    <2>4. left(k) \ {xs[k+1]} = left(k+1)
      <3>1. \A i : i \in 1..k+1 <=> i \in 1..k \/ i = k + 1
        BY <1>1
      <3> QED BY <3>1
    <2>5. AreRecords(left(k), f[k])
      BY <1>6
    <2> HIDE DEF left
    <2>6. AreRecords(left(k+1), f[k+1])
      BY <2>2, <2>3, <2>4, <2>5, DeleteRecordIs
    <2> QED BY <2>1, <2>6
  <1>7. N \in T
    <2> HIDE DEF T
    <2>1. 0..N \subseteq T
      BY <1>1, <1>5, <1>6, UpTo
    <2> QED BY <1>1, <2>1
  <1> QED BY <1>3, <1>7 DEF N

-----------------------------------------------------------------------------
(* What the filters make of a new entry.                                   *)

(* An entry is recorded, unless it is dropped.                             *)
LEMMA RecordedIs ==
    ASSUME NEW f, NEW E, NEW e, \A x \in E : x.id # e.id,
           NEW map, IsMap(f, E, map), NEW key, key = KeyOf(f, e.node),
           NEW w, IsBucket(f, E, key, w.bucket)
    PROVE  IsMap(f, E \cup {e}, Recorded(map, key, e, w).map)
  <1> DEFINE S == E \cup {e}
             b == w.bucket
             c == IF w.drop THEN b ELSE Append(b, e)
  <1>1. Recorded(map, key, e, w).map = SetBucket(map, key, c)
    BY DEF Recorded, Filtered
  <1>2. IsMap(f, S, map) /\ IsBucket(f, S, key, b)
    BY MoreEntries
  <1>3. IsBucket(f, S, key, Append(b, e))
    <2>1. b \in Seq(E) /\ b \in Seq(S) /\ Len(b) \in Nat /\ e \in S
      BY <1>2 DEF IsBucket
    <2>2. ASSUME NEW i \in 1..Len(b)
          PROVE  b[i].id # e.id /\ KeyOf(f, b[i].node) = key
      BY <2>1 DEF IsBucket
    <2>3. \A i, j \in 1..Len(b) : b[i].id = b[j].id => i = j
      BY DEF IsBucket
    <2> HIDE DEF b, S
    <2> DEFINE d == Append(b, e)
    <2>4. /\ d \in Seq(S) /\ Len(d) = Len(b) + 1 /\ d[Len(b)+1] = e
          /\ \A i \in 1..Len(b) : d[i] = b[i]
      BY <2>1
    <2> HIDE DEF d
    <2>5. \A i \in 1..Len(d) : i \in 1..Len(b) \/ i = Len(b) + 1
      BY <2>1, <2>4
    <2>6. \A i \in 1..Len(d) : KeyOf(f, d[i].node) = key
      BY <2>2, <2>4, <2>5
    <2>7. \A i, j \in 1..Len(d) : d[i].id = d[j].id => i = j
      BY <2>2, <2>3, <2>4, <2>5
    <2> QED BY <2>4, <2>6, <2>7 DEF IsBucket, d
  <1> HIDE DEF b, S
  <1>4. IsBucket(f, S, key, c)
    BY <1>2, <1>3
  <1> HIDE DEF c
  <1>5. IsMap(f, S, SetBucket(map, key, c))
    BY <1>2, <1>4, SetBucketIs
  <1> QED BY <1>1, <1>5 DEF S

(* A walk through a bucket that has come to position i from behind.        *)
IsWalked(f, E, key, w, i) == IsBucket(f, E, key, w.bucket) /\ Len(w.bucket) >= i

(* HashFilter2 looks at one record and may remove it.                      *)
LEMMA VisitIs ==
    ASSUME NEW f, NEW E, HasIds(E), NEW key, NEW i \in Nat \ {0},
           NEW w, IsWalked(f, E, key, w, i), NEW e, NEW gates
    PROVE  IsWalked(f, E, key, Visit(w, i, e, gates), i - 1)
  <1> DEFINE b == w.bucket
             c == WithoutRecord(b, i)
             v == Compare(e, b[i], gates)
             m == Visit(w, i, e, gates)
  <1>1. IsBucket(f, E, key, b) /\ Len(b) \in Nat /\ Len(b) >= i /\ i \in 1..Len(b)
    BY DEF IsWalked, IsBucket
  <1>2. m = w \/ m.bucket = b \/ m.bucket = c
    BY DEF Visit, Judge, Walk
  <1>3. IsBucket(f, E \ {b[i]}, key, c) /\ Len(c) = Len(b) - 1
    BY <1>1, BucketWithout
  <1> HIDE DEF b, c, m
  <1>4. IsBucket(f, E, key, c) /\ Len(c) >= i - 1 /\ Len(b) >= i - 1
    BY <1>1, <1>3, MoreEntries
  <1>5. m.bucket = b \/ m.bucket = c
    BY <1>2 DEF b
  <1>6. IsWalked(f, E, key, m, i - 1)
    BY <1>1, <1>4, <1>5 DEF IsWalked
  <1> QED BY <1>6 DEF m

(* The walk of HashFilter2 through the n records of a bucket.              *)
AreVisits(w, n, e, gates, k, f) ==
    f = [i \in 0..k |-> IF i = 0 THEN w ELSE Visit(f[i-1], n - i + 1, e, gates)]

(* The sequence of visits exists.                                          *)
LEMMA VisitsExist ==
    ASSUME NEW w, NEW n, NEW e, NEW gates, NEW N \in Nat
    PROVE  \E f : AreVisits(w, n, e, gates, N, f)
  <1> DEFINE T == {k \in 0..N : \E f : AreVisits(w, n, e, gates, k, f)}
             Later(t, i) == Visit(t, n - i + 1, e, gates)
  <1>1. \A k, f : AreVisits(w, n, e, gates, k, f)
                     <=> f = [i \in 0..k |-> IF i = 0 THEN w ELSE Later(f[i-1], i)]
    BY Zenon DEF AreVisits
  <1> HIDE DEF Later
  <1>2. 0 \in T
    <2> DEFINE f == [i \in 0..0 |-> w]
    <2>1. f = [i \in 0..0 |-> IF i = 0 THEN w ELSE Later(f[i-1], i)]
      OBVIOUS
    <2> HIDE DEF f
    <2>2. AreVisits(w, n, e, gates, 0, f)
      BY <1>1, <2>1
    <2>3. 0 \in 0..N
      OBVIOUS
    <2> QED BY <2>2, <2>3
  <1>3. ASSUME NEW k \in 0..N-1, k \in T PROVE k + 1 \in T
    <2>1. PICK f : f = [i \in 0..k |-> IF i = 0 THEN w ELSE Later(f[i-1], i)]
      BY <1>1, <1>3
    <2> DEFINE h == [i \in 0..k+1 |-> IF i = k + 1 THEN Later(f[k], k + 1) ELSE f[i]]
    <2>2. ASSUME NEW i \in 0..k+1
          PROVE  h[i] = IF i = 0 THEN w ELSE Later(h[i-1], i)
      <3>1. CASE i = k + 1
        <4>1. h[i] = Later(f[k], i) /\ i # 0 /\ i - 1 = k
              /\ k \in 0..k+1 /\ k # k + 1
          BY <3>1
        <4>2. h[i-1] = f[k]
          BY <4>1
        <4> HIDE DEF h
        <4> QED BY <4>1, <4>2
      <3>2. CASE i # k + 1 /\ i # 0
        <4>1. i \in 0..k /\ i - 1 \in 0..k+1 /\ i - 1 # k + 1
          BY <3>2
        <4>2. h[i] = f[i] /\ h[i-1] = f[i-1]
          BY <3>2, <4>1
        <4>3. f[i] = Later(f[i-1], i)
          BY <2>1, <3>2, <4>1
        <4> HIDE DEF h
        <4> QED BY <3>2, <4>2, <4>3
      <3>3. CASE i = 0
        <4>1. h[i] = f[i] /\ i \in 0..k
          BY <3>3
        <4> HIDE DEF h
        <4> QED BY <2>1, <3>3, <4>1
      <3> QED BY <3>1, <3>2, <3>3
    <2>3. h = [i \in 0..k+1 |-> h[i]]
      OBVIOUS
    <2> HIDE DEF h
    <2>4. h = [i \in 0..k+1 |-> IF i = 0 THEN w ELSE Later(h[i-1], i)]
      BY <2>2, <2>3
    <2>5. k + 1 \in 0..N
      OBVIOUS
    <2> QED BY <1>1, <2>4, <2>5
  <1>4. 0..N \subseteq T
    <2> HIDE DEF T
    <2> QED BY <1>2, <1>3, UpTo
  <1> QED BY <1>4

(* HashFilter2 remembers no more than before, and the new entry.           *)
LEMMA FilterByProgressIs ==
    ASSUME NEW E, HasIds(E), NEW e, \A x \in E : x.id # e.id,
           NEW map, IsMap("HashFilter2", E, map), NEW dd, NEW gates
    PROVE  IsMap("HashFilter2", E \cup {e}, FilterByProgress(map, dd, e, gates).map)
  <1> DEFINE h2 == "HashFilter2"
             key == KeyOf(h2, e.node)
             b == Bucket(map, key)
             N == Len(b)
             w == Walk(b, dd, FALSE, TRUE)
             f == CHOOSE h : AreVisits(w, N, e, gates, N, h)
             T == {k \in 0..N : IsWalked(h2, E, key, f[k], N - k)}
  <1>1. IsBucket(h2, E, key, b)
    BY BucketIs
  <1>2. N \in Nat
    BY <1>1 DEF IsBucket
  <1>3. AreVisits(w, N, e, gates, N, f)
    <2> HIDE DEF w, N
    <2> QED BY <1>2, VisitsExist
  <1>4. FilterByProgress(map, dd, e, gates) = Recorded(map, key, e, f[N])
    BY Zenon DEF FilterByProgress, AreVisits
  <1>5. w.bucket = b
    BY DEF Walk
  <1> HIDE DEF f, w
  <1>6. f = [i \in 0..N |-> IF i = 0 THEN w ELSE Visit(f[i-1], N - i + 1, e, gates)]
    BY <1>3, Zenon DEF AreVisits
  <1> HIDE DEF N
  <1>7. 0 \in T
    <2>1. f[0] = w /\ 0 \in 0..N
      BY <1>2, <1>6
    <2>2. N >= N - 0
      BY <1>2
    <2> HIDE DEF key, b
    <2>3. IsWalked(h2, E, key, w, N - 0)
      BY <1>1, <1>5, <2>2 DEF IsWalked, N
    <2> QED BY <2>1, <2>3
  <1>8. ASSUME NEW k \in 0..N-1, k \in T PROVE k + 1 \in T
    <2>1. /\ k + 1 \in 1..N /\ k + 1 \in 0..N /\ k + 1 # 0 /\ (k + 1) - 1 = k
          /\ N - k \in Nat \ {0} /\ N - (k + 1) + 1 = N - k /\ (N - k) - 1 = N - (k + 1)
      BY <1>2
    <2>2. f[k+1] = Visit(f[k], N - k, e, gates)
      <3>1. f[k+1] = Visit(f[(k+1)-1], N - (k+1) + 1, e, gates)
        BY <1>6, <2>1
      <3> QED BY <2>1, <3>1
    <2>3. IsWalked(h2, E, key, f[k], N - k)
      BY <1>8
    <2> HIDE DEF key
    <2>4. IsWalked(h2, E, key, f[k+1], (N - k) - 1)
      BY <2>1, <2>2, <2>3, VisitIs
    <2> QED BY <2>1, <2>4
  <1>9. N \in T
    <2> HIDE DEF T
    <2>1. 0..N \subseteq T
      BY <1>2, <1>7, <1>8, UpTo
    <2> QED BY <1>2, <2>1
  <1>10. IsBucket(h2, E, key, f[N].bucket)
    BY <1>9 DEF IsWalked
  <1> HIDE DEF b
  <1>11. IsMap(h2, E \cup {e}, Recorded(map, key, e, f[N]).map)
    BY <1>10, RecordedIs
  <1> QED BY <1>4, <1>11

(* So does HashFilter.                                                     *)
LEMMA FilterByEndsIs ==
    ASSUME NEW E, NEW e, \A x \in E : x.id # e.id,
           NEW map, IsMap("HashFilter", E, map), NEW dd
    PROVE  IsMap("HashFilter", E \cup {e}, FilterByEnds(map, dd, e).map)
  <1> DEFINE key == KeyOf("HashFilter", e.node)
             b == Bucket(map, key)
             w == Walk(b, dd, \E i \in DOMAIN b : IsNoBetter(e.node, b[i].node), TRUE)
  <1>1. FilterByEnds(map, dd, e) = Recorded(map, key, e, w)
    BY Zenon DEF FilterByEnds
  <1>2. w.bucket = b
    BY DEF Walk
  <1>3. IsBucket("HashFilter", E, key, b)
    BY BucketIs
  <1> HIDE DEF w, b
  <1>4. IsMap("HashFilter", E \cup {e}, Recorded(map, key, e, w).map)
    BY <1>2, <1>3, RecordedIs
  <1> QED BY <1>1, <1>4

(* The state of Environment::filter after some filters have been asked.    *)
IsAsked(E, e, asked, s) ==
    /\ s = Filtered(s.map, s.dead, s.drop, s.holds)
    /\ s.map = [f \in FilterNames |-> s.map[f]]
    /\ \A f \in FilterNames : IsMap(f, IF f \in asked THEN E \cup {e} ELSE E, s.map[f])

(* Asking the next filter, unless the entry has been dropped.              *)
LEMMA AskNextIs ==
    ASSUME NEW E, HasIds(E), NEW e, \A x \in E : x.id # e.id,
           NEW asked, NEW s, IsAsked(E, e, asked, s),
           NEW filter \in FilterNames \ asked, NEW gates
    PROVE  IsAsked(E, e, asked \cup {filter}, AskNext(filter, s, e, gates))
  <1> DEFINE S == E \cup {e}
             more == asked \cup {filter}
             r == Ask(filter, s, e, gates)
             map == [s.map EXCEPT ![filter] = r.map]
             t == After(filter, s, r)
  <1>1. /\ s.map = [f \in FilterNames |-> s.map[f]]
        /\ \A f \in FilterNames : IsMap(f, IF f \in asked THEN S ELSE E, s.map[f])
    BY DEF IsAsked
  <1>2. CASE s.drop
    <2>1. AskNext(filter, s, e, gates) = s
      BY <1>2 DEF AskNext
    <2>2. \A f \in FilterNames : IsMap(f, IF f \in more THEN S ELSE E, s.map[f])
      <3>1. E \subseteq S
        OBVIOUS
      <3>2. \A f, m : IsMap(f, E, m) => IsMap(f, S, m)
        BY <3>1, MoreEntries
      <3> HIDE DEF S
      <3> QED BY <1>1, <3>2
    <2> QED BY <1>1, <2>1, <2>2 DEF IsAsked
  <1>3. CASE ~s.drop
    <2>1. AskNext(filter, s, e, gates) = t
      BY <1>3 DEF AskNext
    <2>2. IsMap(filter, E, s.map[filter])
      BY <1>1
    <2>3. IsMap(filter, S, r.map)
      <3>1. CASE filter = "HashFilter"
        <4>1. r = FilterByEnds(s.map[filter], s.dead, e)
          BY <3>1 DEF Ask
        <4> QED BY <2>2, <3>1, <4>1, FilterByEndsIs
      <3>2. CASE filter = "HashFilter2"
        <4>1. r = FilterByProgress(s.map[filter], s.dead, e, gates)
          BY <3>2 DEF Ask
        <4> QED BY <2>2, <3>2, <4>1, FilterByProgressIs
      <3> QED BY <3>1, <3>2 DEF FilterNames
    <2>4. t.map = map /\ t = Filtered(t.map, t.dead, t.drop, t.holds)
      <3> HIDE DEF map
      <3>1. t = Filtered(map, r.dead, r.drop, s.holds /\ r.holds)
        BY DEF After, map
      <3> DEFINE h == s.holds /\ r.holds
      <3>2. t = Filtered(map, r.dead, r.drop, h)
        BY <3>1
      <3> HIDE DEF h, t, r
      <3>3. t.map = map /\ t.dead = r.dead /\ t.drop = r.drop /\ t.holds = h
        BY <3>2 DEF Filtered
      <3> QED BY <3>2, <3>3
    <2> HIDE DEF r, t
    <2>5. /\ map = [f \in FilterNames |-> map[f]]
          /\ \A f \in FilterNames : map[f] = IF f = filter THEN r.map ELSE s.map[f]
      BY <1>1
    <2> HIDE DEF map, S
    <2>6. \A f \in FilterNames : IsMap(f, IF f \in more THEN S ELSE E, map[f])
      BY <1>1, <2>3, <2>5
    <2>7. IsAsked(E, e, more, t)
      BY <2>4, <2>5, <2>6 DEF IsAsked, S
    <2> QED BY <2>1, <2>7
  <1> QED BY <1>2, <1>3

AreAnswers(s, filters, e, gates, k, f) ==
    f = [i \in 0..k |-> IF i = 0 THEN s ELSE AskNext(filters[i], f[i-1], e, gates)]

(* The filters' answers exist.                                             *)
LEMMA AnswersExist ==
    ASSUME NEW s, NEW filters, NEW e, NEW gates, NEW N \in Nat
    PROVE  \E f : AreAnswers(s, filters, e, gates, N, f)
  <1> DEFINE T == {k \in 0..N : \E f : AreAnswers(s, filters, e, gates, k, f)}
             Later(t, i) == AskNext(filters[i], t, e, gates)
  <1>1. \A k, f : AreAnswers(s, filters, e, gates, k, f)
                     <=> f = [i \in 0..k |-> IF i = 0 THEN s ELSE Later(f[i-1], i)]
    BY Zenon DEF AreAnswers
  <1> HIDE DEF Later
  <1>2. 0 \in T
    <2> DEFINE f == [i \in 0..0 |-> s]
    <2>1. f = [i \in 0..0 |-> IF i = 0 THEN s ELSE Later(f[i-1], i)]
      OBVIOUS
    <2> HIDE DEF f
    <2>2. AreAnswers(s, filters, e, gates, 0, f)
      BY <1>1, <2>1
    <2>3. 0 \in 0..N
      OBVIOUS
    <2> QED BY <2>2, <2>3
  <1>3. ASSUME NEW k \in 0..N-1, k \in T PROVE k + 1 \in T
    <2>1. PICK f : f = [i \in 0..k |-> IF i = 0 THEN s ELSE Later(f[i-1], i)]
      BY <1>1, <1>3
    <2> DEFINE h == [i \in 0..k+1 |-> IF i = k + 1 THEN Later(f[k], k + 1) ELSE f[i]]
    <2>2. ASSUME NEW i \in 0..k+1
          PROVE  h[i] = IF i = 0 THEN s ELSE Later(h[i-1], i)
      <3>1. CASE i = k + 1
        <4>1. h[i] = Later(f[k], i) /\ i # 0 /\ i - 1 = k
              /\ k \in 0..k+1 /\ k # k + 1
          BY <3>1
        <4>2. h[i-1] = f[k]
          BY <4>1
        <4> HIDE DEF h
        <4> QED BY <4>1, <4>2
      <3>2. CASE i # k + 1 /\ i # 0
        <4>1. i \in 0..k /\ i - 1 \in 0..k+1 /\ i - 1 # k + 1
          BY <3>2
        <4>2. h[i] = f[i] /\ h[i-1] = f[i-1]
          BY <3>2, <4>1
        <4>3. f[i] = Later(f[i-1], i)
          BY <2>1, <3>2, <4>1
        <4> HIDE DEF h
        <4> QED BY <3>2, <4>2, <4>3
      <3>3. CASE i = 0
        <4>1. h[i] = f[i] /\ i \in 0..k
          BY <3>3
        <4> HIDE DEF h
        <4> QED BY <2>1, <3>3, <4>1
      <3> QED BY <3>1, <3>2, <3>3
    <2>3. h = [i \in 0..k+1 |-> h[i]]
      OBVIOUS
    <2> HIDE DEF h
    <2>4. h = [i \in 0..k+1 |-> IF i = 0 THEN s ELSE Later(h[i-1], i)]
      BY <2>2, <2>3
    <2>5. k + 1 \in 0..N
      OBVIOUS
    <2> QED BY <1>1, <2>4, <2>5
  <1>4. 0..N \subseteq T
    <2> HIDE DEF T
    <2> QED BY <1>2, <1>3, UpTo
  <1> QED BY <1>4

(* Entry e is remembered by the filters unless one of them has dropped it. *)
LEMMA FilterEntryIs ==
    ASSUME NEW E, NEW e, HasIds(E \cup {e}), \A x \in E : x.id # e.id,
           NEW r, AreRecords(E, r), NEW dd, NEW gates,
           NEW filters \in Seq(FilterNames), IsInjective(filters),
           NEW g, g = FilterEntry(r, dd, filters, e, gates)
    PROVE  AreRecords(IF g.drop THEN E ELSE E \cup {e}, g.map)
  <1> DEFINE S == E \cup {e}
             N == Len(filters)
             s == Filtered(r, dd, FALSE, TRUE)
             f == CHOOSE h : AreAnswers(s, filters, e, gates, N, h)
             asked(k) == {filters[i] : i \in 1..k}
             T == {k \in 0..N : IsAsked(E, e, asked(k), f[k])}
  <1>1. /\ N \in Nat /\ DOMAIN filters = 1..N
        /\ \A i \in 1..N : filters[i] \in FilterNames
        /\ \A i, j \in 1..N : filters[i] = filters[j] => i = j
    BY DEF IsInjective
  <1>2. AreAnswers(s, filters, e, gates, N, f)
    <2> HIDE DEF s
    <2> QED BY <1>1, AnswersExist
  <1>3. g = Forgotten(f[N], e)
    BY Zenon DEF FilterEntry, AreAnswers
  <1>4. IsAsked(E, e, {}, s)
    <2>1. s.map = r /\ s = Filtered(s.map, s.dead, s.drop, s.holds)
      BY DEF Filtered
    <2> HIDE DEF s
    <2> QED BY <2>1 DEF IsAsked, AreRecords
  <1> HIDE DEF f, s, N
  <1>5. f = [i \in 0..N |-> IF i = 0 THEN s ELSE AskNext(filters[i], f[i-1], e, gates)]
    BY <1>2, Zenon DEF AreAnswers
  <1>6. 0 \in T
    <2>1. f[0] = s /\ 0 \in 0..N
      BY <1>1, <1>5
    <2>2. asked(0) = {}
      OBVIOUS
    <2> HIDE DEF asked
    <2> QED BY <1>4, <2>1, <2>2
  <1>7. ASSUME NEW k \in 0..N-1, k \in T PROVE k + 1 \in T
    <2>1. k + 1 \in 1..N /\ k + 1 \in 0..N /\ k + 1 # 0 /\ (k + 1) - 1 = k
      BY <1>1
    <2>2. f[k+1] = AskNext(filters[k+1], f[k], e, gates)
      <3>1. f[k+1] = AskNext(filters[k+1], f[(k+1)-1], e, gates)
        BY <1>5, <2>1
      <3> QED BY <2>1, <3>1
    <2>3. filters[k+1] \in FilterNames \ asked(k)
      <3>1. \A i \in 1..k : i \in 1..N /\ i # k + 1
        BY <1>1
      <3> QED BY <1>1, <2>1, <3>1
    <2>4. asked(k) \cup {filters[k+1]} = asked(k+1)
      <3>1. \A i : i \in 1..k+1 <=> i \in 1..k \/ i = k + 1
        BY <1>1
      <3> QED BY <3>1
    <2>5. IsAsked(E, e, asked(k), f[k])
      BY <1>7
    <2>6. HasIds(E)
      BY DEF HasIds
    <2> HIDE DEF asked
    <2>7. IsAsked(E, e, asked(k+1), f[k+1])
      BY <2>2, <2>3, <2>4, <2>5, <2>6, AskNextIs
    <2> QED BY <2>1, <2>7
  <1>8. N \in T
    <2> HIDE DEF T
    <2>1. 0..N \subseteq T
      BY <1>1, <1>6, <1>7, UpTo
    <2> QED BY <1>1, <2>1
  <1> DEFINE t == f[N]
  <1>9. t = Filtered(t.map, t.dead, t.drop, t.holds) /\ AreRecords(S, t.map)
    <2>1. /\ t = Filtered(t.map, t.dead, t.drop, t.holds)
          /\ t.map = [n \in FilterNames |-> t.map[n]]
          /\ \A n \in FilterNames : IsMap(n, IF n \in asked(N) THEN S ELSE E, t.map[n])
      BY <1>8 DEF IsAsked
    <2>2. \A n, m : IsMap(n, E, m) => IsMap(n, S, m)
      <3>1. E \subseteq S
        OBVIOUS
      <3> QED BY <3>1, MoreEntries
    <2> HIDE DEF t, S, asked
    <2>3. \A n \in FilterNames : IsMap(n, S, t.map[n])
      BY <2>1, <2>2
    <2> QED BY <2>1, <2>3 DEF AreRecords
  <1> HIDE DEF t
  <1>10. CASE t.drop
    <2> DEFINE d == DeleteRecord(t.map, e)
    <2>1. AreRecords(S \ {e}, d)
      BY <1>9, DeleteRecordIs
    <2>2. S \ {e} \subseteq E
      OBVIOUS
    <2> HIDE DEF d, S
    <2>3. AreRecords(E, d)
      BY <2>1, <2>2, MoreEntries
    <2>4. g = [t EXCEPT !.map = d]
      BY <1>3, <1>10 DEF Forgotten, t, d
    <2>5. g.map = d /\ g.drop = t.drop
      BY <1>9, <2>4 DEF Filtered
    <2> QED BY <1>10, <2>3, <2>5
  <1>11. CASE ~t.drop
    <2>1. g = t
      BY <1>3, <1>11 DEF Forgotten, t
    <2> QED BY <1>9, <1>11, <2>1
  <1> QED BY <1>10, <1>11

-----------------------------------------------------------------------------
(* The filters and the queue.                                              *)

(* The elements of a sequence.                                             *)
MembersOf(q) == {q[i] : i \in DOMAIN q}

(* All entries that are remembered are in the queue or in O.               *)
LiveStore(O, s) ==
    /\ s = Store(s.queue, s.records, s.dead, s.pushed, s.holds)
    /\ s.pushed \in Nat
    /\ s.queue \in Seq(MembersOf(s.queue))
    /\ HasIds(MembersOf(s.queue) \cup O)
    /\ \A x \in MembersOf(s.queue) \cup O : x.id \in 1..s.pushed
    /\ AreRecords(MembersOf(s.queue) \cup O, s.records)

(* Such a state, built from its parts.                                     *)
LEMMA LiveStoreIs ==
    ASSUME NEW O, NEW q, NEW r, NEW d, NEW p, NEW h,
           p \in Nat, NEW S, q \in Seq(S), HasIds(MembersOf(q) \cup O),
           \A x \in MembersOf(q) \cup O : x.id \in 1..p,
           AreRecords(MembersOf(q) \cup O, r)
    PROVE  LiveStore(O, Store(q, r, d, p, h))
  <1> DEFINE s == Store(q, r, d, p, h)
             M == MembersOf(q)
  <1>1. s.queue = q /\ s.records = r /\ s.dead = d /\ s.pushed = p /\ s.holds = h
    BY DEF Store
  <1>2. s = Store(q, r, d, p, h)
    OBVIOUS
  <1> HIDE DEF s
  <1>3. q \in Seq(M)
    <2>1. \A i \in 1..Len(q) : q[i] \in M
      BY DEF MembersOf
    <2> HIDE DEF M
    <2> QED BY <2>1, SeqOver
  <1>4. LiveStore(O, s)
    BY <1>1, <1>2, <1>3 DEF LiveStore
  <1> QED BY <1>4 DEF s

(* The part of a sequence from a position on.                              *)
LEMMA RestOf ==
    ASSUME NEW S, NEW q \in Seq(S), NEW k \in Nat, k <= Len(q)
    PROVE  SubSeq(q, k + 1, Len(q)) \in Seq(S)
  <1>1. Len(q) \in Nat /\ k + 1 \in 1..Len(q)+1
    OBVIOUS
  <1> QED BY <1>1, SubSeqProperties

(* A list has as many elements as its set.                                 *)
LEMMA ListedOver ==
    ASSUME NEW s, NEW r, NEW n, Cardinality(s) = n, NEW l, l = Listed(s, r)
    PROVE  l = [i \in 1..n |-> l[i]]
  <1> DEFINE At(i) == CHOOSE x \in s : Cardinality({y \in s : <<y, x>> \in r}) = i - 1
  <1>1. Listed(s, r) = [i \in 1..Cardinality(s) |-> At(i)]
    BY Zenon DEF Listed
  <1> HIDE DEF At
  <1>2. l = [i \in 1..n |-> At(i)]
    BY <1>1
  <1> QED BY <1>2

(* What is trimmed from the queue is forgotten by the filters.             *)
LEMMA TrimIsLive ==
    ASSUME config \in Configurations, NEW O, NEW s, LiveStore(O, s)
    PROVE  LiveStore(O, Trim(s))
  <1> DEFINE q == s.queue
             D == DOMAIN q
             order == Listed(D, {p \in D \X D : MoreProgress(q[p[1]], q[p[2]])})
             slow == SubSeq(order, config.targetSize + 1, Len(order))
             xs == [i \in DOMAIN slow |-> q[slow[i]]]
             gone == {xs[i] : i \in 1..Len(xs)}
             at == D \ Range(slow)
             p == Picked(q, at)
             r == DeleteRecords(s.records, xs)
             E == MembersOf(q) \cup O
  <1>1. Trim(s) = IF config.maxSize = 0 \/ Len(q) <= config.maxSize THEN s
                  ELSE [s EXCEPT !.queue = p, !.records = r]
    BY Zenon DEF Trim, Mapped
  <1>2. CASE config.maxSize = 0 \/ Len(q) <= config.maxSize
    BY <1>1, <1>2
  <1>3. CASE ~(config.maxSize = 0 \/ Len(q) <= config.maxSize)
    <2>1. /\ q \in Seq(MembersOf(q)) /\ HasIds(E) /\ AreRecords(E, s.records)
          /\ \A x \in E : x.id \in 1..s.pushed
          /\ s.pushed \in Nat
          /\ s = Store(q, s.records, s.dead, s.pushed, s.holds)
      BY DEF LiveStore
    <2>2. Len(q) \in Nat /\ DOMAIN q = 1..Len(q)
      BY <2>1
    <2>3. /\ config.targetSize \in Nat /\ config.maxSize \in Nat
          /\ config.targetSize < Len(q)
      <3>1. config \in ConfigurationFields /\ config.maxSize > config.targetSize
        BY <1>3, SearchAssumption
      <3>2. config.targetSize \in Nat /\ config.maxSize \in Nat
        BY <3>1 DEF ConfigurationFields
      <3> QED BY <1>3, <2>2, <3>1, <3>2
    <2>4. slow \in Seq({order[i] : i \in 1..Len(q)})
      <3>1. Cardinality(D) = Len(q)
        <4>1. D = 1..Len(q) /\ 1 \in Int /\ Len(q) \in Int
          BY <2>2
        <4> QED BY <2>2, <4>1, FS_Interval
      <3>2. order = [i \in 1..Len(q) |-> order[i]]
        <4> DEFINE R == {o \in D \X D : MoreProgress(q[o[1]], q[o[2]])}
        <4>1. order = Listed(D, R)
          OBVIOUS
        <4> HIDE DEF order, D, R, q
        <4> QED BY <3>1, <4>1, ListedOver
      <3> DEFINE S == {order[i] : i \in 1..Len(q)}
      <3>3. order \in [1..Len(q) -> S]
        <4> HIDE DEF order
        <4> QED BY <3>2
      <3> HIDE DEF order, S
      <3>4. order \in Seq(S) /\ Len(order) = Len(q)
        BY <2>2, <3>3
      <3> QED BY <2>3, <3>4, RestOf DEF S
    <2> HIDE DEF slow, q
    <2>5. /\ DOMAIN slow = 1..Len(slow)
          /\ xs \in Seq({xs[i] : i \in 1..Len(slow)}) /\ Len(xs) = Len(slow)
      <3>1. DOMAIN slow = 1..Len(slow) /\ Len(slow) \in Nat
        BY <2>4
      <3> DEFINE S == {xs[i] : i \in 1..Len(slow)}
      <3>2. xs \in [1..Len(slow) -> S]
        BY <3>1
      <3> HIDE DEF xs, S
      <3> QED BY <3>1, <3>2 DEF S
    <2>6. AreRecords(E \ gone, r)
      <3> HIDE DEF E, xs
      <3> QED BY <2>1, <2>5, DeleteRecordsIs
    <2>7. p \in Seq(MembersOf(q)) /\ at \in SUBSET DOMAIN q
      <3>1. at \in SUBSET DOMAIN q
        OBVIOUS
      <3> HIDE DEF at
      <3> QED BY <2>1, <3>1, PickedIs
    <2>8. E \ gone \subseteq MembersOf(p) \cup O
      <3> SUFFICES ASSUME NEW i \in DOMAIN q, q[i] \notin gone
                   PROVE  q[i] \in MembersOf(p)
        BY DEF MembersOf
      <3>1. i \in at
        <4>1. \A j \in 1..Len(slow) : xs[j] = q[slow[j]] /\ xs[j] \in gone
          BY <2>5
        <4> HIDE DEF xs, gone
        <4> QED BY <2>5, <4>1 DEF Range
      <3> HIDE DEF at
      <3>2. \E j \in DOMAIN p : p[j] = q[i]
        BY <2>1, <2>7, <3>1, PickedAll
      <3> HIDE DEF p
      <3> QED BY <3>2 DEF MembersOf
    <2>9. MembersOf(p) \cup O \subseteq E
      <3> HIDE DEF p
      <3>1. \A i \in DOMAIN p : p[i] \in MembersOf(q)
        BY <2>7
      <3> QED BY <3>1 DEF MembersOf
    <2> HIDE DEF p, r, E, gone
    <2>10. HasIds(MembersOf(p) \cup O) /\ \A x \in MembersOf(p) \cup O : x.id \in 1..s.pushed
      BY <2>1, <2>9 DEF HasIds
    <2>11. AreRecords(MembersOf(p) \cup O, r)
      BY <2>6, <2>8, MoreEntries
    <2>12. LiveStore(O, Store(p, r, s.dead, s.pushed, s.holds))
      BY <2>1, <2>7, <2>10, <2>11, LiveStoreIs
    <2>13. [s EXCEPT !.queue = p, !.records = r] = Store(p, r, s.dead, s.pushed, s.holds)
      <3> DEFINE b == s.records
                 d == s.dead
                 n == s.pushed
                 h == s.holds
      <3>1. s = Store(q, b, d, n, h)
        BY <2>1
      <3> HIDE DEF b, d, n, h
      <3>2. [s EXCEPT !.queue = p] = Store(p, b, d, n, h)
        BY <3>1 DEF Store
      <3>3. [Store(p, b, d, n, h) EXCEPT !.records = r] = Store(p, r, d, n, h)
        BY DEF Store
      <3>4. [s EXCEPT !.queue = p, !.records = r] = [[s EXCEPT !.queue = p] EXCEPT !.records = r]
        BY <3>1 DEF Store
      <3>5. [s EXCEPT !.queue = p, !.records = r] = Store(p, r, d, n, h)
        BY <3>2, <3>3, <3>4
      <3> QED BY <3>5 DEF d, n, h
    <2> QED BY <1>1, <1>3, <2>12, <2>13
  <1> QED BY <1>2, <1>3

(* A new entry is remembered only if it is put into the queue.             *)
LEMMA PushIsLive ==
    ASSUME config \in Configurations, NEW O, NEW s, LiveStore(O, s),
           NEW new, new.id = s.pushed + 1
    PROVE  LiveStore(O, Push(s, new))
  <1> DEFINE f == FilterEntry(s.records, s.dead, config.filters, new, env.gates)
             q == IF f.drop THEN s.queue ELSE Append(s.queue, new)
             h == s.holds /\ f.holds
             t == Store(q, f.map, f.dead, new.id, h)
             M == MembersOf(s.queue)
             E == M \cup O
  <1>1. Push(s, new) = Trim(t)
    BY DEF Push, PushUnlessDropped
  <1>2. /\ s.pushed \in Nat /\ s.queue \in Seq(M)
        /\ HasIds(E) /\ \A x \in E : x.id \in 1..s.pushed
        /\ AreRecords(E, s.records)
    BY DEF LiveStore
  <1>3. config.filters \in Seq(FilterNames) /\ IsInjective(config.filters)
    <2>1. config \in ConfigurationFields
      BY SearchAssumption
    <2> QED BY <2>1, SearchAssumption DEF ConfigurationFields
  <1>4. (\A x \in E : x.id # new.id) /\ HasIds(E \cup {new})
        /\ \A x \in E \cup {new} : x.id \in 1..new.id
    <2> HIDE DEF E
    <2>1. \A x \in E : x.id # new.id /\ x.id \in 1..new.id
      BY <1>2
    <2>2. new.id \in 1..new.id
      BY <1>2
    <2> QED BY <1>2, <2>1, <2>2 DEF HasIds
  <1>5. AreRecords(IF f.drop THEN E ELSE E \cup {new}, f.map)
    <2> HIDE DEF E, f
    <2>1. f = FilterEntry(s.records, s.dead, config.filters, new, env.gates)
      BY DEF f
    <2> QED BY <1>2, <1>3, <1>4, <2>1, FilterEntryIs
  <1> HIDE DEF f
  <1>6. q \in Seq(M \cup {new})
    <2>1. \A i \in 1..Len(s.queue) : s.queue[i] \in M \cup {new}
      BY <1>2
    <2> DEFINE S == M \cup {new}
    <2>2. new \in S
      OBVIOUS
    <2> HIDE DEF M, S
    <2>3. s.queue \in Seq(S)
      BY <1>2, <2>1, SeqOver DEF S
    <2>4. Append(s.queue, new) \in Seq(S)
      BY <2>2, <2>3
    <2> QED BY <2>3, <2>4 DEF S
  <1>7. MembersOf(q) = IF f.drop THEN M ELSE M \cup {new}
    <2>1. CASE f.drop
      BY <2>1
    <2>2. CASE ~f.drop
      <3> DEFINE k == Len(s.queue)
                 a == Append(s.queue, new)
      <3>1. k \in Nat /\ DOMAIN s.queue = 1..k
        BY <1>2
      <3>2. DOMAIN a = 1..k+1 /\ a[k+1] = new /\ \A i \in 1..k : a[i] = s.queue[i]
        BY <1>2, <3>1
      <3>3. q = a
        BY <2>2
      <3> HIDE DEF k, a
      <3>4. \A i : i \in 1..k+1 <=> i \in 1..k \/ i = k + 1
        BY <3>1
      <3>5. MembersOf(a) = M \cup {new}
        BY <3>1, <3>2, <3>4 DEF MembersOf
      <3> QED BY <2>2, <3>3, <3>5
    <2> QED BY <2>1, <2>2
  <1>8. MembersOf(q) \cup O = IF f.drop THEN E ELSE E \cup {new}
    BY <1>7
  <1> HIDE DEF q, E, M, h
  <1>9. HasIds(MembersOf(q) \cup O) /\ \A x \in MembersOf(q) \cup O : x.id \in 1..new.id
    BY <1>2, <1>4, <1>8 DEF HasIds
  <1>10. AreRecords(MembersOf(q) \cup O, f.map)
    BY <1>5, <1>8
  <1>11. new.id \in Nat
    BY <1>2
  <1>12. LiveStore(O, t)
    BY <1>6, <1>9, <1>10, <1>11, LiveStoreIs
  <1> HIDE DEF t
  <1> QED BY <1>1, <1>12, TrimIsLive

(* Pushing children, one after the other, keeps the records live.          *)
LEMMA PushAllIsLive ==
    ASSUME config \in Configurations, NEW O, NEW s, LiveStore(O, s), NEW x,
           NEW S, NEW children \in Seq(S)
    PROVE  LiveStore(O, PushAll(s, x, children))
  <1> DEFINE N == Len(children)
             f == CHOOSE h : ArePushes(s, x, children, N, h)
             T == {k \in 0..N : LiveStore(O, f[k])}
  <1>1. N \in Nat
    OBVIOUS
  <1>2. ArePushes(s, x, children, N, f)
    BY <1>1, PushesExist
  <1>3. PushAll(s, x, children) = f[N]
    BY Zenon DEF PushAll, ArePushes, PushNext
  <1> HIDE DEF f, N
  <1>4. f = [i \in 0..N |-> IF i = 0 THEN s ELSE PushNext(x, children, f[i-1], i)]
    BY <1>2 DEF ArePushes
  <1>5. 0 \in T
    <2>1. f[0] = s /\ 0 \in 0..N
      BY <1>1, <1>4
    <2> QED BY <2>1
  <1>6. ASSUME NEW k \in 0..N-1, k \in T PROVE k + 1 \in T
    <2>1. k + 1 \in 1..N /\ k + 1 \in 0..N /\ k + 1 # 0 /\ (k + 1) - 1 = k
      BY <1>1
    <2> DEFINE t == f[k]
               new == NewEntry(x, children[k+1], t.pushed + 1)
    <2>2. f[k+1] = Push(t, new)
      <3>1. f[k+1] = PushNext(x, children, f[(k+1)-1], k + 1)
        BY <1>4, <2>1
      <3> QED BY <2>1, <3>1 DEF PushNext
    <2>3. new.id = t.pushed + 1
      BY DEF NewEntry
    <2>4. LiveStore(O, t)
      BY <1>6
    <2> HIDE DEF t, new
    <2>5. LiveStore(O, Push(t, new))
      BY <2>3, <2>4, PushIsLive
    <2> QED BY <2>1, <2>2, <2>5
  <1>7. N \in T
    <2> HIDE DEF T
    <2>1. 0..N \subseteq T
      BY <1>1, <1>5, <1>6, UpTo
    <2> QED BY <1>1, <2>1
  <1> QED BY <1>3, <1>7

-----------------------------------------------------------------------------
(* The invariant of the records.                                           *)

(* All entries that are remembered are in queue q or in O, n have been     *)
(* pushed.                                                                 *)
IsLive(q, O, n, r) ==
    /\ q \in Seq(MembersOf(q))
    /\ n \in Nat
    /\ HasIds(MembersOf(q) \cup O)
    /\ \A x \in MembersOf(q) \cup O : x.id \in 1..n
    /\ AreRecords(MembersOf(q) \cup O, r)

RecordInv ==
    /\ config \in Configurations
    /\ config.retainPopped > 0 =>
          /\ oldNodes \in Seq(MembersOf(oldNodes))
          /\ IsLive(queue, MembersOf(oldNodes), pushed, records)

(* A sequence is one over its members.                                     *)
LEMMA SeqOfMembers ==
    ASSUME NEW S, NEW q \in Seq(S)
    PROVE  q \in Seq(MembersOf(q))
  <1> DEFINE M == MembersOf(q)
  <1>1. \A i \in 1..Len(q) : q[i] \in M
    BY DEF MembersOf
  <1> HIDE DEF M
  <1>2. q \in Seq(M)
    BY <1>1, SeqOver
  <1> QED BY <1>2 DEF M

(* One element more.                                                       *)
LEMMA OneMore ==
    ASSUME NEW S, NEW q \in Seq(S), NEW x, NEW a, a = Append(q, x)
    PROVE  a \in Seq(MembersOf(a)) /\ MembersOf(a) = MembersOf(q) \cup {x}
  <1> DEFINE k == Len(q)
             T == S \cup {x}
  <1>1. k \in Nat /\ DOMAIN q = 1..k
    OBVIOUS
  <1>2. DOMAIN a = 1..k+1 /\ a[k+1] = x /\ \A i \in 1..k : a[i] = q[i]
    BY <1>1
  <1>3. q \in Seq(T) /\ x \in T
    <2>1. \A i \in 1..Len(q) : q[i] \in T
      OBVIOUS
    <2> HIDE DEF T
    <2> QED BY <2>1, SeqOver DEF T
  <1> HIDE DEF T
  <1>4. a \in Seq(T)
    BY <1>3
  <1> HIDE DEF k
  <1>5. \A i : i \in 1..k+1 <=> i \in 1..k \/ i = k + 1
    BY <1>1
  <1>6. MembersOf(a) = MembersOf(q) \cup {x}
    BY <1>1, <1>2, <1>5 DEF MembersOf
  <1> QED BY <1>4, <1>6, SeqOfMembers

(* One element less.                                                       *)
LEMMA OneLess ==
    ASSUME NEW S, NEW q \in Seq(S), NEW i \in DOMAIN q, NEW a, a = RemoveAt(q, i)
    PROVE  /\ a \in Seq(MembersOf(a))
           /\ MembersOf(a) \subseteq MembersOf(q)
           /\ MembersOf(q) \subseteq MembersOf(a) \cup {q[i]}
  <1> DEFINE k == Len(q)
             b == SubSeq(q, 1, i-1)
             c == SubSeq(q, i+1, k)
  <1>1. k \in Nat /\ i \in 1..k /\ DOMAIN q = 1..k
    OBVIOUS
  <1>2. b \in Seq(S) /\ Len(b) = i-1 /\ \A j \in 1..i-1 : b[j] = q[j]
    BY <1>1
  <1>3. c \in Seq(S) /\ Len(c) = k-i /\ \A j \in 1..k-i : c[j] = q[i+j]
    BY <1>1
  <1>4. a = b \o c
    BY DEF RemoveAt
  <1> HIDE DEF b, c, k
  <1>5. /\ a \in Seq(S) /\ Len(a) = k-1
        /\ \A j \in 1..i-1 : a[j] = q[j]
        /\ \A j \in 1..k-i : a[(i-1)+j] = q[i+j]
    <2>1. b \in Seq(S) /\ c \in Seq(S)
      BY <1>2, <1>3
    <2>2. /\ a \in Seq(S) /\ Len(a) = Len(b) + Len(c)
          /\ \A j \in 1..Len(b)+Len(c) : a[j] = IF j <= Len(b) THEN b[j] ELSE c[j - Len(b)]
      BY <1>4, <2>1
    <2>3. a \in Seq(S) /\ Len(a) = k-1
      <3>1. (i-1) + (k-i) = k-1
        BY <1>1
      <3> QED BY <1>2, <1>3, <2>2, <3>1
    <2>4. ASSUME NEW j \in 1..i-1 PROVE a[j] = q[j]
      BY <1>1, <1>2, <1>3, <1>4, <2>4
    <2>5. ASSUME NEW j \in 1..k-i PROVE a[(i-1)+j] = q[i+j]
      <3>1. /\ (i-1)+j \in 1..Len(b)+Len(c) /\ ~((i-1)+j <= Len(b))
            /\ ((i-1)+j)-Len(b) = j
        BY <1>1, <1>2, <1>3, <2>5
      <3>2. a[(i-1)+j] = c[j]
        BY <2>2, <3>1
      <3> QED BY <1>3, <2>5, <3>2
    <2> QED BY <2>3, <2>4, <2>5
  <1>6. DOMAIN a = 1..k-1
    BY <1>5
  <1>7. ASSUME NEW j \in 1..k-1 PROVE \E l \in 1..k : a[j] = q[l]
    <2>1. CASE j < i
      BY <1>1, <1>5, <1>7, <2>1
    <2>2. CASE j >= i
      <3>1. j-(i-1) \in 1..k-i /\ (i-1)+(j-(i-1)) = j /\ i+(j-(i-1)) = j+1 /\ j+1 \in 1..k
        BY <1>1, <1>7, <2>2
      <3> QED BY <1>5, <3>1
    <2> QED BY <1>1, <1>7, <2>1, <2>2
  <1>8. ASSUME NEW l \in 1..k, l # i PROVE \E j \in 1..k-1 : a[j] = q[l]
    <2>1. CASE l < i
      <3>1. l \in 1..i-1 /\ l \in 1..k-1
        BY <1>1, <1>8, <2>1
      <3> QED BY <1>5, <3>1
    <2>2. CASE l > i
      <3>1. l-i \in 1..k-i /\ (i-1)+(l-i) = l-1 /\ i+(l-i) = l /\ l-1 \in 1..k-1
        BY <1>1, <1>8, <2>2
      <3> QED BY <1>5, <3>1
    <2> QED BY <1>1, <1>8, <2>1, <2>2
  <1>9. a \in Seq(MembersOf(a))
    BY <1>5, SeqOfMembers
  <1>10. MembersOf(a) \subseteq MembersOf(q)
    BY <1>1, <1>6, <1>7 DEF MembersOf
  <1>11. MembersOf(q) \subseteq MembersOf(a) \cup {q[i]}
    BY <1>1, <1>6, <1>8 DEF MembersOf
  <1> QED BY <1>9, <1>10, <1>11

(* Fewer entries are remembered than are kept.                             *)
LEMMA StillLive ==
    ASSUME NEW q, NEW O, NEW n, NEW r, IsLive(q, O, n, r),
           NEW S, NEW p \in Seq(S), NEW P, MembersOf(p) \cup P \subseteq MembersOf(q) \cup O,
           NEW d, NEW E, AreRecords(E, d), E \subseteq MembersOf(p) \cup P
    PROVE  IsLive(p, P, n, d)
  <1>1. p \in Seq(MembersOf(p))
    BY SeqOfMembers
  <1>2. AreRecords(MembersOf(p) \cup P, d)
    BY MoreEntries
  <1>3. /\ n \in Nat /\ HasIds(MembersOf(q) \cup O)
        /\ \A y \in MembersOf(q) \cup O : y.id \in 1..n
    BY DEF IsLive
  <1>4. HasIds(MembersOf(p) \cup P) /\ \A y \in MembersOf(p) \cup P : y.id \in 1..n
    BY <1>3 DEF HasIds
  <1> QED BY <1>1, <1>2, <1>3, <1>4 DEF IsLive

(* The popped node that is given up, if any, is forgotten.                 *)
LEMMA RetiredIs ==
    ASSUME config.retainPopped \in Nat, config.retainPopped > 0,
           NEW E, HasIds(E), AreRecords(E, records),
           NEW S, oldNodes \in Seq(S), MembersOf(oldNodes) \subseteq E,
           NEW x, x = IF Overdue THEN E \ {oldNodes[RetiredPosition]} ELSE E
    PROVE  /\ AreRecords(x, Records)
           /\ OldNodes \in Seq(MembersOf(OldNodes))
           /\ MembersOf(OldNodes) \subseteq MembersOf(oldNodes)
           /\ Overdue => MembersOf(oldNodes) \subseteq
                            MembersOf(OldNodes) \cup {oldNodes[RetiredPosition]}
           /\ ~Overdue => OldNodes = oldNodes
  <1> DEFINE o == oldNodes
             m == OldNodes
             k == Len(o)
  <1>1. k \in Nat /\ DOMAIN o = 1..k
    OBVIOUS
  <1>2. CASE ~Overdue
    <2>1. Records = records /\ OldNodes = oldNodes /\ x = E
      BY <1>2 DEF Records, OldNodes
    <2> QED BY <1>2, <2>1, SeqOfMembers
  <1>3. CASE Overdue
    <2>1. k >= 2
      BY <1>1, <1>3 DEF Overdue
    <2> DEFINE i == RetiredPosition
               old == oldNodes[i]
    <2>2. Records = DeleteRecord(records, old) /\ x = E \ {old}
      BY <1>3 DEF Records
    <2>3. AreRecords(x, Records)
      BY <2>2, DeleteRecordIs
    <2>4. m = IF i = 1 THEN Tail(o) ELSE Append(Tail(Tail(o)), Head(o))
      BY <1>3 DEF OldNodes
    <2>5. i \in {1, 2}
      BY DEF RetiredPosition
    <2> HIDE DEF i, m
    <2>6. /\ m \in Seq(S) /\ Len(m) = k-1
          /\ \A j \in 1..k-1 : m[j] = IF i = 1 THEN o[j+1]
                                      ELSE IF j = k-1 THEN o[1] ELSE o[j+2]
      <3>1. CASE i = 1
        BY <1>1, <2>1, <2>4, <3>1
      <3>2. CASE i = 2
        <4> DEFINE t == Tail(Tail(o))
                   h == Head(o)
        <4>1. Tail(o) \in Seq(S) /\ Len(Tail(o)) = k-1 /\ \A j \in 1..k-1 : Tail(o)[j] = o[j+1]
          BY <1>1, <2>1
        <4>2. t \in Seq(S) /\ Len(t) = k-2 /\ \A j \in 1..k-2 : t[j] = o[j+2]
          BY <1>1, <2>1, <4>1
        <4>3. h = o[1] /\ h \in S
          BY <1>1, <2>1
        <4>4. m = Append(t, h)
          BY <2>4, <3>2
        <4> HIDE DEF t, h, k
        <4>5. /\ m \in Seq(S) /\ Len(m) = k-1 /\ m[k-1] = h
              /\ \A j \in 1..k-2 : m[j] = t[j]
          <5>1. Len(t) + 1 = k-1 /\ DOMAIN t = 1..k-2
            BY <1>1, <2>1, <4>2
          <5>2. /\ m \in Seq(S) /\ Len(m) = Len(t) + 1 /\ m[Len(t) + 1] = h
                /\ \A j \in 1..Len(t) : m[j] = t[j]
            BY <4>2, <4>3, <4>4
          <5> QED BY <4>2, <5>1, <5>2
        <4>6. \A j \in 1..k-1 : j = k-1 \/ j \in 1..k-2
          BY <1>1
        <4> QED BY <1>1, <3>2, <4>2, <4>3, <4>5, <4>6
      <3> QED BY <2>5, <3>1, <3>2
    <2>7. DOMAIN m = 1..k-1 /\ m \in Seq(MembersOf(m))
      BY <2>6, SeqOfMembers
    <2> HIDE DEF k
    <2>8. ASSUME NEW j \in 1..k-1 PROVE \E l \in 1..k : m[j] = o[l]
      <3>1. j+1 \in 1..k /\ 1 \in 1..k /\ (j # k-1 => j+2 \in 1..k)
        BY <1>1, <2>1, <2>8
      <3> QED BY <2>6, <3>1
    <2>9. ASSUME NEW l \in 1..k, l # i PROVE \E j \in 1..k-1 : m[j] = o[l]
      <3>1. CASE i = 1
        <4>1. l-1 \in 1..k-1 /\ (l-1)+1 = l
          BY <1>1, <2>9, <3>1
        <4> QED BY <2>6, <3>1, <4>1
      <3>2. CASE i = 2 /\ l = 1
        <4>1. k-1 \in 1..k-1
          BY <1>1, <2>1
        <4> QED BY <2>6, <3>2, <4>1
      <3>3. CASE i = 2 /\ l > 2
        <4>1. l-2 \in 1..k-1 /\ (l-2)+2 = l /\ l-2 # k-1
          BY <1>1, <2>9, <3>3
        <4> QED BY <2>6, <3>3, <4>1
      <3> QED BY <2>5, <2>9, <3>1, <3>2, <3>3
    <2>10. MembersOf(m) \subseteq MembersOf(o)
      BY <1>1, <2>7, <2>8 DEF MembersOf
    <2>11. MembersOf(o) \subseteq MembersOf(m) \cup {o[i]}
      BY <1>1, <2>7, <2>9 DEF MembersOf
    <2> QED BY <1>3, <2>3, <2>7, <2>10, <2>11 DEF m, i
  <1> QED BY <1>2, <1>3

(* After an entry has been popped, it is still remembered.                 *)
LEMMA PopIsLive ==
    ASSUME RecordInv, config.retainPopped > 0, NEW i \in DOMAIN queue
    PROVE  /\ IsLive(RemoveAt(queue, i), MembersOf(OldNodes) \cup {queue[i]}, pushed, Records)
           /\ OldNodes \in Seq(MembersOf(OldNodes))
  <1> DEFINE rest == RemoveAt(queue, i)
             O == MembersOf(oldNodes)
             E == MembersOf(queue) \cup O
             m == MembersOf(OldNodes)
             old == oldNodes[RetiredPosition]
             x == IF Overdue THEN E \ {old} ELSE E
             P == m \cup {queue[i]}
  <1>1. config.retainPopped \in Nat
    BY SearchAssumption DEF RecordInv, ConfigurationFields
  <1>2. /\ IsLive(queue, O, pushed, records) /\ oldNodes \in Seq(O)
        /\ queue \in Seq(MembersOf(queue)) /\ HasIds(E) /\ AreRecords(E, records)
    BY DEF RecordInv, IsLive
  <1>3. queue[i] \in MembersOf(queue)
    BY DEF MembersOf
  <1>4. /\ rest \in Seq(MembersOf(rest))
        /\ MembersOf(rest) \subseteq MembersOf(queue)
        /\ MembersOf(queue) \subseteq MembersOf(rest) \cup {queue[i]}
    BY <1>2, OneLess
  <1>5. /\ AreRecords(x, Records)
        /\ OldNodes \in Seq(m) /\ m \subseteq O
        /\ Overdue => O \subseteq m \cup {old}
        /\ ~Overdue => OldNodes = oldNodes
    <2>1. O \subseteq E /\ x = IF Overdue THEN E \ {old} ELSE E
      OBVIOUS
    <2> HIDE DEF E, x
    <2> QED BY <1>1, <1>2, <2>1, RetiredIs
  <1> HIDE DEF rest, old
  <1>6. ~Overdue => m = O
    BY <1>5
  <1> HIDE DEF m, O
  <1>7. MembersOf(rest) \cup P \subseteq MembersOf(queue) \cup O
    BY <1>3, <1>4, <1>5
  <1>8. x \subseteq MembersOf(rest) \cup P
    BY <1>4, <1>5, <1>6
  <1> HIDE DEF P, x
  <1>9. IsLive(rest, P, pushed, Records)
    BY <1>2, <1>4, <1>5, <1>7, <1>8, StillLive
  <1> QED BY <1>5, <1>9 DEF rest, P, m

(* Pushing an expansion keeps the records.                                 *)
LEMMA ExpansionIsLive ==
    ASSUME config \in Configurations, NEW q, NEW O, NEW n, NEW r, IsLive(q, O, n, r),
           NEW d, NEW h, NEW x, NEW S, NEW children \in Seq(S),
           NEW s, s = PushAll(Store(q, r, d, n, h), x, children)
    PROVE  IsLive(s.queue, O, s.pushed, s.records)
  <1> DEFINE t == Store(q, r, d, n, h)
  <1>1. LiveStore(O, t)
    BY LiveStoreIs DEF IsLive
  <1> HIDE DEF t
  <1>2. LiveStore(O, PushAll(t, x, children))
    BY <1>1, PushAllIsLive
  <1>3. LiveStore(O, s)
    BY <1>2 DEF t
  <1> QED BY <1>3 DEF LiveStore, IsLive

(* At first the root is in the queue, and nothing is recorded.             *)
LEMMA RecordInit == Init => RecordInv
  <1> SUFFICES ASSUME Init PROVE RecordInv
    OBVIOUS
  <1>1. config \in Configurations
    BY DEF Init
  <1>2. PICK root \in SearchRoots : StartWith(root)
    BY DEF Init
  <1> DEFINE p == Price(root)
             x == [id |-> 1, stack |-> 0, node |-> p.node, costs |-> <<p.cost>>]
  <1>3. /\ queue = <<x>> /\ records = NoRecords /\ oldNodes = <<>> /\ pushed = 1
    BY <1>2 DEF StartWith
  <1>4. x.id = 1
    OBVIOUS
  <1> HIDE DEF x, p
  <1>5. MembersOf(queue) = {x} /\ queue \in Seq({x})
    <2>1. queue \in Seq({x}) /\ DOMAIN queue = {1} /\ queue[1] = x
      BY <1>3
    <2> QED BY <2>1 DEF MembersOf
  <1>6. MembersOf(oldNodes) = {} /\ oldNodes \in Seq({})
    <2>1. DOMAIN oldNodes = {} /\ oldNodes \in Seq({})
      BY <1>3
    <2> QED BY <2>1 DEF MembersOf
  <1>7. AreRecords({x}, records)
    <2>1. \A f \in FilterNames : records[f] = <<>>
      BY <1>3 DEF NoRecords
    <2>2. \A f \in FilterNames : DOMAIN records[f] = {}
      BY <2>1
    <2>3. records = [f \in FilterNames |-> records[f]]
      BY <1>3, <2>1 DEF NoRecords
    <2> QED BY <2>2, <2>3 DEF AreRecords, IsMap
  <1>8. HasIds({x}) /\ 1 \in 1..1 /\ 1 \in Nat
    BY DEF HasIds
  <1>9. MembersOf(queue) \cup MembersOf(oldNodes) = {x}
    BY <1>5, <1>6
  <1>10. IsLive(queue, MembersOf(oldNodes), pushed, records)
    BY <1>3, <1>4, <1>5, <1>7, <1>8, <1>9 DEF IsLive
  <1> QED BY <1>1, <1>6, <1>10 DEF RecordInv

(* Every step of the search keeps the records.                             *)
LEMMA RecordStep ==
    ASSUME Hypotheses
    PROVE  SearchInv /\ RecordInv /\ [Next]_searchVars => RecordInv'
  <1> SUFFICES ASSUME SearchInv, RecordInv, [Next]_searchVars PROVE RecordInv'
    OBVIOUS
  <1>1. config \in Configurations
    BY DEF RecordInv
  <1>2. CASE ~(config'.retainPopped > 0) /\ config' = config
    BY <1>1, <1>2 DEF RecordInv
  <1>3. config' = config
    BY DEF Next, PopDead, PopAndExpand, Pop, GiveUp, Return, searchVars
  <1>4. ASSUME config.retainPopped > 0 PROVE RecordInv'
    <2>1. ASSUME NEW q, NEW o, NEW n, NEW r, queue' = q, oldNodes' = o, pushed' = n,
                 records' = r, o \in Seq(MembersOf(o)), IsLive(q, MembersOf(o), n, r)
          PROVE  RecordInv'
      BY <1>1, <1>3, <2>1 DEF RecordInv
    <2>2. ASSUME NEW i \in DOMAIN queue
          PROVE  /\ IsLive(RemoveAt(queue, i), MembersOf(OldNodes) \cup {queue[i]}, pushed, Records)
                 /\ OldNodes \in Seq(MembersOf(OldNodes))
                 /\ Retain(queue[i]) \in Seq(MembersOf(Retain(queue[i])))
                 /\ MembersOf(Retain(queue[i])) = MembersOf(OldNodes) \cup {queue[i]}
      <3>1. /\ IsLive(RemoveAt(queue, i), MembersOf(OldNodes) \cup {queue[i]}, pushed, Records)
            /\ OldNodes \in Seq(MembersOf(OldNodes))
        BY <1>4, PopIsLive
      <3>2. Retain(queue[i]) = Append(OldNodes, queue[i])
        <4>1. config.retainPopped # 0
          BY <1>1, <1>4, SearchAssumption DEF ConfigurationFields
        <4> QED BY <4>1 DEF Retain
      <3> QED BY <3>1, <3>2, OneMore
    <2>3. CASE PopDead
      <3>1. PICK i \in DOMAIN queue :
                /\ queue' = RemoveAt(queue, i)
                /\ \/ oldNodes' = Retain(queue[i]) /\ records' = Records
                   \/ oldNodes' = OldNodes /\ records' = DeleteRecord(Records, queue[i])
                /\ pushed' = pushed
        <4>1. config.retainPopped # 0
          BY <1>1, <1>4, SearchAssumption DEF ConfigurationFields
        <4> QED BY <2>3, <4>1 DEF PopDead
      <3> DEFINE x == queue[i]
                 rest == RemoveAt(queue, i)
                 m == MembersOf(OldNodes)
                 E == MembersOf(rest) \cup (m \cup {x})
                 r == DeleteRecord(Records, x)
      <3>2. /\ IsLive(rest, m \cup {x}, pushed, Records) /\ OldNodes \in Seq(m)
            /\ Retain(x) \in Seq(MembersOf(Retain(x)))
            /\ MembersOf(Retain(x)) = m \cup {x}
        BY <2>2
      <3>3. IsLive(rest, m, pushed, r)
        <4>1. HasIds(E) /\ AreRecords(E, Records) /\ rest \in Seq(MembersOf(rest))
          BY <3>2 DEF IsLive
        <4> HIDE DEF x, rest, m, E
        <4>2. AreRecords(E \ {x}, r)
          BY <4>1, DeleteRecordIs
        <4>3. E \ {x} \subseteq MembersOf(rest) \cup m
          BY DEF E
        <4>4. MembersOf(rest) \cup m \subseteq MembersOf(rest) \cup (m \cup {x})
          OBVIOUS
        <4> HIDE DEF r
        <4> QED BY <3>2, <4>1, <4>2, <4>3, <4>4, StillLive
      <3>4. CASE oldNodes' = Retain(x) /\ records' = Records
        BY <2>1, <3>1, <3>2, <3>4
      <3>5. CASE oldNodes' = OldNodes /\ records' = r
        BY <2>1, <3>1, <3>2, <3>3, <3>5
      <3> QED BY <3>1, <3>4, <3>5
    <2>4. CASE PopAndExpand
      <3>1. PICK i \in DOMAIN queue :
                /\ oldNodes' = Retain(queue[i])
                /\ \/ queue' = RemoveAt(queue, i) /\ records' = Records /\ pushed' = pushed
                   \/ GoOnWith(PushExpansion(RemoveAt(queue, i), queue[i],
                                   Expand(queue[i], Len(RemoveAt(queue, i)))))
        BY <2>4 DEF PopAndExpand
      <3> DEFINE x == queue[i]
                 rest == RemoveAt(queue, i)
                 m == MembersOf(OldNodes)
                 y == Expand(x, Len(rest))
                 h == IsCounted(x) /\ y.legal
                 s == PushExpansion(rest, x, y)
      <3>2. /\ IsLive(rest, m \cup {x}, pushed, Records)
            /\ Retain(x) \in Seq(MembersOf(Retain(x)))
            /\ MembersOf(Retain(x)) = m \cup {x}
        BY <2>2
      <3>3. PICK S : y.children \in Seq(S)
        <4> DEFINE fixed == StartsFixed(config)
        <4>1. GoodNode(env, config, status # "aborted", x.node)
          BY QueueEntry DEF SearchInv
        <4>2. Sound(env, x.node, <<>>) /\ RootOk(env, config, x.node)
          BY <4>1, Zenon DEF GoodNode
        <4>3. /\ IsEnvironment(env) /\ HasNoSwapGates(env)
              /\ config.expander \in {"DefaultExpander", "GreedyTopK", "NoSwaps"}
          BY SetUpFacts DEF Hypotheses, SearchInv
        <4> HIDE DEF x
        <4>4. AreOffspring(env, fixed, x.node, y)
          BY <4>2, <4>3, ExpandSound
        <4> HIDE DEF y, fixed
        <4> QED BY <4>4 DEF AreOffspring
      <3>4. s = PushAll(Store(rest, Records, dead, pushed, h), x, y.children)
        BY DEF PushExpansion
      <3> HIDE DEF s, y, h, x, rest, m
      <3>5. IsLive(s.queue, m \cup {x}, s.pushed, s.records)
        BY <1>1, <3>2, <3>3, <3>4, ExpansionIsLive
      <3>6. CASE queue' = rest /\ records' = Records /\ pushed' = pushed
        <4>1. oldNodes' = Retain(x)
          BY <3>1 DEF x
        <4> QED BY <2>1, <3>2, <3>6, <4>1
      <3>7. CASE GoOnWith(s)
        <4>1. oldNodes' = Retain(x)
          BY <3>1 DEF x
        <4>2. queue' = s.queue /\ records' = s.records /\ pushed' = s.pushed
          BY <3>7 DEF GoOnWith
        <4> QED BY <2>1, <3>2, <3>5, <4>1, <4>2
      <3> QED BY <3>1, <3>6, <3>7 DEF s, y, x, rest
    <2>5. CASE UNCHANGED <<queue, oldNodes, pushed, records>>
      BY <1>4, <2>1, <2>5 DEF RecordInv
    <2>6. CASE GiveUp
      BY <2>5, <2>6 DEF GiveUp
    <2>7. CASE Return
      <3>1. queue' = <<>> /\ oldNodes' = <<>> /\ records' = NoRecords /\ pushed' = pushed
        BY <2>7 DEF Return
      <3> DEFINE none == <<>>
      <3>2. none \in Seq({}) /\ MembersOf(none) = {}
        BY DEF MembersOf
      <3>3. AreRecords({}, NoRecords)
        <4>1. \A f \in FilterNames : NoRecords[f] = <<>>
          BY DEF NoRecords
        <4>2. \A f \in FilterNames : DOMAIN NoRecords[f] = {}
          BY <4>1
        <4>3. NoRecords = [f \in FilterNames |-> NoRecords[f]]
          BY DEF NoRecords
        <4> QED BY <4>2, <4>3 DEF AreRecords, IsMap
      <3>4. pushed \in Nat
        BY <1>4 DEF RecordInv, IsLive
      <3>5. queue' = none /\ oldNodes' = none
        BY <3>1
      <3> HIDE DEF none
      <3>6. IsLive(none, MembersOf(none), pushed, NoRecords)
        BY <3>2, <3>3, <3>4 DEF IsLive, HasIds
      <3> QED BY <2>1, <3>1, <3>2, <3>5, <3>6
    <2>8. CASE UNCHANGED searchVars
      BY <2>5, <2>8 DEF searchVars
    <2> QED BY <2>3, <2>4, <2>6, <2>7, <2>8 DEF Next
  <1> QED BY <1>2, <1>3, <1>4

(* What the filters remember is in the queue or retained.                  *)
LEMMA LiveIsLive ==
    ASSUME RecordInv
    PROVE  RecordsAreLive
  <1> SUFFICES ASSUME config.retainPopped > 0, NEW f \in FilterNames,
                      NEW key \in DOMAIN records[f]
               PROVE  IdsOf(records[f][key]) \subseteq IdsOf(queue) \cup IdsOf(oldNodes)
    BY DEF RecordsAreLive
  <1> DEFINE b == records[f][key]
             E == MembersOf(queue) \cup MembersOf(oldNodes)
  <1>1. IsBucket(f, E, key, b)
    BY DEF RecordInv, IsLive, AreRecords, IsMap
  <1>2. \A i \in DOMAIN b : b[i] \in E
    BY <1>1 DEF IsBucket
  <1>3. \A x \in E : x.id \in IdsOf(queue) \cup IdsOf(oldNodes)
    BY DEF MembersOf, IdsOf
  <1> HIDE DEF b, E
  <1>4. \A i \in DOMAIN b : b[i].id \in IdsOf(queue) \cup IdsOf(oldNodes)
    BY <1>2, <1>3
  <1>5. IdsOf(b) \subseteq IdsOf(queue) \cup IdsOf(oldNodes)
    BY <1>4 DEF IdsOf
  <1> QED BY <1>5 DEF b

(* The filters remember no node that has been destroyed: what they compare *)
(* new nodes with is in the queue, or is one of the popped nodes that are  *)
(* retained.                                                               *)
THEOREM RecordsCorrect ==
    ASSUME Hypotheses
    PROVE  Spec => []RecordsAreLive
  <1>1. Init => RecordInv
    BY RecordInit
  <1>2. SearchInv /\ RecordInv /\ [Next]_searchVars => RecordInv'
    BY RecordStep
  <1>3. RecordInv => RecordsAreLive
    BY LiveIsLive
  <1> QED BY <1>1, <1>2, <1>3, SearchInvariant, PTL DEF Spec

===============================================================================
