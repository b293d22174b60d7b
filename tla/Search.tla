------------------------------- MODULE Search -------------------------------
(***************************************************************************)
(* The search of ToqmMapper::Impl::run: the main loop with any of the      *)
(* expanders, queues, filters, cost functions and layout modules. One      *)
(* action is one iteration of the loop.                                    *)
(*                                                                         *)
(* An entry is a pushed node: its number, the number of the node that has  *)
(* pushed the last gate of its schedule, the node itself, and the costs of *)
(* its ancestors and its own, the last one. The queue is in the order in   *)
(* which the entries have been pushed.                                     *)
(***************************************************************************)
EXTENDS DefaultExpander, GreedyTopK, NoSwaps, GreedyMapper, Filters, Result

CONSTANTS Environments,         \* environments built from the circuits
          InitialLayouts(_),    \* init_qal arguments for so many logical qubits
          Configurations        \* the ways to set up the mapper

(* What a mapper is set up with. maxSize and targetSize are those of       *)
(* TrimSlowNodes; the queue is DefaultQueue if they are 0.                 *)
ConfigurationFields ==
    [cost : {"SimpleCost", "CXFrontier", "CXFull"},
     expander : {"DefaultExpander", "GreedyTopK", "NoSwaps"}, k : Nat,
     maxSize : Nat, targetSize : Nat, filters : Seq(FilterNames),
     greedyMapper : BOOLEAN, searchCycles : Int, retainPopped : Nat]

ASSUME SearchAssumption ==
    /\ \A e \in Environments :
          /\ IsEnvironment(e)
          /\ InitialLayouts(e.numLogical) \subseteq [Physical -> Place] \cup {NoLayout}
    /\ \A c \in Configurations :
          /\ c \in ConfigurationFields
          /\ IsInjective(c.filters)
          /\ c.maxSize > c.targetSize \/ c.maxSize = 0

VARIABLES env,          \* what all nodes share: gates, firstGates, numLogical
          config,       \* and the configuration
          queue,        \* the entries of the queue, in the order of pushNode
          records,      \* what the filters have recorded
          dead,         \* the numbers of the nodes that are marked as dead
          pushed,       \* numPushed
          oldNodes,     \* popped entries, when the filters are to forget them
          best,         \* bestFinalNode, or NoEntry
          status,       \* is the search going on, or how has it ended?
          result        \* what run returns, or NoResult

searchVars == <<env, config, queue, records, dead, pushed, oldNodes, best, status,
                result>>

-----------------------------------------------------------------------------
(* CostFunc::getCost: node modifiers first.                                *)
Modified(n) == IF config.greedyMapper
               THEN MapGreedily(n, env.gates, env.numLogical) ELSE n

PriceOf(m, gates) ==
        [node |-> m,
         cost |-> CASE config.cost = "SimpleCost" -> SimpleCostOf(m, gates)
                    [] config.cost = "CXFrontier" -> FrontierCost(m, gates)
                    [] config.cost = "CXFull" -> FullCost(m, gates),
         cost2 |-> CASE config.cost = "SimpleCost" -> SimpleSwaps(m, gates)
                     [] config.cost = "CXFrontier" -> FrontierSwaps(m, gates)
                     [] config.cost = "CXFull" -> FullSwaps(m, gates)]

Price(n) == PriceOf(Modified(n), env.gates)

NoResult == <<>>
NoEntry == [id |-> 0, stack |-> 0, node |-> Null, costs |-> <<>>]
Cost(e) == Last(e.costs)

(* Does an assertion fail? In a build without assertions the program goes  *)
(* on.                                                                     *)
Abort(holds, otherwise) == IF holds THEN otherwise ELSE "aborted"

-----------------------------------------------------------------------------
(* The part of the state that push changes, and whether all assertions     *)
(* have held.                                                              *)
Store(q, r, d, p, holds) ==
    [queue |-> q, records |-> r, dead |-> d, pushed |-> p, holds |-> holds]

(* TrimSlowNodes: when there are too many nodes, keep those that have come *)
(* furthest; the filters forget the others.                                *)
MoreProgress(e, f) ==
    LET left(x) == x.node.numUnscheduledGates
    IN  \/ left(e) < left(f)
        \/ left(e) = left(f) /\ Cost(e) < Cost(f)
        \/ left(e) = left(f) /\ Cost(e) = Cost(f) /\ e.id > f.id

Trim(s) ==
    LET at == DOMAIN s.queue
        order == Listed(at, {p \in at \X at : MoreProgress(s.queue[p[1]], s.queue[p[2]])})
        slow == SubSeq(order, config.targetSize + 1, Len(order))
        Entry(i) == s.queue[i]
    IN  IF config.maxSize = 0 \/ Len(s.queue) <= config.maxSize THEN s
        ELSE [s EXCEPT !.queue = Picked(s.queue, at \ Range(slow)),
                       !.records = DeleteRecords(s.records, Mapped(slow, Entry))]

(* Queue::push of a child of entry e, which the filters may drop.          *)
NewEntry(e, child, id) ==
    [id |-> id, stack |-> IF child.node.scheduled = e.node.scheduled THEN e.stack ELSE id,
     node |-> child.node, costs |-> Append(e.costs, child.cost)]

PushUnlessDropped(s, new, f) ==
    Trim(Store(IF f.drop THEN s.queue ELSE Append(s.queue, new),
               f.map, f.dead, new.id, s.holds /\ f.holds))

Push(s, new) ==
    PushUnlessDropped(s, new, FilterEntry(s.records, s.dead, config.filters, new, env.gates))

PushAll(s, e, children) ==
    LET after[i \in 0..Len(children)] ==
            IF i = 0 THEN s
            ELSE LET t == after[i-1] IN Push(t, NewEntry(e, children[i], t.pushed + 1))
    IN  after[Len(children)]

(* pop takes the entry of the least cost, of those the one that has been   *)
(* pushed last.                                                            *)
IsTop(q, i) ==
    \A j \in DOMAIN q : \/ Cost(q[i]) < Cost(q[j])
                        \/ Cost(q[i]) = Cost(q[j]) /\ j <= i

IsFinalNode(n) == n.readyGates = {}

(* bestFinalNode after entry e has been popped, dead or not.               *)
BestAfter(e) ==
    IF IsFinalNode(e.node) /\ (best = NoEntry \/ Cost(e) < Cost(best)) THEN e ELSE best

-----------------------------------------------------------------------------
(* initialSearchCycles below 0 stands for the diameter of the coupling map. *)
NumSearchCycles(c) ==
    IF c < 0 THEN Max({0} \cup {CouplingDistances[p] : p \in PairsOf(NumPhysical)}) ELSE c

SearchRoots ==
    {Root(env, layout, NumSearchCycles(config.searchCycles)) :
        layout \in InitialLayouts(env.numLogical)}

(* The root is the first node that is pushed; after that, the filters are  *)
(* reset.                                                                  *)
StartWith(root) ==
    /\ LET p == Price(root)
       IN  queue = <<[id |-> 1, stack |-> 0, node |-> p.node, costs |-> <<p.cost>>]>>
    /\ records = NoRecords
    /\ dead = {}
    /\ pushed = 1
    /\ oldNodes = <<>>
    /\ best = NoEntry
    /\ status = "searching"
    /\ result = NoResult

Init ==
    /\ env \in Environments
    /\ config \in Configurations
    /\ \E root \in SearchRoots : StartWith(root)

-----------------------------------------------------------------------------
(* The filters forget the popped nodes but the retainPopped latest ones    *)
(* and the best final node. There is at most one too many. With            *)
(* retainPopped = 0 all popped nodes are kept, and oldNodes is not needed. *)
Overdue == Len(oldNodes) > config.retainPopped

RetiredPosition == IF Head(oldNodes).id = best.id THEN 2 ELSE 1

OldNodes == IF ~Overdue THEN oldNodes
            ELSE IF RetiredPosition = 1 THEN Tail(oldNodes)
            ELSE Append(Tail(Tail(oldNodes)), Head(oldNodes))

Records == IF ~Overdue THEN records
           ELSE DeleteRecord(records, oldNodes[RetiredPosition])

Retain(e) == IF config.retainPopped = 0 THEN <<>> ELSE Append(OldNodes, e)

(* DefaultExpander: the cost of a child in the search cycles is that in    *)
(* cycle 0.                                                                *)
PriceInCycle(n) ==
    [Price([n EXCEPT !.cycle = Max({@, 0})]) EXCEPT !.node.cycle = n.cycle]

(* expand of entry e, when it does not end the search, with size nodes     *)
(* left in the queue.                                                      *)
Expand(e, size) ==
    LET all == ExpandAll(e.node, env.gates, size)
        greedy == ExpandGreedily(e.node, env.gates)
    IN  CASE config.expander = "DefaultExpander" ->
                [all EXCEPT !.children = Mapped(@, PriceInCycle)]
          [] config.expander = "GreedyTopK" ->
                [greedy EXCEPT !.children = KBest(Mapped(@, Price), config.k)]
          [] config.expander = "NoSwaps" ->
                ExpandWithoutSwaps(e.node, Cost(e), env.gates, env.numLogical)

(* Every iteration pops an entry.                                          *)
CanPop == status = "searching" /\ queue # <<>>
Pop(e) == best' = BestAfter(e) /\ UNCHANGED <<env, config, result>>

IsCounted(e) == IsFinalNode(e.node) => e.node.numUnscheduledGates = 0

(* A dead node is thrown away, unless it is the best final node.           *)
PopDead ==
    /\ CanPop
    /\ \E i \in DOMAIN queue : IsTop(queue, i) /\ LET e == queue[i] IN
        /\ e.id \in dead
        /\ Pop(e)
        /\ queue' = RemoveAt(queue, i)
        /\ IF e = best' THEN oldNodes' = Retain(e) /\ records' = Records
           ELSE /\ oldNodes' = (IF config.retainPopped = 0 THEN <<>> ELSE OldNodes)
                /\ records' = DeleteRecord(Records, e)
        /\ status' = Abort(IsCounted(e), "searching")
        /\ UNCHANGED <<dead, pushed>>

(* The children of entry e are pushed.                                     *)
PushExpansion(rest, e, x) ==
    PushAll(Store(rest, Records, dead, pushed, IsCounted(e) /\ x.legal), e, x.children)

GoOnWith(s) ==
    /\ queue' = s.queue
    /\ records' = s.records
    /\ dead' = s.dead
    /\ pushed' = s.pushed
    /\ status' = Abort(s.holds, "searching")

(* Any other node is expanded, or ends the search when it costs as much as *)
(* the best final node.                                                    *)
PopAndExpand ==
    /\ CanPop
    /\ \E i \in DOMAIN queue : IsTop(queue, i) /\ LET e == queue[i] IN
        /\ e.id \notin dead
        /\ Pop(e)
        /\ oldNodes' = Retain(e)
        /\ LET rest == RemoveAt(queue, i) IN
            IF best' # NoEntry /\ Cost(e) >= Cost(best')
            THEN /\ queue' = rest
                 /\ records' = Records
                 /\ status' = Abort(IsCounted(e), "found")
                 /\ UNCHANGED <<dead, pushed>>
            ELSE GoOnWith(PushExpansion(rest, e, Expand(e, Len(rest))))

(* Without nodes run throws an exception: "No mapping found using current  *)
(* configuration."                                                         *)
GiveUp ==
    /\ status = "searching"
    /\ queue = <<>>
    /\ status' = "failed"
    /\ UNCHANGED <<env, config, queue, records, dead, pushed, oldNodes, best, result>>

(* run returns the result of the best final node; the queue, the filters   *)
(* and their nodes are destroyed.                                          *)
Return ==
    /\ status = "found"
    /\ status' = "returned"
    /\ result' = ResultOf(best.node, env.gates)
    /\ queue' = <<>>
    /\ records' = NoRecords
    /\ oldNodes' = <<>>
    /\ UNCHANGED <<env, config, dead, pushed, best>>

Next == PopDead \/ PopAndExpand \/ GiveUp \/ Return

(* The loop goes on as long as it can: weak fairness of Next, with its     *)
(* ENABLED written out.                                                    *)
CanGoOn == status \in {"searching", "found"}
Fairness == []<>~CanGoOn \/ []<><<Next>>_searchVars

Spec == Init /\ [][Next]_searchVars /\ Fairness

=============================================================================
