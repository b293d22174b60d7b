# TLA+ models of TOQM

TOQM maps a quantum circuit to hardware: the library libtoqm takes a list of gates over
logical qubits, a coupling map of physical qubits and a latency for every gate, and
searches for a schedule that inserts swaps so that every two-qubit gate acts on coupled
qubits and the circuit ends as early as possible; the program `mapper` reads and writes
OPENQASM around it. This directory models both in TLA+, checks the models with TLC on
small circuits, and proves facts about them for all circuits with TLAPS.

Paths below are relative to `src/libtoqm/libtoqm/`, if they do not begin with `src/`.

## 1. The system

| Component | State | Operations | Uses |
|---|---|---|---|
| Set-up of a run: `ToqmMapper.cpp` `buildDependencyGraph`, `setCriticality`, `calcDistances`; `GateNode.hpp`, `Environment.hpp` | the `GateNode`s with their parents, children, next two-qubit gates, criticalities; root gates; number of logical qubits; distances; number of search cycles | once per run, from the gate list and the coupling map | latency |
| `Node` | cycle, layout (`qal`, `laq`), last gates per qubit, ready gates, number of unscheduled gates, schedule so far | `scheduleGate` (recursive), `swapQubits`, `busyCycles`, `prepChild` | graph, latency, coupling map |
| Expanders: `DefaultExpander`, `GreedyTopK`, `NoSwaps` | none | `expand`: make the children of a node and push them | node, queue, cost |
| Cost functions: `SimpleCost`, `CXFrontier`, `CXFull` | none | `getCost`, which runs the node modifiers first | node, distances |
| Node modifier `GreedyMapper` | none | `mod`: clears the root's layout, places the qubits of ready two-qubit gates | node, distances |
| Queues: `DefaultQueue`, `TrimSlowNodes` | the heap, the best final node | `push` (through the filters), `pop` | filters |
| Filters: `HashFilter`, `HashFilter2` | hash map of nodes | `filter`, `deleteRecord`, marking nodes dead | node |
| Latencies: `Table`, `Latency_1`, `Latency_1_3`, `Latency_1_2_6` | table | `getLatency` | |
| `ToqmMapper::Impl::run` | root, queue, popped nodes | set-up, main loop, backward walk, result | all of the above |
| `src/mapper/` | options chosen so far; the statements read so far | options, questions, QASM parser and printer | library |

The program is sequential: one thread, no messages, nothing persistent. What is hard is
the *state*: `readyGates`, the three arrays of last gates and the two halves of the layout
are all maintained incrementally, in the middle of a recursion, and each of them must
agree with a definition (the frontier of a dependence graph, the occupation of a qubit, a
bijection) after every sequence of calls; nodes share their schedules, and expanders and
filters change nodes that are still in the queue; whether a node is given up depends on
what else is in the queue; layouts are chosen after gates have been scheduled, and
one-qubit gates are placed only when the search is over, by walking the schedule
backwards. The list `hazards` of `PROJECT.json` gives the places where this can go wrong.

What makes each component correct:

* set-up: the pointers are the neighbours in the gate list; criticality is the longest
  path; distances are shortest paths; the sweeps end; the search gets what it assumes;
* node: ready gates = frontier of the graph; the count is exact; the layout is a
  partial bijection; no two gates at once on one qubit; gates start after those they
  depend on; two-qubit gates on coupled qubits;
* result: replayed from the inferred layout, the schedule performs the circuit;
* expanders, queues, filters, layout modules: in whatever combination, the search ends with
  such a result; in those that are meant to be exact, no schedule is shorter; cost
  functions are lower bounds; what filters drop is not needed, and they forget what is gone;
* program: the choices of the user reach `run`; the printed program does what the
  given one does.

## 2. Modules

| Module | Models | Kind |
|---|---|---|
| `GateGraph` | `GateNode` and the graph that a gate list denotes (the reference) | definitions |
| `DependencyGraph` | `buildDependencyGraph`, `setCriticality` | state machine |
| `CouplingMap`, `Distances` | what a distance is (the reference); `calcDistances` | definitions; state machine |
| `SetUp` | `run` up to its root node: the two state machines above one after the other, the checks between them, the number of search cycles | composition |
| `Node` | `Node`: data and operations; root node | definitions |
| `NodePath` | all sequences of calls that expanders and layout modules make on the nodes of a path | state machine |
| `Result`, `PathResult` | the backward walk of `run`, and a forward replay as its reference; the results of paths | definitions |
| `SimpleCost`, `CXCost` | `SimpleCost`; `CXFrontier` and `CXFull` | definitions over `Node` |
| `Expander`, `DefaultExpander`, `GreedyTopK`, `NoSwaps` | what expanders have in common; the three expanders | definitions over `Node` |
| `GreedyMapper` | `GreedyMapper` | definitions over `Node` |
| `Filters` | `HashFilter`, `HashFilter2`, and their calls in `Environment` | definitions |
| `Search` | the main loop of `run` with any expander, queue, filters, cost function and layout module | state machine |
| `Mapping` | what `run` promises | abstract specification |
| `Mapper` | `Search` implements `Mapping`; invariants of the search | refinement |
| `Optimality` | `Search`, and next to it the paths of `NodePath` from the same root | composition |
| `Latencies` | rows of a table file; `Table`: `buildTable`, `getLatency` | state machine |
| `Tokens` | `getToken`, `getCustomGate`, `getRestOfStatement` of `QasmObject.cpp` | definitions, recursive |
| `Qasm` | `fromQasm2`, `toQasm2` | actions, definitions |
| `OpenQasm` | what a program means (the reference) | definitions |
| `CommandLine` | `main`: options, questions, files, `run` (by `Mapping`), output | state machine |
| `LatenciesProofs` | the invariants of `Latencies` | theorems |
| `NumberProofs` | induction over natural numbers, in a form the provers can use | lemmas |
| `SetUpProofs` | the invariants of `DependencyGraph`, `Distances` and `SetUp` | theorems |
| `NodeProofs` | the operations of a node and the frontier of the graph | theorems |
| `ScheduleProofs` | what a call changes in a node and in its schedule, the history of a schedule, the backward walk and the replay; nothing here depends on `NodePath` or `Search` | lemmas |
| `PathProofs` | the invariants of `NodePath` and `PathResult` | theorems |
| `ExpanderProofs` | the expanders and layout modules, operator by operator | theorems |
| `MapperProofs` | the invariants of `Mapper`; the steps of the refinement | theorems |
| `MCSetUp`, `MCNodePath`, `MCResult`, `MCFindings`, `MCSearch`, `MCHeuristics`, `MCLatencies`, `MCCommandLine` | | instances for TLC |

How the models correspond to the code:

* A `GateNode*` is the position of the gate in the gate list, `NoGate` (0) is the null
  pointer. Names are kept only as far as latencies and `isSwapGate` look at them.
* A `Node` is a record with the fields of the class. A `ScheduledGate*` is the
  (immutable) `ScheduledGate`, `Null` the null pointer; the shared linked list of
  scheduled gates is a sequence. Where the code compares such lists by pointer, entries
  of the queue carry the number of the node that has pushed the last gate (`stack`).
  Arrays of length `MAX_QUBITS` have `NumPhysical` entries, which is all the code reads.
* `scheduleGate` for a circuit gate is `BeginSchedule` (everything before its last
  loop) followed by `VisitUnblocked` once per iteration of that loop and of the loops
  of its recursive calls. In `NodePath` these are separate steps (`CallScheduleGate`,
  `VisitPending`; nothing else can happen in between), so that invariants are checked in
  the middle of the recursion. `ScheduleGate` is the whole call, all of the recursion
  included; `Search` uses it. For a swap it is `ScheduleSwap`.
* `timeOffset` is omitted: no caller passes it.
* `NodePath!Next` offers at every node any ready gate, any swap of qubits that hold
  something, and any placement of qubits by a layout module, in any order and any
  number in one cycle. The three expanders and the mapper choose among these calls,
  so what holds of `NodePath` should hold of every node of every search, with any queue,
  filter and cost function, which only decide which nodes are expanded. `NodesAreSound` of
  `Mapper` says so of the nodes of `Search` itself, and is proved for all configurations.
* In `SetUp`, one action is one iteration of a loop; in `Search`, one iteration of the main
  loop; in `Latencies`, one description of the list; in `CommandLine`, one option,
  question or statement of the program.
* A node that the code pushes is an entry of `queue`, in the order of pushing; `IsTop` tells the
  entry that the heap would take. What the filters have stored is `records`, by filter and
  hashed value; `dead` holds the numbers of the nodes marked dead. A failed assertion
  makes `status` `"aborted"`; a build without assertions would go on.
* Undefined behaviour: `noMoreCX[-1] = true` in `DefaultExpander` (a ready one-qubit gate on
  a qubit without a place) counts as a failed assertion, because with the GNU library
  freeing the vector aborts the program. A file that does not exist leaves the number of
  couplings uninitialised (`src/mapper/MapperUtils.cpp:122-125`): `MissDevice` allows a crash
  and an exception.
* `CommandLine` reads the text of a program character by character; an argument or the name of
  a gate is one string. Instead of the search it takes any result that `Mapping!Succeed`
  allows, of a set of candidates given by the instance. That the search gives only such
  results is `ImplementsMapping`.

Operators called `Faulty...` are mistakes one could have made in the operator below
them. They are used only to see that each property notices a mistake.

## 3. Runs

| Run | Question | Bounds |
|---|---|---|
| `set_up` | Is the pointer graph right, with its criticalities? Are the distances? Do the sweeps end? Does the search get what it assumes? | all lists of up to 3 gates on 3 qubits, lists of 4 that begin with a two-qubit gate on qubits 0 and 1, wrong gates in lists of up to 2; 5 qubits with all sets of 4 couplings (all trees, some disconnected graphs), a ring, and devices of 1 to 3 qubits |
| `node_path` | Do the invariants hold for every order of calls? Does the result perform the circuit? | 3 physical qubits in a line, one coupling in each direction; 6 circuits of 2 to 4 gates; latencies 0, 1, 2; cycles up to 6; at most 1 search cycle |
| `circuit_swap` | What holds when the circuit itself has gates called swap? | as above, 3 circuits, cycles up to 4 |
| `search` | Does the search in its exact configurations end with a schedule that no other beats? Are costs lower bounds? Does an assertion fail? | 4 physical qubits in a line (numbered 3, 0, 2, 1); 5 circuits of 2 or 3 gates; 2 layouts; all three cost functions with 0, 1 or as many search cycles as the diameter; `HashFilter` with `SimpleCost` and `CXFull`, popped nodes kept or forgotten |
| `heuristics` | Do all other configurations keep the promise of `run`? Is the result correct? Do nodes, filters and queue agree? Are the hypotheses of the proofs met (`Assumed`)? | the same line; 8 circuits of 3 to 6 gates, one or two layouts each; 21 configurations: `DefaultExpander` with `HashFilter2`, both filters in either order, and a queue trimmed from 4 to 2 nodes; `GreedyTopK` with K from 1 to 3, with and without `GreedyMapper`, trimmed from 6 to 3; `NoSwaps` with no, one and both filters |
| `latency_table` | Does `Table` keep the best cases, and does `getLatency` answer with them? | all lists of up to 3 accepted descriptions, then any other; 2 two-qubit gates and a one-qubit gate, entries with and without qubits and names, and those that the rows of a file give; latencies -1 to 2 |
| `command_line` | Do the choices and the program reach `run`? Does the output do what the input does? | a line of 3 qubits; some 120 programs (two gates and up to three measurements on registers of 2 and 1 qubits; wrong ones) in 4 layouts, of which two have comments next to every token, and some in 2 layouts that are not legible; all lists of up to 2 of 12 options, some of 3, each with 4 ways to answer what is left; results with at most one swap from every layout |
| `finding_...` | one disagreement of a comment with the code each | one circuit each |

The bounds are small but meet the interesting cases: a line of three qubits is the
smallest coupling map on which swaps are needed; `cx 0,1; rz 1; cx 1,0` has a gate of
latency 0 between two that take time and exchanged roles; `cx 0,1; rz 0; rz 1; cx 0,1`
unblocks a two-qubit gate from either side in the middle of a recursion; `rz 0; cx 0,2`
lets the recursion meet a two-qubit gate on qubits that are not coupled; `cx 0,1; cx 1,0;
u 2` has a gate with the same next gate on both qubits, and, like `u 0; u 1; cx 0,1`,
one-qubit gates that are scheduled before their qubit has a place; `cx 0,1; cx 1,2;
cx 2,0` needs a swap under every layout. `MaxCycle` bounds
the cycle of nodes: six cycles let every one of these circuits end after at least
one swap. In `heuristics` the queue is trimmed below the number of children of one node, so that
trimming, dead nodes and forgotten ones meet; some of the circuits need no swap in a line, and
`NoSwaps` must tell them from the others.

Deadlock is checked in `command_line`, where every end of the program is a step
(`Terminated`): the parser and the options always go on or stop in one of the ways that are
named. It is not checked elsewhere, because a path ends when its cycles are used up, and
`SetUp`, `Search` and `Latencies` end when `run` returns or the list of descriptions is over.

Fairness: `SetUp` and `Search` are loops of sequential code without blocking calls, so a step
that can be taken is taken: weak fairness of the next-state relation. In `Search` it is written
out (`Fairness`): the loop can go on from every state in which it searches or has found
something, and then it does. `Optimality` inherits this for the search; the paths it compares
with have no fairness, nor has `NodePath`: expanders may abandon a path. `CommandLine` makes no
claim of liveness beyond the absence of deadlock.

`ImplementsMapping` is a refinement: `Mapper` instantiates `Mapping` with the outcome of `run`
as a function of the state of `Search` (`Outcome`), and the whole specification `Mapping!Spec`
is the property. It says that the search ends; that its result is correct (`IsCorrect`: complete,
in order, in time, on couplings, faithful to the layout it begins with, and without overlap: the
one-qubit gates of these runs take at most one cycle, see `finding_overlap`); and that only
`NoSwaps` may fail, and only if no layout makes the circuit possible without swaps. `Optimality` instantiates `Mapper` once more.

`search` has two parts. First the search runs, to its end. Then `NodePath` takes any path
from the same root: any ready gates, any swaps, any delays, without the rules by which
`DefaultExpander` saves work. Paths are followed only while they can be shorter than the
result; `MaxCycle` is larger than the end of every result, so the comparison leaves no
shorter schedule out; no path is followed after a search with search cycles, whose result
need not be the shortest. A line of four is the least coupling map with a
distance of 3, where the swaps of a gate are divided between its qubits; its
numbering makes physical and logical qubits differ. Assertions that fail
in these runs end the search as `aborted`.

What is *not* claimed, because it does not hold: that the result is shortest with search
cycles (children in search cycles are costed as if they were in cycle 0, one too much; with
couplings 0-1 and 2-1, `init_qal` {1,2,0} and `u 1; cx 1,2` one search cycle makes the result 4
cycles long, none 3), or with `HashFilter2` (which can drop the shortest schedule); that costs
only grow along a path; that `DefaultExpander` never empties the queue
(`finding_no_mapping`); and that a device has a classical bit for every one of the program
(the output declares as many as there are qubits, so `OutputIsWellFormed` is claimed for
programs with no more). With `GreedyMapper`, `DefaultExpander` writes to `noMoreCX[-1]`, so no run
combines them, and a measured qubit that no gate of two qubits uses may have no place and be
printed as -1.

The file that `mapper` reads may be laid out so that it reads another program. Two things are
needed, and `IsLegible` says both: every comment has another separator, a bracket or a semicolon beside
it (`CommentsStandApart`), and no gate or opaque definition has a slash (`DefinitionsHaveNoSlash`). If
not, `cx//note`, a new line and `q[0],q[1];` is read, and printed, as a gate `cxq[0]` on one qubit;
a brace in a comment ends a definition; and a semicolon in one ends an opaque declaration. `ReadsProgram` and
`OutputIsEquivalent` are claimed of legible texts only. The inputs of `command_line` also have others: both
kinds make `ReadsProgram` false, and the first makes `OutputIsEquivalent` false, as one sees when the
condition is taken away; the built `mapper` does the same.

The models have also been compared with the program itself. `Search` and the library agree on
random circuits in all modes that the runs use (some 40 sets of 40 searches) in the length of the
schedule, the number of nodes popped and the number left in the queue. `Tokens` and `Qasm` and
the built `mapper` agree on 380 random texts, valid and broken.

### Findings

Where a comment and the code disagree, a run checks what the comment says and TLC
shows what the code does instead.

* `finding_overlap`: one-qubit gates on a qubit without a place never wait, although
  `Node.hpp:101-103` says that they conflict with active gates. With latency 2 two of them
  overlap on the qubit that the result gives them. (The same hole lets such a gate be
  placed, afterwards, on a qubit that a swap was using at the time.)
* `finding_not_shortest`: `DefaultExpander` marks, for a ready gate without a later two-qubit
  gate, the *physical* qubit it is on as not needed any more, in an array that is read by
  *logical* qubit. A swap that the shortest schedule needs may then not be tried, and the
  result is too long. The run has the smallest such circuit we know, `u 2; u 1; cx 0,1`.
* `finding_single_cycle`: two-qubit gates of latency 1 are scheduled after the swaps of the same
  child, although these may have moved their qubits: an assertion fails.
* `finding_no_mapping`: a node is given up when the queue holds others and nothing it could start
  depends on a busy qubit, because it "can't lead to anything optimal"
  (`DefaultExpander.hpp:232`). On a star with `cx 0,1; cx 0,1; cx 2,3` and `HashFilter` all nodes
  are given up or filtered, and `run` throws that there is no mapping.
* `finding_definition`: in a gate definition every slash is lost, that of a division as well as
  those of a comment, whose text becomes part of the definition, although
  `src/mapper/QasmObject.cpp:182` promises the entire definition.

Seen while modelling, without a run of their own: a comment without another separator beside it joins
the tokens around it, because the new line at its end is dropped
(`src/mapper/QasmObject.cpp:99-102`; see `IsLegible` above); a circuit gate called `swap` is scheduled on the
physical qubits with the numbers of its logical ones, and stays ready and uncounted, so that the
search does not end (`circuit_swap` checks what still holds of the nodes, and no property is about the end); `Table` refuses swaps of latency 0
only by name (`Latency/Table.hpp:113`); `-qal` and `-laq` never get past the first number
(`src/mapper/main.cpp:236-240`); `-default` without file names follows a null pointer; `if(c==0)`,
without a space, is not refused as a statement but read as a gate; a gate on a whole register is
taken for one on its first qubit; without an `OPENQASM` line the output ends after that word; a row
of a latency table that names a qubit is not about the number of qubits it gives.

## 4. Proofs

The theorems hold for every circuit, coupling map, latency function and layout, of any size,
that satisfies the named assumptions of the modules (couplings join different qubits, latencies
are natural numbers, no swap has latency 0, programs are lists of gates on qubits below
`MAX_QUBITS`). They form a chain. `SetUpProofs` shows
that what `run` hands to its search is what `NodePath` and `Search` assume of an environment
(`SetUpHandsOver`). `NodeProofs` and `ScheduleProofs` show what every call on a node preserves.
From there two modules go on independently: `PathProofs` to the nodes that any sequence of calls
can make, and to their results; and `ExpanderProofs` and `MapperProofs` to the nodes that the
search itself makes, in every configuration, and to what it returns. The runs check the same
properties on small instances. Every invariant of `set_up`, `node_path`, `circuit_swap` and
`latency_table` is proved, and of `heuristics` those that hold in all configurations.

### The set-up of a run

The first part is about `buildDependencyGraph` and `setCriticality` for any program
that the module assumes (`DependencyGraphInv`), the second carries it over to `SetUp`:

* `SetUpGraph`, `SetUpRoots`: the pointers after every gate are the neighbours of every gate on
  each of its qubits. The invariant (`GraphInv`) says what `lastGatePerQubit` holds, and that
  the gates so far already have all pointers among themselves.
* `SetUpImplementsGraphOf`, `SetUpIdealCycles`: `setCriticality` ends with the longest chains and
  with the right next two-qubit gates. It sweeps over the qubits with one cursor for each, and the
  proof says where these can be (`WalkInv`): every gate is passed on all of its qubits (`Seen`) or
  still ahead on all of them (`Ahead`); a gate that is waited for on one qubit is not skipped on the
  other. The criticality of a gate is the longest chain of its *seen* children only, and its
  reference to the next two-qubit gate on a qubit is right only once its child there is seen:
  before, it is what the child was told first. At the end every gate is seen.
* `SetUpDistances`, `SetUpSearchCycles`: `calcDistances` has its loops nested in another order than
  Floyd and Warshall's, and repeats them. Distances are never below the real ones, coupled qubits
  are at distance 1, and a pass without a change leaves no shortcut among the triples it
  has passed; so the last pass, which changes nothing, leaves none. That numbers without shortcuts are the
  least numbers of couplings is then an induction over the length of paths. The number of search cycles is
  the diameter.
* `SetUpHandsOver`, `SetUpTypeCorrect`: what reaches the search is an environment as
  `NodePath` and `Search` assume it.

### Nodes

For all environments that the set-up hands over:

* `TypeCorrect`: every reachable state has the declared type. Its inductive invariant
  adds `InCycle`: `scheduleGate` is in progress only from cycle 0 on.
* `NoOverlapCorrect`, `CoupledCorrect`: `NoOverlap` and `OnCoupledQubits`, also for circuits
  with gates called swap and for any initial layout.
* `LayoutCorrect`: `LayoutConsistent`, under `CompleteLayouts`.
* `ReadyCorrect`, `CountCorrect`: `ReadyIsFrontier` and `CountIsExact`, under `NoCircuitSwaps`.
* `DependenciesCorrect`: `DependenciesInTime`, under both.

`StepCases` says once in which ways a step can change the node; each invariant is then shown to
survive each of these ways. `NodeProofs` has the lemmas: what each operation does to
each field; that `SwapQal` and `SwapLaq` keep the layout a partial bijection (`SwapLayout`); that
`swapQubits` undoes itself on every node whose layout is one (`SwapTwice`), on which `GreedyTopK`
relies when it tries a swap on the node it expands; that recording a gate keeps the last gate
that takes time on each qubit the latest (`PushKeepsOccupation`); that the frontier of a graph can
be told from the last scheduled gate of each qubit alone (`FrontierByLast`); and `UnblockedExact`:
the children that `scheduleGate` finds unblocked are exactly the gates that enter the frontier
on the qubits of the scheduled gate, each once.

The invariants are not inductive as they stand:

* `NoOverlap` needs `LastIsLatest`: no entry ends later than the gate that
  `lastNonZeroLatencyGate` holds for its qubits, which is all that `busyCycles` sees.
* `ReadyIsFrontier` and `CountIsExact` need `Progress`: `lastNonSwapGate` holds the last
  scheduled gate of every logical qubit, and `pending` holds no gate twice.
* `DependenciesInTime` needs `Timing`: whatever gate was last on a logical qubit is
  remembered, or outlasted, at the physical qubit that holds it *now*, and no entry
  starts later than the node's cycle. Swaps keep this because they start only when
  both of their qubits are free; the search cycles, which move qubits without a
  swap, keep it because nothing is scheduled yet.

### The result

`ReplayCorrect`, `LayoutComplete` and `OrderCorrect` state the invariants of `PathResult`, under
`CompleteLayouts` and `NoCircuitSwaps`. A final node has only its last layout and its schedule; `run` walks
back over the schedule from the end, undoes the swaps, and gives a place to the qubits of
gates that were scheduled before their qubit had one. The proof has three parts.

* Along a path (`ResultInv`): gates enter the schedule from the frontier, so it is in the order of the
  circuit (`KeepsOrder`); and the schedule has a *history* (`Remembers`): a layout before and after each
  entry, the last of which the node's layout extends. Each entry was scheduled where the layout before it
  has its qubits, and swaps exchange what the layout says (`Follows`). A qubit that is placed later adds
  to the last layout only, so the history says less than the layouts of the walk.
* Back (`WalkedBackAll`): the walk is never in conflict with the history. Its layout before entry `i` extends the
  history's, stays one-to-one, and has a place for the qubits of every gate from `i` on. When a qubit has
  none there is a free place, by counting: no more logical qubits than physical ones (`FreePlace`).
* Forwards (`ReplayExtends`): the replay from the inferred layout repeats the layouts of
  the walk in the other direction, up to qubits that the walk placed further back.

### The search

`MapperProofs` is about `Search` with any of the expanders, cost functions, queues, filters and
layout modules, for any number of search cycles and of retained nodes:

* `NodesCorrect`: `NodesAreSound`. Whatever has been pushed, trimmed, filtered or given up, every
  node in the queue has a layout, the right ready gates, the right count, and a schedule without
  overlap.
* `ResultCorrect`: `ResultIsCorrect`. What `run` returns performs the circuit: complete, in the order
  of the circuit, on couplings, faithful to the layout it begins with. From a fixed layout
  (`StartsFixed`: neither `NoSwaps` nor `GreedyMapper`), gates also wait for those they depend on,
  and do not overlap. Otherwise one-qubit gates on qubits without a place may: `finding_overlap`.
* `StepsImplementMapping`: from a fixed layout the initial states of `Search` are initial states of
  `Mapping`, and every step but `GiveUp` is one of its steps or none. `GiveUp` has to be left out,
  because the queue may run empty although there is a mapping (`finding_no_mapping`).
* `RecordsCorrect`: `RecordsAreLive`.

The argument starts in `ExpanderProofs`. A node is `Sound` if the invariants of section
"Nodes" hold of it that need no assertion of the code (layout, `Progress`, occupation of the
physical qubits, order), and `Lawful` if moreover the invariants hold that depend on
assertions (`Timing`, gates on couplings, and the history `Remembers`). The search goes on
after a failed assertion in a build without them, so soundness is proved of all children, and
lawfulness of those of an expansion whose assertions have held (`legal`). The parameter `fixed` of
`Lawful` adds that every logical qubit has a place, and every gate in the schedule had one; it
is set where no layout module takes places away.

* `ScheduleGateSound`: `scheduleGate` with all of its recursion. The gates to visit are a
  stack, and every visit takes one gate off it and may put others on. That the walk is over
  after a number of visits that the number of gates bounds is shown by the set of gates that
  have become ready, which grows with every gate put on the stack (`Reached`).
* `ChildWith` and `ScheduleAll` make calls one after the other, whatever they return; at
  each call the gate must still be ready, which it is because a call takes away no ready gate but
  its own, and the list names no gate twice (`ListedIs`, `PickedIs`).
* `ExpandAllSound`, `ExpandGreedilySound`, `ExpandWithoutSwapsSound`: whichever of the children an
  expander keeps, and in whatever order, they are sound. In the search cycles `DefaultExpander` and
  `GreedyTopK` swap qubits for nothing; that is harmless because nothing is scheduled
  before cycle 0, which is part of `Sound`. `NoSwaps` places qubits and clears the root's layout
  without a call.
* `MapGreedilySound`: `GreedyMapper` finds free places for all qubits of a ready gate, because there
  are no more logical qubits than physical ones.

In `MapperProofs` this becomes an invariant of the loop (`SearchInv`): as long as no assertion has
failed, all entries of the queue and `bestFinalNode` are sound and lawful; afterwards they are
sound. The price of a node plays no part in it, nor do the filters: they only choose. The
result is that of a lawful node without ready gates, to which the three steps of "The result" apply
(`ResultSound`).

`RecordsAreLive` needs another invariant (`RecordInv`), because `deleteRecord` looks only in the
bucket with the key of the node, and removes one record: a node must be in the bucket of its key and
there only once, and no two entries that are alive may have the same number. A filter that drops a
new node makes the filters before it forget it, which leaves their buckets as they were only up to
order (`FilterEntryIs`). Trimming deletes exactly the records of the nodes it takes out of the
queue (`TrimIsLive`). A popped node stays in the buckets until it is retired; when a
dead node is popped that may be retired in the same iteration, both are forgotten (`PopIsLive`).

### Latencies

`LatenciesProofs` proves the same of `Table`, for all lists of descriptions, however long
(the bound `MaxEntries` is any number): `LatenciesTypeCorrect`, `OptimisticCorrect` and
`BestCaseCorrect`. Here `TypeOK` and `OptimisticIsLeast` together are inductive, and
`BestCaseIsBest` follows from them by the order in which `getLatency` looks entries up.

### Hypotheses, and what is not proved

Three hypotheses are stated where they are needed.

* `CompleteLayouts`: `init_qal`, when given, names every logical qubit once. (For
  `LayoutConsistent`, `DependenciesInTime`, the result, and everything in `MapperProofs`.)
* `NoCircuitSwaps`: no gate of the circuit is called swap. (For `ReadyIsFrontier`, `CountIsExact`,
  `DependenciesInTime`, the result, and everything in `MapperProofs`.) Without it these are false, as
  section 3 tells of such circuits.
* `ClearedByNoSwaps` (only in `MapperProofs`): with `NoSwaps`, `init_qal` is on the first physical
  qubits, so that clearing the first entries of the layout clears all of it, and no layout module is used.
  Otherwise stale entries remain in `qal`, which `laq` contradicts.

The instances of the runs `search` and `heuristics` satisfy all three; `heuristics` checks them as an
assumption.

What a recursive function computes is proved by induction over natural numbers. The induction
theorems of the library take an operator as a parameter, which the provers cannot instantiate;
`NumberProofs` states induction for sets instead (`UpTo`, `Least`), and that a function on an interval
can be defined by recursion (`Recursion`). `HopDistances`, `LongestAfter`, the walk of
`ResultOf`, `LayoutAfter`, and the loops of the expanders, filters and of `PushAll` are treated so.

Only checked by TLC, not proved:

* liveness (`SetUpTerminates`, and the end of the search in `ImplementsMapping`), because the
  prover has no rules for fairness;
* `NeverAborts`: it does not hold of all configurations (`finding_single_cycle`). In the runs it
  holds because of the latencies and circuits they use;
* `OnlyReplacedNodesDie`: it does not hold of all configurations either. The node that another one is
  given up for may be dropped by a later filter, or be trimmed, in the same push. The runs show
  that this does not happen there;
* `IdealIsReached`, and the properties of `Optimality` (`CostIsEnd`, `CostsAreLowerBounds`,
  `ResultIsShortest`): they compare the search with all schedules at once. That costs are lower
  bounds would need a theory of shortest paths of swaps for each of the three cost functions, and
  `DefaultExpander` loses the shortest schedule of some circuits (`finding_not_shortest`), so that there
  is no theorem without a condition on the circuit for it to be shortest;
* `ResultHasNoOverlap`, which is false (`finding_overlap`);
* the invariants of `CommandLine`: it uses `Tokens`, the only module with `RECURSIVE` operators,
  about which nothing can be proved.

## 5. Not modelled

Every component of the program is modelled. Left out on purpose, in the modules named:

* `DefaultExpander`, `GreedyTopK`: the limit of 63 possible gates. `Filters`: statistics, and
  collisions of hashes (the code compares layouts where they matter). `Search`: verbose output.
* `CXCost`: what happens where a qubit without a place makes the code index a vector with -1
  (`CXFrontier.hpp:104`, `CXFull.hpp:46`). The circuits of `heuristics` do not get there.
* An `init_qal` that does not name every logical qubit. The code copies it over an identity layout
  that it has cleared only partly (`ToqmMapper.cpp:357-371`), so that `laq` and `qal` contradict each
  other; and `NoSwaps` clears such a layout only partly (`NoSwaps.hpp:32`). `LayoutConsistent` is
  claimed under `CompleteLayouts`, and the runs use complete layouts.
* `CommandLine`: synonyms and the case of options, the pause and the output of `-v`, carriage
  returns in files, names too long for the buffers of the parser, malformed numbers.
* The tests of the repository and memory management.
