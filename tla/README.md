# Graph Log Sketch in TLA+

This directory specifies the concurrent and distributed parts of Graph Log
Sketch: the workflow-4 program (`wf4/`), which samples, chooses and removes
influential traders of a trade network over several hosts, and the graph
algorithms, graph formats and edit workloads of the benchmarks (`include/scea/`,
`microbench/`, `scripts/divide_into_batches.cpp`). The modules are translated
from the sources, checked by TLC on small instances, and the results that
matter most are proved with TLAPS for all instances. File names in this text
are relative to `src/`.

`PROJECT.json` lists the runs, for every definition the lines it models, for
every property a change of the code that breaks it (`mutants`), the
disagreements between comments and code (`findings`), and the places that are
hard to test (`hazards`).

## 1. Inventory

### Workflow 4 (`wf4/`), N hosts with several threads each

`main.cpp` runs the phases below one after another on every host. The graph is
partitioned: a vertex is a master on one host and may have mirrors on others;
Gluon (external) reduces mirrors into masters and broadcasts masters to
mirrors. Phases are written as `galois::do_all` loops, whose threads share the
node data (`sold_`, `bought_`, `frequency_`, atomics), and as hand-made
exchanges over a tagged network.

| Component | State | Operations | Hard | Correct when |
|---|---|---|---|---|
| Tagged exchange (`quiesce.cpp:324-361`, `influence_maximization.cpp:580-672`) | a static tag counter per host and exchange, messages in the network, one slot per sender | send to all, receive N-1 messages, barrier, next tag | counts messages without looking at senders; hosts a call apart; reordering | a call ends with the messages of that call, one of each host; nothing is left over |
| Sampling (`influence_maximization.cpp:122-188, 334-419, 580-637`) | partial sets, their frontiers, buckets per host, stored sets, `frequency_` | seed, visit, ship, exchange, store | threads share `frequency_`; sets travel and come back; a fixed number of finishing passes | frequencies count visits, sets are neither lost nor duplicated, and are reverse reachable sets |
| Choice of nodes (`influence_maximization.cpp:190-332, 421-578, 640-687`) | per-thread maxima, messages, reachability sets, updates for remote nodes | find maximum, exchange, remove sets, exchange updates | hosts decide on their own and must agree; local and remote decrements | greedy maximum cover, the same on every host |
| Edge probabilities (`influence_maximization.cpp:81-120, 290-332`) | `sold_`, `bought_`, `desired_`, weights | sum up, sync, weigh | only `sold_` is synced; a buyer's host weighs with a mirror | totals are the sums of the edges, both sides of a trade have the same weight |
| Cancellation (`quiesce.cpp:56-88, 152-190`) | `sold_`, `bought_` of masters and mirrors, bitsets | zero a node, subtract its trades, sync, zero again | mirrors that turn into deltas; cancelled nodes that trade with each other; two hosts | masters hold exactly the trades that remain |
| Quiescence (`quiesce.cpp:90-132, 192-377`) | the same, proposals | reserve, take back, propose, answer, confirm | optimistic reservation, stale mirrors, answers later | nothing oversold, nothing overbought, both sides agree |
| Import and projection (`import.cpp`, `import.hpp`, `full_graph.hpp`) | full graph, projected graph | parse, keep, project | persons and devices share one space of ids; each host projects its own part | the projection is the trades of coffee between persons, each on both sides |
| Pipeline (`main.cpp`) | options | verify, phases in order, barriers | hosts in different phases | phases see the state they expect |

Calls: `main` → import → `CalculateEdgeProbabilities` →
`GetRandomReverseReachableSets` → `GetInfluentialNodes` → `CancelNodes` →
`QuiesceGraph`. Each phase leaves its result in the node data that the next
one starts from, and uses the same pattern of exchange.

### Graph benchmarks (`include/scea/`, `microbench/`)

| Component | State | Operations | Hard | Correct when |
|---|---|---|---|---|
| Betweenness centrality (`algo/bc.hpp`) | distances, path counts, worklists per level, scores | level-wise forward walk, walk back | compare-and-swap races, counts that others still add to, reuse between sources | scores are the betweenness centrality |
| BFS, page rank, triangle count (`algo/bfs.hpp`, `pr.hpp`, `tc.hpp`) | levels and worklists; ranks; a counter | write level and push; iterate; sort and search | unsynchronised levels; lists that must be sorted | the levels, triangles of the graph |
| Graph formats (`graph/*.hpp`) | adjacency lists, CSR, log-structured CSR, Morph | ingest, post-ingest, iterate, sort, find | a second copy of the edges; compaction; sorting | edges read = edges ingested |
| Edit workload (`microbench/*.cpp`) | batch, graph, position in the input | prepare or read a batch, ingest, run the algorithm | threads that fill one map; bounds with a rest; end of file, bad lines | every edge once, the algorithm after every batch |
| Statistics (`stats.hpp`) | counters | start, stop, print | – | I/O |

### Tools (`scripts/`)

Batching (`divide_into_batches.cpp`), shuffling, conversion, generation of
input, extraction, plots: sequential programs that read and write files.

## 2. Modules

| Module | Models | Used by |
|---|---|---|
| `AllToAll` | abstract: a collective in which everybody contributes one message per round and returns with everybody's | `TaggedExchange` (refinement), `RRRSets`, `Influence`, `Quiesce` (instance) |
| `TaggedExchange` | the exchange over tags, with its three endings | |
| `RRRSets` | sampling of reverse reachable sets | `MCRRRSets` |
| `Influence` | choice of influential nodes | `MCInfluence` |
| `TradeGraph` | constants: trades, owners, masters and mirrors, sums | `Cancel`, `Quiesce` |
| `Cancel` | cancellation with the reduction of deltas | `MCCancel` |
| `Quiesce` | quiescence, starting from what `Cancel` establishes | `MCQuiesce` |
| `Pipeline` | options, import, projection, edge probabilities, followed by `Cancel` | `MCCancel` |
| `Brandes` | betweenness centrality | `MCBrandes` |
| `Bfs` | breadth-first search | `EditWorkload` |
| `EditWorkload` | batches, dividing tool, graph formats, triangle count, and `Bfs` as algorithm | `MCEditWorkload` |
| `TaggedExchange_proof`, `RRRSets_proof`, `Influence_proof`, `Cancel_proof`, `Quiesce_proof`, `Brandes_proof`, `EditWorkload_proof` | theorems | |
| `SumTheorems` | lemmas about finite sums, and induction over a finite set | `Influence_proof`, `Cancel_proof`, `Quiesce_proof`, `Brandes_proof`, `EditWorkload_proof` |

The detailed exchange is verified once (`TaggedExchange` implements
`AllToAll`); the modules that exchange something instance `AllToAll` and
attach their contents to its `posted` / `taken` counters. A host's message of
a round is there for a receiver as soon as the sender has posted.

### `TaggedExchange`

`Enter`, `Send`, `Receive`, `EndReceive`, `LeaveBarrier` are the steps of a
call. How a call ends is `ending`, which is chosen at the beginning and stays:
`"tag"` (`SendNewEdges`: the tag moves, no barrier), `"tag_barrier"`
(`ExchangePartialSets`, `RemoveNodesFromRemotes`) and `"barrier_tag"`
(`ExchangeMostInfluentialNodes`).
The payload is the number of the call that sent it. The network is external
and reliable, and orders nothing.

### `RRRSets`

One set travels whole, so its contents (`reach`, `frontier`, and `queue` while
a thread has it) are functions of its name and the containers of the program
(`partial_sets`, the working bag, `remote_partial_sets`, the messages,
`reachability_sets`) hold names. `Begin` and `Visit` are the loop over the
local frontier, one node per step, so that threads interleave on `frequency_`;
`Store` and `Ship` are the end of `GenerateRandomReversibleReachableSets` for
a set; `SendSets`, `RecvSets` and `LeaveBarrier` are `ExchangePartialSets`.
Whether an edge is taken is nondeterministic, so that every outcome of the
random numbers is a behaviour; probabilities are not modelled. The random root
is any master of the host, hence hosts without masters are excluded (there
`GenerateSeedNodes` would draw from an empty interval).

### `Influence`

`do_all` loops are sets of work (`unseen`, `unread`) from which threads take
elements in any order; per-thread results (`best`) are merged as in
`GetMostInfluentialNode`. Two tag counters alternate in strict order, so that
the exchanges are the odd and even rounds of one `AllToAll`. `max_node` is
uninitialised memory while no positive frequency has been seen; it is any node
or `Garbage`. `given`, the sets at the beginning, is a history variable for the
properties. `LeftUncovered` is what holds of the sets at each choice; what the
code prints in the end as "Remaining uninfluenced sets" is stated by
`ReportedSets`, which it violates (run `influence_report`). Totals that are only printed
(`total_influence`) are left out.

### `Cancel` and `Quiesce`

`sold[h][v]` is host `h`'s copy of `sold_`. `Sync` is the Gluon reduction of
marked mirrors (added to the master, then 0) followed by the broadcast of
marked masters, for all hosts together. `Quiesce` counts amounts in the
smallest double: `SerializeSet` converts a weight to an integer and the
receiver reads the bits as a double, so `n` arrives as `n` smallest doubles,
and sums round (`Rounded`). `Parts` divides 1 for fractional amounts. A thread
per buyer is running at the same time, which includes all schedules of a
`do_all` with fewer threads. Edges are no state: the one whose `amount_` a trade
increases (`quiesce.cpp:228`) is a local copy. `Look` reads `bought_` and `sold_` of a seller in
one step; `Reserve`, `TakeBack`, `Buy`, `Propose` follow the atomic operations
of `TryQuiesceNode` one by one, and `Confirm` those of `TryAddEdge`.

### `Pipeline`

`main` from the command line on. `Cancel` and `Quiesce` each begin with an
`Init` that says what the phases before leave behind; `Pipeline` derives it, so
that the two are not taken on trust. `Content` gives each input line its file
and its tokens; where a line is read from (`-d`, or the option of its file) is
`path`. A file given by `-d` and again by its own option is read twice by the
program; the model has such lines once, as a set cannot hold them twice.
`Import` is one step: all hosts build the partitioned graph together and meet
at the barrier. An edge of the full graph is a line and a type, since the
external commercial parser makes a purchase of each sale
(`test/wf4/test_import.cpp:224-265`). `Uid` is the shift of device ids, with a
`HalfMax` that may be small. `Project` and `FillNodeValues` are steps of a host:
a `do_all` step of these only writes to its own node. A weight is the exact
quotient `<<amount, sold>>`. Sampling and choice come in between and only hand
over the nodes to cancel, the constant `Cancelled`; `Quiesce` counts amounts in
another unit and keeps its own run.

### `EditWorkload` and `Bfs`

`job` is the command line of one of two programs. The large one
(`edit_scalability_large.cpp`) goes through `Emplace` (a thread visits an edge of the
batch; `lazy_emplace_l` is atomic), `Ingest`, `PostIngest`, the algorithm,
`NextBatch`; the other (`edit_scalability.cpp`) through `ReadLine`, `ReadEof` and
the same, with the text that `Divide` writes. `checked` is a build without
`NDEBUG`, which validates vertices. A graph is `walk`, the neighbours that
`for_each_edge` comes to for each vertex. CSR and LC_CSR build it from
`m_edges`, CSR by a prefix sum and a copy (`PrefixSum`, `Compact`,
`CompactWalk`). The Galois graphs behind LC_CSR, LS_CSR and MorphGraph are
external: what they present after an ingestion is the lists with the new edges.

What the code sorts or filters is given as a result. `Ranked` numbers the elements of a set
by how many come before them, `Ascending` is the sorted batch of the dividing tool,
`InOrder` a list of neighbours after `std::sort`, `Kept` the part of a list that a
predicate leaves. A vertex exists for the large benchmark as soon as a
batch has been ingested, even one without edges (the maximum of no vertices is
0); the text benchmark then has none, unless it was given a number of
vertices. `Overrun` is where `divide_into_batches` has undefined behaviour:
an input without edges, whose largest element it looks at
(`divide_into_batches.cpp:74-80`), and a batch that begins behind the end of the
input; the model stops there.

`Bfs` has a step per access to shared memory: `TakeEntry` (reads the level),
`WriteLevel`, `VisitNeighbor` (reads a level and pushes), `Leave`. The code
relies on races being harmless ("no sync needed", `bfs.hpp:51`). A race on a plain
64-bit word is taken as on the build's targets, where a read gives the value
before or after; both are levels that are not yet or already this level.

### `Brandes`

`Look`, `Swap`, `Add` are the three accesses of a thread to shared memory for
an edge: the unprotected read of `distance`, the compare-and-swap with its
push, and the atomic addition. `Deeper` and `TurnRound` end a level's
`do_all`. The entries of an `InsertBag` are named by the edge that pushed
them, so a vertex pushed twice would be seen. A concurrent plain read of
`distance` returns the current value. Doubles are exact multiples of
`1 / Scale`, where every number of shortest paths divides `Scale` (`SharesAssumption`:
each finite graph has such a `Scale`), so rounding is left out; path counts do not overflow. Sources are taken in any order,
which covers the ascending one and every shuffle.

## 3. Runs

| Run | Instance | Shows |
|---|---|---|
| `exchange` | `TaggedExchange`, 3 hosts, 3 calls, each of the three endings | no message left over (`NoOrphan`), a call receives its own messages (`RoundPure`), the barrier separates calls (`BarrierSeparates`), refinement of `AllToAll` with its liveness (`AbsSpec`), while hosts run ahead of each other |
| `rrr` | 3 hosts, 4 nodes, 3 sets, 2 epochs | `FrequencyExact`, `FrequencyIsOccurrences`, `StoredIsReachable`, `OnePlace`, `EverySetStored`, `AllReturn` |
| `influence` | 2 hosts, 3 nodes, 3 choices, every family of 3 sets | `FrequencyAccounted`, `GreedyChoice`, `HostsAgree`, `LeftUncovered`, `AllReturn` |
| `influence_report` (violation) | the same with 2 choices | sets with the last chosen node are reported as uninfluenced |
| `cancel` | `Pipeline`, 2 hosts, 23 lines, 6 persons, 8 trades, 3 cancelled | `HandedOver`, `CancelExact`, `SoldCopiesAgree`, `BoughtCopiesBelow` |
| `quiesce` | 2 hosts, 7 nodes, 12 trades, whole amounts | `NoOversell`, `WithinDesired`, `NeedAccounted`, `LocalTradesBalance`, `MirrorsUpdated`, `AllReturn` |
| `quiesce_wire` (violation) | 2 hosts | a confirmed remote purchase leaves `bought_` as it was |
| `quiesce_quarters` (violation) | 2 hosts, amounts in quarters | a refused reservation stays on a mirror after the syncs |
| `edits` | 6 edges, 2 to 5 batches, all formats and algorithms, 3 threads | `BatchesIngested`, `AllBatchesRun`, `TrianglesExact`, `LevelsExact`, `RunEnds` |
| `edits_csr` (violation) | CSR, triangle count | the count on CSR misses a triangle: `sort_edges` sorts an empty range |
| `edits_points` (violation) | texts of 2, 4 and 5 batches | the algorithm runs more often than there are blank lines |
| `brandes` | 6 vertices, 11 edges, all sources | `PushedOnce`, `LevelsExact`, `CountsExact`, `CentralityExact` |

Why the bounds are enough:

- exchange: three hosts are the least for which a receiver that counts can mix
  up senders; three calls let a host be ahead while another is behind. The
  proofs cover all numbers.
- `rrr`: the graph has walks that leave a host and come back to it, a node
  reached twice, and a branch to two hosts that the end of the epochs cuts
  off. Two epochs and the finishing passes include a set that is two hosts from
  home at the end.
- `influence`: all families of three sets over three nodes contain ties,
  empty sets, sets with two chosen nodes, and no sets left before the last
  choice.
- `cancel`: cancelled nodes trade with each other on one host and on two, and
  one pair trades twice (a node and its mirror are subtracted from twice). One
  node only sells, to a mirror and to a master. Beside the trades there are
  lines that must not get into the network: a sale to a device, one of amount
  0, one of another topic, one that is no sale, and lines of the other files
  whose ids are those of traders. The command lines include those that are
  refused.
- `edits`: two triangles that share an edge, a cycle, a vertex whose edges come
  in descending order, one whose edges come in different batches. 2 batches divide evenly; of
  4 the last is empty, with edges loaded before or not; with 5 the dividing
  tool runs out of the edges. For the text benchmark 3 of 4 vertices are valid in a
  checked build, so that a source and a destination are out of range. The
  source of the search is in the graph from the beginning, later, or never. With
  three threads two can be at the same vertex while the third pushes it.
- `quiesce`: a seller for which buyers of its own host and of another one
  compete for less than they need together; a buyer with two sellers; a seller
  that is itself a buyer; one that has sold more than it bought. `Unit` = 100
  keeps the tiny and the ordinary numbers apart.
- `brandes`: three equally short paths, one of them double, an edge within a
  level, a way back, a loop, and from different sources walks of 1 to 4 levels.
  All numbers of shortest paths divide `Scale` = 16 (`SharesAssumption`).

Runs without `CHECK_DEADLOCK FALSE` check deadlock too. Terminal states loop
by an explicit action (`Terminated` or the like), so any other stop is an error.

Fairness: a thread inside a `do_all`, a host that polls for a message that is
there, and a host at a barrier that is open go on (weak fairness of each
host's steps, `HostStep`). This is what an operating system that schedules
every thread gives; nothing is assumed about the order of messages or threads.
In `TaggedExchange` a message that stays in the network is received at last
because the receiver polls. `EditWorkload` has weak fairness for the main thread
(`Main`), for the visits of `prepare_batch` together, and for each thread of the
search; no thread need ever be the one that gets an entry. Safety is
checked without fairness. `Brandes`, `Cancel` and `Pipeline` state safety only.

Findings: the five violation runs.

- `edits_csr`: `CSR::sort_edges` (`csr.hpp:81-82`) gives `std::sort` the same
  iterator twice, while `TriangleCounting` sorts for the sake of its binary search
  and the tests expect the exact number of triangles; with the other formats
  `TrianglesExact` holds in `edits`.
- `edits_points`: of a workload the documentation says that a blank line is an
  execution point and any other line an update (`README.md:74-75`), and of its
  example with one blank line that "the algorithm is executed once"
  (`README.md:92`). The program runs it once more at the end of the file,
  also for a text that ends with a blank line (`edit_scalability.cpp:160`), and
  in a checked build once for each line whose source is out of range
  (`edit_scalability.cpp:185-186`). `ExecutionPoints` is what the documentation
  says. `AllBatchesRun`, which holds, says only that no execution point
  is passed by and that no edge is lost in the end.
- `influence_report`: `GetInfluentialNodes` removes the sets of a node when it
  looks for the next one, so those of the last node stay
  (`influence_maximization.cpp:202-214`) and are counted in the number that is
  printed as "Remaining uninfluenced sets" (`influence_maximization.cpp:223`).
- `quiesce_wire`: updates are deferred until a remote edge is confirmed
  (`quiesce.cpp:233, 292`), but the weight is converted on its way
  (`quiesce.cpp:373`), and a confirmed trade changes nothing.
- `quiesce_quarters`: after "Update Mirrors with amount sold" (`quiesce.cpp:122`)
  a mirror keeps a reservation that was made without a bit in the bitset
  (`quiesce.cpp:221`). With whole amounts mirrors do agree, because a refused proposal
  leaves a mark with another buyer on the owner;
  `scripts/wf4/generate/commercial.py` generates fractional amounts.

A further disagreement can be read off the code and has no run: the comment at
`quiesce.cpp:220` says that old edges are increased, and the edge is a
copy (`quiesce.cpp:205, 228`), so that edges keep their amounts.

What `AllReturn` in `quiesce` does and does not say. The only tests that call
`QuiesceGraph`, `DISABLED_QuiesceOne` and `DISABLED_Quiesce`, are disabled with
"re-enable when no longer hanging in ci" (`test/wf4/test_quiesce.cpp:314-339`).
`AllReturn` does not contradict that: it is conditional. It says that hosts return if
every message that is sent arrives (the code leaves flushing to the network
layer), `recieveTagged` hands out what has
arrived to a host that polls, and Gluon's syncs return once all hosts are in
them. With these no loop of `quiesce.cpp` waits in vain: each host sends as many
messages per call as the others count, under the tag they look for, also when it
has nothing to propose, and its threads never wait for each other. So if the tests hang,
it is in what is external to the models. There are three candidates, between which the models cannot decide.
The fixture, `generateTestGraphs` (79-92), which no enabled test
uses, makes every process build a second substrate as host 0 of 1 beside the one it
shares with the others, and runs `CancelNodes` with its syncs over it.
The syncs at the end of `QuiesceGraph` follow `SendNewEdges` without a barrier, so that
Gluon's messages of a fast host may meet a slow one that still polls for tagged ones.
And there is the network layer itself, with several processes on the cores of one machine.
The pattern of sending and polling alone is not it: `RemoveNodesFromRemotes` has it too,
and the tests of the choice of nodes are enabled.

`NeedAccounted` does not cover a buyer with two trades with one seller, whose second
proposal the code can drop (section 4); this is listed under `hazards` without
a property. `NoOversell` is weaker than what `verifyState` prints as an
error (`quiesce.cpp:39`): it allows what the cancellation has left and what the
syncs make of mirrors, states that `verifyState`, which the program does not
call, would report. `WithinDesired` is its second condition (`quiesce.cpp:44`).

Something the models show and no comment contradicts: the barriers after the
exchanges of sampling and choice (`influence_maximization.cpp:634`) are not
needed for separating messages. Tags alone do that.

## 4. Proofs

Every component's module proves an inductive invariant (`IInv`, for what sampling
returns `RInv`, for the workloads `WInv`) by `Init => IInv`, one lemma per action, and a
temporal step. TLC has checked each invariant on the instances of section 3 as well (where
`WInv` speaks of all numbers, with those up to 16).

`TaggedExchange_proof` (any hosts, any number of calls, all endings):
`TypeCorrect`, `ExchangeIsPure` (`RoundPure`), `NothingLeftBehind` (`NoOrphan`),
`BarrierIsClean` (`BarrierSeparates`), `SkewIsBounded` (hosts are at most a call
apart), `SlotsWrittenOnce`, `ImplementsAllToAll` (every step is a step of
`AllToAll` or none). The receive loop only counts, so the property alone is
not inductive. The invariant says that for each receiver and call the filled
slots and the messages in flight together are one per sender that has sent;
counting to N-1 then means all of them. Assumptions: a finite set of hosts,
and the numbers are natural.

`RRRSets_proof` (any graph, distribution, number of hosts, sets, epochs):
`TypeCorrect`, `FrequencyCorrect` (`FrequencyExact`: a counter equals the
number of sets that have visited the node), `SetsConserved` (`OnePlace`). The
invariant adds in which containers a set may be for each phase of its host,
how `reach`, `frontier` and `queue` of a set lie in each container, and that
nothing is left where the program overwrites or clears a container.

The second part of that module (same generality) is about what is returned:
`AllSetsStored` (`EverySetStored`), `OccurrencesCounted`
(`FrequencyIsOccurrences`), `StoredReachable` (`StoredIsReachable`). `RInv` adds
three things to `IInv`. Hosts come out of a round only after all have entered it
(`Phases`), so a message on the wire has a receiver that still waits for it
(`Travelling`). From the first finishing pass on sets are only sent home, and
after the last exchange whatever a host still holds is its own (`Homeward`): when
one host is done nothing is waiting, in a bucket or on the wire, and by `OnePlace` every set
is stored. Reachability inside a set is not inductive as it stands, because a
finishing pass erases nodes; `Rooted` says that the root reaches every node of every
part of the set that keeps the visited nodes, so leaving the unvisited ones
out does no harm. The root itself is never erased: it is in the frontier only
while the set waits for its first pass.

`SumTheorems`: the sum of a function over a finite set (`SumFunctionOnSet`) is
computed by a recursive function on subsets that `CHOOSE`s the next element.
`SumExists` and `SumUnique` unfold it, and the rest are the facts that the
modules below add up with: element in, element out, union, pointwise
comparison, sum of sums, multiples, rows and columns, cardinality as a sum, a sum over other names. Where they go through the elements
they use `SetInduction`, which speaks of a set of subsets instead of an operator
and follows from the well-foundedness of the strict subset order.

`Influence_proof` (any hosts, threads, nodes, families of sets, number of
choices): `TypeCorrect` (no counter goes below 0), `FrequencyAccountedCorrect`,
`HostsAgreeCorrect`, `GreedyCorrect`, `LeftUncoveredCorrect`. Three arguments hold
each other up. A set is taken off a node exactly when the node leaves its
`todo`, and the count is then in `frequency_`, in an update or in a message.
Hosts are at most one round apart (`Phases`), hence nothing that
concerns a host's nodes is on the way while it looks for its maximum, and a maximum that
another host still has to read has not been replaced. And every host removes
the same sets, because it has seen the same maxima: as long as a set is left
one of them is above 0 and names a node, and once none is left the choices may
differ (`Garbage`) without any effect.

`Cancel_proof` (any trade network, distribution of nodes, cancelled set):
`TypeCorrect`, `CancelExactCorrect`, `SoldCopiesAgreeCorrect`,
`BoughtCopiesBelowCorrect`. The invariant is a ledger: a host's copy of a node
differs from what it was by the sum of the trades `Gone` through it, except
that a mirror, once touched, is only their negation. When all hosts are through
the trades gone at all hosts are together those with a cancelled partner,
and none is in two of them, so that the reduction leaves the sum of the trades that
`Stay`. These theorems are about the specification of `Cancel`, which starts from the
totals.

The second part of the module is about `MainSpec`, the whole of `Pipeline` with
`Cancel` (any lines, command lines, `half_max`): `HandedOverCorrect`
(`HandedOver`), and `ProgramCorrect`, which gives the four properties of `Cancel` in the
composition. Projection undoes import: what a host keeps of the edges read is, for each of
its nodes, the two edges of the node's trades and nothing else (`Projection`), so that
sums over lines are sums over trades (`AmountsAre`). Up to
the last stage `MainInv` says what a host has from its stage alone (`StageOk`, `CountersOk`);
the mirrors have their sums after the one exchange that all hosts take together. Once
all are there it is the ledger above. What links the two is that the first step of the
cancellation leaves a trace that stays until all hosts are past it
(`BegunForGood`), so that a state with none is the initial state of `Cancel`.
`TradesAssumption` says what the trades of `TradeGraph` are: the lines of
coffee sales between listed persons. It defines those constants; of the input it asks
only what `HalfMaxAssumption` does, that these persons have ids below
`half_max` (other ids meet those of devices).

`Quiesce_proof` (any trade network, distribution of nodes, cancelled set,
amounts and `Unit`): `TypeCorrect`, `NoOversellCorrect`, `NeedAccountedCorrect`,
`WithinDesiredCorrect`, `LocalTradesBalanceCorrect`, `MirrorsUpdatedCorrect`. That no seller oversells
is not inductive: threads add to `sold_` first and look afterwards, so it is above
`bought_` all the time, and `bought_` itself grows while the seller buys. What
is kept (`Fits`) is that for every level from the present `bought_` on, the open
reservations that were told a total up to that level fit below it, together with
everything sold for good: whichever of them are accepted, at whatever
`bought_` they read, there is room. That is for a host that has not sent
its proposals. Its amounts are whole units, and their sums are exact. From then on all
that arrives is smaller than half a unit, since a weight is sent as an integer
and read as a double: it vanishes in a whole unit, and in an amount of 0 it stays below
one (`Kept`); answers to it are 0. `WithinDesired` and
`NoOversell` therefore hold together with what the run `quiesce_wire` refutes: a
remote trade that was confirmed changes nothing. The assumption on `Unit` is
that all amounts together, counted as the wire counts them, are below half a unit.
A unit stands for 1/`Parts`, which is 2^1074 smallest doubles divided by a small power of two, so
that no sum of 64-bit integers comes near it.

A first form of `NeedAccounted` could not be proved, and was false: a buyer with two
trades with one seller of another host can propose to it twice, when reservations of
others come back in between, and `lazy_emplace` drops the second proposal after
`needed` was reduced (`quiesce.cpp:230-237`). The property now says that nothing
is ever counted twice, and that nothing is lost for buyers with one trade
per seller (`OneTradeEach`). The instance of the run has no such pair.

The last part of the module proves `MirrorsUpdatedCorrect`: of whole amounts (`Parts` = 1)
mirrors of a seller end with its master's `sold_`. The master is
synced only if a thread of its host marked it, so the proof is about why that happens: a reservation may
be refused, on a mirror's host as well as on the master's. `InvSeller` says that a
master is as the cancellation left it, without open reservations, or marked, or has an open
reservation that will be accepted: the first one always fits, as it was not for more
than was left, and is never taken back. `InvAway` says that what a host has added
to a mirror is an open reservation, or it has a proposal to that seller, who had something left.
Of whole amounts a proposal arrives as more than 0 (`ProposalSent`), and before the rounds are over
(`InvTime`); so it is tried unless the seller has been sold before (`OfferTried`). `Offered`
follows it from the wire to the mark, which is there at the sync. A fraction arrives
as 0 and is not tried, which is what the run `quiesce_quarters` shows.

`Brandes_proof` (any graph, any sources): `TypeCorrect`, `PushedOnceCorrect`
(one thread pushes a vertex; the code's assertion `distance[n] ==
currentLevel`), `LevelsCorrect` (the levels are those of a breadth-first
search). The levels are exact only when a walk ends, so the invariant says what
holds on the way: every vertex reached has an entry with its distance and an
edge from the level before (`Entries`), threads only have edges of the current
level in hand (`InHand`), and every edge out of a vertex reached is either in
hand or leads to a vertex reached, on the next level at most (`Followed`).
When a level is over nothing is in hand (`NothingInHand`), and the last
disjunct is gone.

The same module proves `CountsCorrect` (`CountsExact`: when a walk turns
round every vertex has the number of its shortest paths). `CountInv` says that the counts
of the levels up to the current one are the numbers of walks of that length
from the source, and that a vertex of the next level has the sum over the edges
into it that have been followed, those in hand left out; losers of the swap add as
the winner does. An edge is in hand at most once, so an addition moves one
term of the sum, and when a level is over the sum is that of all edges, which is how `Walks`
goes on. Every level up to the current one has a vertex (`Counted`), hence levels stay
below the number of vertices and `Walks` covers them.

Its third part proves `CentralityCorrect` (`CentralityExact`: between two sources the
scores are the betweenness centrality for the sources so far). The property defines
betweenness by paths alone: for each target, the part of the shortest paths that leads
through the vertex. The code never counts those paths; it adds up, level by level, what
the successors have got (Brandes' recursion), and most of the proof is that the two
are the same. A walk that is counted by its last edge can be counted by its first
(`WalksBegin`, two sums swapped), and walks join (`WalksJoin`); so a shortest path through a vertex that
does not end there goes on by an edge to the next level (`OnPaths`). The share of
a vertex in a target is then the sum over those edges (`VertexShare`), and over all targets
that is the recursion (`ShareIs`), which the backward pass computes for one
level (`DependencyIs`). `ScoreInv` carries it through the steps: from
the turn on distances and counts are the reference's (`Walked`), levels behind the
current one have their dependency and those before have none (`Depends`, `Summed`), and the scores
are the sums of the sources before plus the dependencies so far (`Scored`).
`SharesAssumption` is used where the code divides by a number of paths: the quotient is exact.

`EditWorkload_proof` has the proofs about `EditWorkload` and the search in it. First the
search alone (any graph, any source, any set of threads): `TypeCorrect`, `LevelsCorrect`
(`LevelsExact`). In contrast to `Brandes` nothing decides who
reaches a vertex: entries may be there several times, and a vertex that is in the next
worklist may be given the current level by a thread that took another entry of
it. The invariant therefore speaks of everything that is under way: an entry of
the current (next) worklist is of a vertex with a neighbour one level before the
current (next) one (`UnderWay`), though the vertex may have a level by now; a
thread is at a vertex of the current level, which it finds without a level or
with that one (`AtLevel`). Levels that are written have a neighbour one level
before and are not ahead of the current one (`Reached`), and every edge out of
a vertex with a level ends at a vertex with a level, at one that is under
way, or is still ahead of a thread at that vertex (`Followed`). When a level is over
(`LevelOver`) the last case and half of the second are gone; when the next
worklist is empty only the first remains, which is `LevelsExact`. Doubled work
and lost races never show in the result.

Then the workloads (any input, command lines, formats, threads): `WorkloadTypeCorrect`,
`WorkloadLevelsCorrect`, `BatchesIngestedCorrect`, `AllBatchesRunCorrect`,
`TrianglesCorrect`. The input has no edge twice (`EdgesAssumption`), and a command line is
one that the programs accept (`JobsAssumption`). The invariant, `WInv`, follows the edges.
`Content` says where they are: an edge that has been taken is in the batch or in the lists of
the format, never in both, and nowhere twice, and no other edge is anywhere; the
vertices are those up to the largest one named. It has to speak of both at once,
because an ingestion appends a list without looking for what is there
already. For the text benchmark it needs that the lines still to be read have the rest,
which is what `Divided` says of the whole file: every edge of the input is on exactly one line.
`CopyInv` is about the second copy of the edges: outside `post_ingest` the walk has the
same vertices and edges as the lists, for CSR by way of the prefix sum and the compaction. `Counting`
ties the number of batches to the lines that have ended one, with the
one under way not yet counted, and `Phases` says what may be where between phases, such as that
`eof` ends the reading for good. The search is the invariant above (`SearchInv`), which holds in
a run since the graph only changes while no search is under way.

The lemmas before it say what the parts compute: a sorted list has the elements it
was made of, in order and each once (`RankedIs`); the halving search of the triangle count finds what a
sorted list has (`LowerBoundIs`, `FoundIs`); the arrays of CSR, read back, are the
lists they were filled from (`CompactWalkIs`); the file has every edge once (`DividedTextIs`);
batches lie side by side, and the last one ends with the input (`EndEdgeIs`). They are
stated of lists of any length. Where a definition recurs (the prefix sum, the halving, the
lines put one after the other) the proof takes the least number at which the lemma fails.

That the number of triangles is that of the graph (`TrianglesCorrect`) is a pairing: each place
where the three loops count is sent to the two edges it has come along. Lists without
repetition make that one to one, and `CopyInv` makes it reach all pairs of
edges that a third one closes. The search for the third edge needs a sorted list
(`SortInv`), which `CSR` has not, as `sort_edges` leaves it alone; the theorem leaves out that format and
no other, and the run `edits_csr` shows the count that is wrong.

Only model-checked: liveness (`AllReturn`, `RunEnds`, the fairness part of
`AbsSpec`), which is out of the prover's reach. Every safety property of the passing runs is proved for all
values of the constants, three of them where the code keeps them: `MirrorsUpdated` for
`Parts` = 1, `TrianglesExact` for formats other than CSR, and `CentralityExact` for a `Scale` that makes
quotients exact.

## 5. Not modelled

- Probabilities and random numbers: choices are nondeterministic.
- Galois and Gluon themselves, MPI, and failures of hosts or of the network:
  the program assumes both reliable and has no recovery.
- Splitting of lines into tokens, timers, logging, `stats.hpp` (counters of the
  processor and of memory, printed), plots, job and generator scripts.
- Page rank (`pr.hpp`): rounds of floating-point sums, up to a fixed number; what could
  go wrong is rounding, which exact numbers would hide.
- The Galois graphs behind LC_CSR, LS_CSR and MorphGraph, with the log and its compaction.
- Input the programs do not check: a workload file that cannot be opened (the text
  benchmark then never sees `eof`) or with something else than numbers or with
  blanks at the end of a line; edges that are there twice (MorphGraph may keep one);
  `--num-batches 0` for the large benchmark (a division by zero);
  person ids in the upper half; a trader that `nodes.csv` does not list.
- Stack and memory limits (`quiesce.cpp:366` allocates a message on the stack).
- `SerialBetweennessCentrality` (`bc.hpp:173-242`), marked as unused.
- A node that occurs twice in the list of nodes to cancel: it would be
  subtracted twice; `Cancel` takes a set.

## 6. Plan

1. Done: exchange and its proofs; sampling with the first proofs; choice; cancellation;
   quiescence; betweenness centrality with proofs; import, projection and edge
   probabilities in front of the cancellation; edit workloads over all graph
   formats with triangle count and breadth-first search, with proofs.
2. `Quiesce` at the end of `Pipeline`, in one unit of amounts; repeated nodes in
   the list of nodes to cancel.
3. Done: proofs about choice, cancellation and quiescence; the path counts and the scores of
   `Brandes`; `HandedOver` and the properties of `Cancel` for the whole of `Pipeline`.
4. Done: proofs about `EditWorkload`: levels, triangles, edges read and batches run.
