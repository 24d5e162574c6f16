# Pruned landmark labeling in TLA+

This directory holds a formal model of `src/src/pruned_landmark_labeling.h`, the
class template `PrunedLandmarkLabeling<kNumBitParallelRoots>`: an index that
answers the distance between any two vertices of an undirected, unweighted graph;
and of the parts of the vendored NetworKit library that its programs run.
The modules are checked with TLC on small instances, and the results that matter
most are proved with TLAPS for every instance. `PROJECT.json` lists the runs, the
theorems, the hazards of the code and the line of the source behind every
definition. Line numbers below are those of `src/src/pruned_landmark_labeling.h`
unless another file is named.

## 1. The system

The program is one header, used by three command-line programs and one unit test,
and the part of NetworKit that reads edge lists and ranks vertices. It is
sequential but for the sampling of shortest paths in NetworKit, which runs in
parallel threads and may be interrupted; there are no messages and no timeouts.
What makes it hard is that its searches rely on each other. A search stops wherever the labels
written so far already answer the distance, so one label that promises too little,
or one array that an earlier search left dirty, silently changes all later
searches, and the answer that comes out wrong belongs to a pair far away. The
other difficulties are small integers (`uint8_t` distances, unsigned differences,
64-bit masks), loops that end only because of a sentinel, and allocations that may
fail half-way.

| Part | Lines | State | Operations | Correct when |
|---|---|---|---|---|
| Edge list reader | `NetworKit/io/EdgeListReader.cpp` 39-140, `graph/Graph.cpp` | a NetworKit `Graph` | `readContinuous`: two passes over a file | the graph has the edges of the file, each once |
| Betweenness ranking | `NetworKit/centrality/ApproxBetweenness.cpp` 30-115, `Centrality.cpp` 29-42 | scores per thread, the interrupt flag | `run`, `ranking` | every node ranked once, only nodes inside shortest paths score, an interrupt leaves no half ranking |
| Preparation | 136-227, 469-557 | edge list, `V`, `adj`, `inv`, `rank` | the `ConstructIndex` overloads | `inv` and `rank` are inverse permutations, `adj` is the graph relabelled |
| Bit-parallel labelling | 230-343, 558-671 | `usd`, `tmp_d`, `tmp_s`, `que`, `sibling_es`, `child_es`, `bpspt_d`, `bpspt_s` | choose a root and up to 64 neighbours, scan a level, fold its masks, copy a tree | distances and masks are exact; every walk through a used vertex is answered |
| Pruned labelling | 345-464, 674-794 | `usd`, `vis`, `que`, `dst_r`, `tmp_idx`, `spt_v`, `spt_d` | skip or start a root, prune or label a vertex, next level, clean up, copy | labels sound, exact, minimal, sorted; shared arrays clean between searches; every pair answered |
| Query | 797-842 | the finished index | `QueryDistance` | the distance below `INF8 - 2`, `INT_MAX` otherwise; reads stay inside the lists |
| Index file | 844-945 | a stream, the index | `StoreIndex`, `LoadIndex` | loading what was stored gives the same index; a damaged file is refused |
| Life cycle | 101-105, 136-193, 947-957 | `num_v_`, `index_`, the heap | constructor, `Free`, repeated `ConstructIndex` and `LoadIndex` | no block is lost or freed twice; the result of a call says what the object holds |
| Programs | `src/samples/*.cc` | options, standard streams | construct, query, benchmark | the calls come in the right order, on the same file |
| Test | `src/src/pruned_landmark_labeling_test.cc` | | its own BFS, `Test` | read as documentation |
| Header variants | `.bak.h`, `.int.h`, `.uint64_t.h` | as above | as above; the first two with 32-bit integers | they read what they write (the last does not) |
| Others | `profiler.h`, the rest of `src/include/NetworKit`, build files, tools | | | no effect on the index, or not this program's code |

Interactions. The parts call each other in the order of the table and share state
through the object and through `ConstructIndex`'s locals. Pruned labelling reads
`usd`, `bpspt_d` and `bpspt_s`, which bit-parallel labelling wrote. `QueryDistance`
relies on the order and the sentinel that pruned labelling gave the lists. The two
overloads of `ConstructIndex` are the same code except for the vertex order and
where the edges come from. The index file connects processes: `construct_index`
stores it and `query_distance`, compiled separately, loads it.

What is hard to test in it is listed in `PROJECT.json` under `hazards`. The ones
that shaped the model:

* A search prunes at a vertex; the vertices behind it must then be answered by
  earlier hubs. This is a property of the whole sequence of searches.
* `td - 2 <= d` is computed in `uint64_t` (387, 817): it wraps for `td` below 2.
* `tmp_idx_v.second.back() = d` (405) casts the depth to `uint8_t`; only the
  sentinel's own entry in `dst_r` keeps it from being truncated.
* The masks of a tree without a root are never written (243).
* At depth `INF8` the process exits inside the construction (325-331). A vertex at
  that depth is pushed once per edge, because its new distance is the mark of an
  unreached one (295), and every copy of it is scanned and adds its sibling edges once
  more (290).
* The merge of `QueryDistance` (826-838) has no end condition of its own.
* Vertices have three numbers: in the file, in the graph (shifted by the first
  node) and in the order. `inv`, `rank`, the relabelled lists and `index_[inv[v]]`
  must all be of one order (517-533, 448), and the ranking has nodes that have no
  edge, `V` counts only up to the last edge.
* The two sides of the index file are written apart, with different widths (856,
  917); failures are noticed late (886, 904, 911).
* `num_v_` is set before anything is allocated (174, 859), and `Free` goes by it.

## 2. Modules

| Module | What it holds |
|---|---|
| `PLLGraph` | graphs as adjacency functions, distances as balls (`Within`, `AtDistance`) |
| `PLLIndex` | the index, the bound of a tree, the result of `QueryDistance`, and `Handover`, the contract between the two phases |
| `BitParallel` | bit-parallel labelling: `SelectRoot`, `NoRootLeft`, `ScanVertex`, `FoldLevel`, `WriteTree`, `TreesDone` |
| `PrunedLabeling` | pruned labelling: `SkipRoot`, `StartRoot`, `PruneVertex`, `LabelVertex`, `NextDepth`, `FinishRoot`, `CopyLabels`, `CopyFails` |
| `DistanceOracle` | the abstract specification: what a user is promised |
| `ConstructIndex` | both phases and the queries after them; implements `DistanceOracle` |
| `NetworKitGraph` | class `Graph`: adjacency arrays, `AddEdge`, `HasEdge`, `EdgesOf`, searches |
| `EdgeListReader` | `readContinuous`, line by line in its second pass |
| `Betweenness` | `ApproxBetweenness::run` with its threads and interrupts, and the ranking |
| `Preparation` | the whole life from the input to the answers: extends `ConstructIndex` and `Betweenness`; implements `DistanceOracle` over the graph of the input |
| `IndexFile` | an object, its heap and its file: construct, free, store, load, restart |
| `QueryMerge` | the two loops of `QueryDistance`, iteration by iteration; shown to compute `PLLIndex!QueryDistance` |
| `PLLIndexProofs` | lemmas about balls, distances, lists and tree bounds |
| `PrunedLabelingProofs`, `PrunedExactProofs` | theorems about pruned labelling: what the searches keep, and that their labels are exact |
| `BitParallelProofs`, `ConstructIndexProofs` | theorems about the first phase, and about both phases with the queries |
| `QueryMergeProofs`, `IndexFileProofs`, `PreparationProofs` | theorems about these modules |
| `MC*` | instances for TLC; `MCGraphs` builds the families of graphs |

`BitParallel` and `PrunedLabeling` both extend `PLLIndex` and share its variables;
`ConstructIndex` extends both, and `Preparation` replaces its `Init` and
`Allocate` by what comes before the phases. `IndexFile` stands apart: what an index
says is given to it, because no property of the file depends on the distances. `PLLIndex` and `PLLGraph` also hold the assumptions
on the constants.

### How state and actions correspond to the code

* **Vertices** are the numbers after relabelling: `0` is the first root. Since TLC
  runs all graphs on `0..V-1` and the theorems hold for all graphs, the results hold
  for every order the preparation may choose. `index_[inv[v]]` is then `spt[v]`,
  `bpspt_d[v]`, `bpspt_s[v]`.
* **Adjacency** is a set of neighbours. A repeated edge repeats an entry of
  `adj[v]`; the second is ignored in the searches by `vis`, `usd` or `tmp_d`, and
  adds one to both `E` and the use of the edge buffers. (At depth `INF8` it is one more
  push, but there the buffers are left open anyway.)
* **`que`** is split at `que_t0`, `que_t1` and `que_h`. `cur` is what is left of
  this level, `nxt` the next level, `que` (in pruned labelling, which scans it again
  in order to clean up) all of it. The order inside a level comes from the
  adjacency lists; the actions `\E v \in Vertex : ...` leave it open, so all orders
  are checked. `que_h` is counted push by push, so that pushing a vertex twice shows.
  In bit-parallel labelling a vertex `INF8` away may really be in the queue several
  times, and is then scanned as often: `bp_cur` and `bp_nxt` count the copies of each
  vertex. The edges of a level are a set, because folding one twice changes nothing;
  `num_sibling_es` and `num_child_es` are the slots the code uses for them. What it does
  behind the end of an array is undefined: the model goes on as if there were room.
* **A step** is the visit of one vertex, the end of a level, or the start or end of
  a search. Everything the code does in it is in one action: `FinishRoot` clears
  `vis` and `dst_r`, sets `usd` and moves `r`.
* **Lists** are sequences of `<<hub, distance>>` that end in the sentinel
  `<<V, INF8>>`. `AddLabel` overwrites the sentinel and pushes a new one, as the code
  does, with the cast of the distance to a byte.
* **Masks** are sets of bits. `a & b` is an intersection, `|` a union, `& ~` a
  difference; `1ULL << ns` is the bit `ns`, and the `break` at 64 is `MaskBits`.
  A mask that was never written is the model value `Uninit`, which
  `UninitAssumption` keeps apart from all masks.
* **Numbers.** `INF8`, `Byte` (the values of `uint8_t`), `Word` (the values of
  `uint64_t`) are constants, so that boundaries are near in small instances. In the
  code they are 100, 2^8 and 2^64; the assumptions, `Byte >= 2 * INF8` and
  `Word > 2 * Byte`, hold of these, and `INF8 <= IntMax` says that an answer below
  `INF8` is not `INT_MAX`. `td - 2` and the corrected `td` are taken modulo
  `Word`; a stored label is taken modulo `Byte`.
* **Input** is a record: who calls, the lines of the file with their numbers, the
  first node, whether edges are directed. A line is empty, a comment, or a text with
  fields; how a field is spelled is left out. What the code would do with a number
  below the first node is undefined, and taken for the end of the process. A user of the
  library makes his graph edge by edge (`MakeGraph`, `GiveEdge`, `GraphGiven`). Only the
  reader subtracts a first node, so `InputsAssumption` says that it is 0 for the others,
  and that the line of three fields, which would make the graph a weighted one, is never
  the first text. A file may list an edge twice and in either direction.
* **Edges of a graph** are listed by their place in the adjacency arrays: `EdgesOf` is a
  function from places to edges, since only which edges there are, and how often,
  reaches the index. For a stream `es` is a sequence, the places being the positions.
* **Orders.** `OrderedWith` gives the order of the degrees for one draw of the random
  parts; the draws run over all multiples of `1/Jitter` from 0 to 1. `Rankings`
  gives every order `ranking` may return: scores are sums of `1/r` in floating
  point, so nodes that scored equally often may come in either order, but nodes
  without a score are exactly equal and come by number. That tie-break keeps nodes
  behind the last edge out of the first `V` places.
* **Threads.** A sample is drawn, searched and walked back step by step, and threads
  interleave at these steps. The search reads only what nobody writes, so its two
  tests of the interrupt flag are one. When `run` ends with an exception its handler is
  destroyed, which resets the flag (`RunBegin`, `Join`).
* **The file** is a sequence of digits; a digit stands for a byte and has `Base`
  values. `Digits` and `Number` write and read integers of `Half` or `2 * Half`
  digits, each where and how wide the code does it, and a hub that was written as 32
  bits and is read as 64 takes digits from its neighbours. The repository has four
  headers of the class, of two kinds: the one in use and `.uint64_t.h` are `"wide"` (they
  write 64-bit counts and read 32-bit ones, and the hubs the other way round), `.bak.h`
  and `.int.h` are `"narrow"` (32 bits on both sides). A read behind the end
  leaves a field `Uninit`, or, where the code goes on to use it, any of `Garbage`.
* **The heap** is the set of addresses `memalign` has returned and nobody has freed,
  and every entry knows its two. Which address is vacant is fixed by `CHOOSE`:
  addresses are compared with `Null` only.
* **Crashes.** `Restart` ends the process anywhere; `Store` may leave any prefix of
  the file, whether or not it has returned `true`.
* **Failure.** `memalign` may fail for the index (`Allocate`) and while the labels are
  copied (`CopyFails`, after which `Free` has emptied the index), and `exit(2)` is the
  state `"exited"`.

### Fairness

There is one thread, except for the samples, and nothing in the construction waits;
the loop over the samples ends whichever thread takes the next step. Each specification that
states liveness has weak fairness on its construction (or query) step as a whole and
on no single action: a step that is possible is eventually taken, and which one is
open. The caller of the finished index is not fair: nobody has to ask. Nor is the user who may interrupt.
`IndexFile` states no liveness: each of its calls is a loop over the entries that
may fail at each turn and end there.

## 3. What TLC checks

| Run | Instance | Shows |
|---|---|---|
| `pruned` | all graphs on 5 vertices with a tree that has no root, every order of visits; for those whose edges join the first 3 vertices, also any tree that satisfies `Handover` | types, exact, minimal and well-formed labels, clean arrays, the queue fits, every prefix of the searches answers its pairs, exact answers, termination; `Handover` is all that pruned labelling needs of the trees |
| `pruned_paths` | paths of 10 vertices in three orders, `INF8 = 4`, `Byte = 8` | the inductive invariants `SearchInv` and `AnswerInv`; labels stay sound beyond the range of a byte; pairs too far apart are told `INT_MAX` |
| `bit_parallel` | all graphs on 4 vertices, with self-loops, beside an edge, or with a vertex in front and one behind, which has one edge or three; 4 trees, masks of 2 bits, `INF8 = 3` | distances and masks exact, edge buffers and queue fit unless a vertex is `INF8` away, unwritten masks never read, `Handover` established, the inductive invariants `TreeInv` and `BuffersInv`, termination |
| `construct` | all graphs on 5 vertices, 2 trees, masks of 1 bit | both phases together: labels exact, answers up to the gap of section 4; the inductive invariant `BuildInv`; implements the oracle |
| `preparation` | 56 streams (all graphs on 4 vertices whose last vertex has an edge), a cycle, two files of pairs, four files that cannot be read, files and graphs with direction, a graph with nodes behind the last edge; 2 threads, 2 samples, no tree, `INF8 = 4` | the graph is the file; scores, interrupts and orders; from input to answer in the input's numbers the class implements the oracle without a gap, with pairs on both sides of the limit |
| `index_file` | indexes of 0, 1 and 2 vertices with one tree, 9 addresses, headers of both kinds | calls in any order with every failure and restarts: nothing leaks, `Free` is safe, a failed construction or load leaves an empty or a whole object, cut files are refused, `.bak.h` and `.int.h` load what they store |
| `query_merge` | all pairs of well-formed lists over 3 hubs, 2 trees | the inductive invariant `MergeInv`; the loops stay in bounds, return, and compute what `QueryDistance` of `PLLIndex` says |
| `bit_parallel_exit`, `construct_gap`, `construct_far`, `construct_starved`, `index_roundtrip` | | disagreements with the documentation, section 4 |

Why the bounds are enough. With 5 vertices there are searches that prune at one
vertex and go around it, and vertices whose only shortest path to a root runs
through a pruned one; the wrong variants below need at most that many to be found.
Four trees on six vertices make some tree start after used vertices and some find
no root; two bits and three neighbours make a neighbour not fit, as the 65th does. With
`INF8 = 3` a vertex in front of an arbitrary graph of four and one behind it, with one
edge or three, may be `INF8` apart. The last one is then in the queue up to three times:
searches pass through the repeated scans and the exit, and in some the queue has no room
left (without its exception `BuffersFit` is violated).
A path of 10 vertices with `INF8 = 4` has depths of `2 * INF8` and more, where a
byte would overflow. Lists over three hubs make each list end first, equally, and
with a gap.

In `preparation` two threads and two samples let one thread score while the other
skips, and let both score the same node; a cycle of four gives two shortest paths to
choose from; three lines of the shorter files are enough for each way a line can be
refused. `Jitter = 2` has the draws 0, 1/2 and 1, with which a degree overtakes the next
one, ties with it, or does neither. In `index_file` two vertices make `memalign` fail
between entries, and three indexes of different sizes make every replacement of a
larger by a smaller one and back. Nine addresses are four more than the largest index
needs, so that sizes read from `Garbage` fit in some states and not in others. A
digit of four values with two digits for a 32-bit integer has room for all numbers in
these indexes and for negative counts.

For every property of these runs `PROJECT.json` names a wrong variant of one
definition (an operator `Mut...` in the module), such as a bug a programmer could
make: the property is violated under it.

What the main properties say:

* `PrefixAnswered`: after the searches of the roots below `r`, every pair with such
  a root is answered exactly by trees and labels. This is what lets later searches
  prune, and it is what a single wrong pruning breaks first.
* `LabelsExact`, `LabelsMinimal`: the depth at which a pruned search reaches a vertex
  it labels is the vertex's distance although branches were cut, and no label could
  have been left out.
* `Handover` (property `TreesHandedOver` of the first phase, assumption of the
  second): the bound of a tree is the length of a walk through a used vertex
  (`TreesSound`), each walk through a used vertex is matched by a tree unless a `td`
  wraps (`TreesCover`), a tree has either all its masks or no root and no
  unused vertex is left (`MasksWritten`), and only used vertices are at distance 0
  in a tree (`TreeRootsUsed`). Without the last, a `td` could wrap between two
  vertices of a search, and the label that a tree should have made needless would be
  written. It does not suffice that a tree never
  promises less than the distance: pruned labelling stops at such a vertex, and what
  lies behind it is answered only if the walk really passes a used vertex.
* `BuffersFit`: `child_es` never holds more than `E` edges, and as long as no vertex is
  `INF8` away from the root, neither does `sibling_es`, nor the queue more than `V`
  vertices. The exception is needed, and not for the queue alone. With `INF8 = 3` take
  the edges 0-1, 1-2, 1-3, 1-4, 2-5, 3-5, 4-5, 5-6, 5-7, 5-8 and 5-9, and the root 0:
  5 is 3 away and is pushed three times, by 2, 3 and 4, and each copy adds its four
  edges to 6, 7, 8 and 9, which still have the distance of a vertex not reached. That is
  12 entries in an array for 11 edges, with 8 of the 10 slots of the queue in use. With
  the `INF8` of the code the same happens at depth 100.
* `LevelsExact`: for the finished levels `S^{-1}` is the set of chosen neighbours one
  nearer than the root, and `S^0` without it the set of those equally near.
* `ImplementsOracle`: the two phases and the queries refine `DistanceOracle` over the
  relabelled graph.
* `InputAnswered`: the whole life refines it over the graph of the input, in the
  numbers of the input. An order that is no permutation, a list relabelled by the
  wrong one of `inv` and `rank`, or an edge lost by the reader would break it.
* `NoLeak` and `FreeSafe`: whatever fails on the way, every block can be reached from
  the object, and `Free` finds the entries `num_v_` promises, unless a vector has
  thrown `bad_alloc` (174-186): then `num_v_` counts entries of a null pointer.
* `ConstructReturned`: from edges or a `Graph`, `ConstructIndex` returns `true` with the
  index and `false` with an empty object. From a stream it returns `true` either way
  (section 4), but leaves one of the two.
* `FailedLoadEmpty`: a load that returns `false` leaves an empty object, or the stream
  had ended or broken without `LoadIndex` noticing before its last line (904). Such a file
  may be cut anywhere, in the header too, when the counts that were never read happen to
  fit; the object then keeps an index of which every entry has its arrays.
* `LoadedIsStored`: a load that returns `true` has restored what was stored by the
  same header, though counts may be used that were never read.
  `NarrowStoredLoads`: and a whole file does load, in programs of `.bak.h` and `.int.h`.

## 4. Findings

* `construct_gap`: `td - 2 <= d` wraps for a `td` of 0 or 1, so the tree of a
  bit-parallel root is passed over when the root is asked about itself or a
  neighbour. With trees the class keeps the oracle's promise only with `Gap = 2`:
  pairs at distance 0 or 1 may be told a larger distance. `src/README.md:11` calls
  the method exact, and the test asserts the distance of every pair.
* `bit_parallel_exit`: `exit(2)` at depth `INF8`.
* `construct_far`: connected vertices at distance `INF8 - 2` and more are told
  `INT_MAX`; the documentation reserves it for unconnected ones.
* `construct_starved`: the overload of `ConstructIndex` for streams drops the result of
  the construction (151) and returns `true` of an empty object when `memalign` has
  failed; the documentation has it return `true` "when successful" (70).
* `index_roundtrip`: `StoreIndex` writes the counts as 64-bit integers, `LoadIndex`
  reads 32-bit ones; it finds 0 trees and refuses every file of an index with trees.
  `query_distance` therefore cannot load what `construct_index` has stored. The test
  asserts the round trip. `.uint64_t.h` has the same mismatch (838, 881, 899, 919 there).

Seen while modelling, without a run of their own:

* Without trees (the benchmark's class, and the first type of the test) the load
  returns `true`, because 0 trees are expected, and the lists are not those stored:
  `LoadedIsStored` fails in the instance `K = 0`. A file of `.bak.h` or `.int.h` may be
  accepted and misread by the header in use in the same way.
* When a vertex is `INF8` away from a bit-parallel root, `sibling_es` and the queue may
  be written behind their ends before the process exits (`BuffersFit`, section 3).
* The test passes vectors of pairs of `int`, which no overload of the current header
  takes: it no longer compiles.
* After `getopt`, `construct_index` opens `argv[1]` and `argv[2]`; with any option
  these are no longer the files (`src/samples/construct_index_main.cc:118`). `-s` is in
  the usage message and is refused.
* `construct_index` subtracts a first node of 1 unless told otherwise,
  `query_distance` subtracts nothing.
* An interrupt during the ranking of a graph of small diameter is swallowed; during
  another it ends the program with an exception that nobody catches.

## 5. What TLAPS proves

Everything in this section is proved for every graph, every number of vertices and
trees, and all sizes of numbers that the assumptions allow. The proofs of one
component use those of the component before it, in the order of the code: the first
phase keeps the promise `Handover`, the second needs nothing else of it, the queries
need nothing but the finished index.

### Pruned labelling keeps its lists and arrays in order

`PrunedLabelingProofs`, from any initial state that satisfies `Handover`:

| Theorem | States |
|---|---|
| `PrunedInvariant` | `PrunedSpec => []SearchInv` |
| `PrunedTypeCorrect` | every variable keeps its type |
| `LabelsAreSound` | no label promises less than the distance to its hub |
| `HubsAreAscending` | lists are strictly sorted by hub and end in the sentinel |
| `ArraysAreClean` | no search leaves a mark or a loaded distance behind |
| `QueueAlwaysFits` | no search pushes more than `V` vertices |

None of these is inductive. That `vis` is empty between searches needs that it is
the queue during one; that `dst_r` is reset needs that only hubs of the root were
loaded and that the root's list only grows; that hubs ascend needs that no
unvisited vertex has the current root as a hub; soundness needs the depth of the
vertices still in the queue. `SearchInv` says all this: `ListsInv` at all times,
`BetweenInv` between two searches, `DuringInv` in one. There is one lemma per
action, and in it one step per part.

The cast to a byte is the delicate part. The lemma `DepthFits` shows that it is the
identity: every list ends in the sentinel, whose slot in `dst_r` is always `INF8`,
so the test `td <= d` prunes every vertex at depth `2 * INF8`, and the depth of a
label is below that, hence below `Byte`. With `INF8` above `Byte / 2` it would be
wrong; in the code 200 is below 256.

### Pruned labelling is exact

`PrunedExactProofs`, from the same initial states:

| Theorem | States |
|---|---|
| `AnswerInvariant` | `PrunedSpec => []AnswerInv` |
| `PrefixIsAnswered` | every pair with a finished root is answered exactly |
| `LabelsAreExact` | the label a search writes is the distance to its root |
| `LabelsAreMinimal` | no label could have been left out |
| `QueriesAreExact` | the finished index answers the distance below `INF8 - 2`, `INT_MAX` otherwise, unless a `td` wraps |

`AnswerInv` adds to `SearchInv`:

* `CoverInv`: a walk of fewer than `INF8` edges through a used vertex is answered by a
  tree, or by a hub common to both lists, as well as by its length. It is this form,
  about walks through used vertices and not about shortest paths, that survives a
  search. `PrefixAnswered` is the special case of shortest walks.
* `UsedInv`: all roots so far are used, and the root of a search is not.
* `LoadedInv`: `dst_r` holds the distance of each hub of the root, and of nothing else,
  so the test of `td` in the search is the merge that `QueryDistance` would do.
* `FrontInv`: a vertex at distance `n` from the root, with no used vertex on any of
  its shortest paths, is labelled once the search is past depth `n`. A vertex is pruned
  only where the distance is answered already; by soundness that is where a shortest
  walk passes a used vertex, and then all vertices behind it have one too.
* `LabelsExact` and `LabelsMinimal` belong to the invariant: a label is written at a depth
  that no used vertex explains, so the depth is the distance.

At the end of a search `FrontInv` gives a label to every vertex that the new root
answers, and `CoverInv` holds with the root among the used vertices (lemmas
`SearchComplete` and `FinishRootCovers`).

### Bit-parallel labelling

`BitParallelProofs`, for any adjacency, `K`, mask width and choice of roots:

| Theorem | States |
|---|---|
| `TreeInvariant` | `BitParallelSpec => []TreeInv` |
| `BitParallelTypeCorrect` | masks have bits below `MaskBits`, distances at most `INF8` |
| `LevelsAreExact` | distances and masks of finished levels are exact |
| `BuffersAreLargeEnough` | no array of a search is overrun unless a vertex is `INF8` away, and `child_es` never |
| `UninitIsUnread` | no mask is read that was not written |
| `TreesAreHandedOver` | the phase ends with `Handover` |

`TreeInv` says of each written tree that it is absent or `IsTree`: distances are exact,
`S^{-1}` is the set of chosen neighbours one nearer than the root and `S^0` the set of
those equally near without it (`TreesInv`). During a search, `DistancesInv` says which
vertices have a distance, `EdgesInv` that the two edge lists hold the edges of the
scanned part of the level, and `MasksInv` that masks are complete below the depth,
that `S^{-1}` is complete at the depth, and that `S^0` there has what the parents pass
on. The fold of a level (lemmas `FoldValues` and `FoldLevelKeeps`) is where both become complete: the
siblings first, then the children. `Handover` then follows by a calculation on the
masks: if `x` and `y` share a bit in `S^{-1}`, or in `S^{-1}` of one and `S^0` of the other,
then the chosen neighbour of that bit lies on a walk of the corrected length, and
conversely.

`BuffersInv`, proved beside `TreeInv`, counts the slots. Before depth `INF8` no vertex
is in the queue twice (`CopiesInv`, a part of `TreeInv`), so a vertex is scanned once, no
edge is found twice (lemma `ScanCountsEdges`), and a vertex pushed has a distance (`PushedFar`). A
search that gets further has met a vertex that is `INF8` away. There, an edge to the next
level is no longer found, since no distance is above `INF8`: this is why `child_es` fits
whatever happens.

### The construction and its queries

`ConstructIndexProofs` puts the phases together:

| Theorem | States |
|---|---|
| `BuildInvariant` | `Spec => []BuildInv`: each phase has its invariant, in the other's presence |
| `ConstructedLabelsAreExact` | labels are exact with whatever trees the first phase made |
| `OracleRefined` | every behaviour is one of `DistanceOracle`: initial states map to initial states, every step to a step or a stutter |
| `FinishedIndexIsQueried` | a finished construction satisfies the initial condition of `QueryMerge` |

`OracleRefined` is the safety part of the property `ImplementsOracle`; the liveness stays
with TLC. Queries map to `Ask`, and what has to be shown is that the answer is
promised. For `K = 0` that is `QueriesAreExact`, since no `td` exists that could wrap. For
`K > 0` a `td` of 0 or 1 is the distance (`WrappedExact`, from the trees), so a wrapped pair
is nearer than the gap of 2, and the oracle promises for those only that the answer is
not too small. `FinishedIndexIsQueried` makes the theorems about the loops of
`QueryDistance` apply: an instance of `QueryMerge` for any two vertices starts in
`QueryInit`.

### Queries

`QueryMergeProofs`, for every index whose lists are well formed, whatever its trees and
distances:

| Theorem | States |
|---|---|
| `MergeInvariant` | `QuerySpec => []MergeInv` |
| `MergeStaysInBounds` | no read past the end of a list |
| `MergeIsExact` | the answer is `QueryDistance` of `PLLIndex` |

`MergeInv` says, beside types, that no hub one list has passed can be met in the
other list any more (`PassedInv`), and that `qd` is a bound of some tree or hub and
not above any that the loops have met (`BestInv`). The first makes the second
complete when both lists are at their sentinel. It also needs that a tree skipped
because `td - 2` exceeds the bound so far could not have lowered it (`TreeBound`),
with the arithmetic modulo `Word`.

### The index file and the object

`IndexFileProofs`, for every set of indexes, every number of trees, every width of the
integers, every file and any number of calls, failures and restarts:

| Theorem | States |
|---|---|
| `FileTypeCorrect` | `num_v_` counts the entries there are |
| `NothingLeaks` | every block is reachable from the object |
| `FreeIsSafe` | `Free` follows the null pointer only after an exception |
| `ConstructReturnsIndex` | what a construction leaves, and that its result says so but for streams |
| `FailedLoadsAreEmpty` | a load that returns `false` leaves an empty object, or one whose entries all have their arrays and whose stream had failed unnoticed |
| `LoadsWhatWasStored` | for `K > 0`: a load that returns `true` has restored what the same header stored |
| `NarrowRoundTrip` | for `K > 0`: a whole file of `.bak.h` or `.int.h` loads, unless a read or an allocation fails |

The inductive invariant `FileInv` adds to these how far a call in progress has come:
entries not yet filled own no block (`Unfilled`, without which filling one could lose
its blocks), those filled say what they were given (`Progress`), the entries are
missing only in an empty object, after an exception, or at the start of a load
(`EntriesPresent`), and a call in progress has not returned (`Quiet`). The lemmas
`EntriesReplaced`, `Freed` and `EntryFilled` say what the three ways to change the
heap do; each action then cites one of them. What a construction leaves for each of its
results is `ResultInv`; it remembers whether memory ran out, which the result of the
stream overload does not tell. `FailedLoadsAreEmpty` needs that a load starts with an
empty object and that the entries it has read have their arrays (`LoadFresh`): each way
out of it either frees or comes after the last entry (lemma `RefusedStep`).

The round trip is about digits, and `TripInv` says which of them mean what. In a file
of a narrow header, `Starts` gives the place at which each entry begins, and `Says` that
the digits which are there are those of the header and of the entries at these places,
however many were cut off. Then a load is at one of two points (`ReadTo`): it has read
what was stored as far as it has come and stands where the next entry starts, or the
file was cut and it has run over its end (`Overrun`). From the second there is no
way back, since a stream that has failed reads nothing more, so `LoadIndex` cannot
return `true`; and the object has lost labels, which keeps `Sound`: what such a program
can store is `Complete`, every number in its field and the sentinel last. Without `Sound`
the file of a second store would say nothing. In a file of a wide header the upper half
of the 64-bit number of vertices is what `LoadIndex` takes for the number of trees.
It is 0 (`WideFile`), so every such file is refused, and if it is cut before that, or
the read fails, the load has run over the end from the start. That is where `K > 0` is
needed: for `K = 0` the round trip of a wide header is false (section 4), and the two
theorems do not speak of it.

TLC found `TripInv` an invariant of the instance before it was proved. Two lemmas carry
the data: `NumberOfDigits` (what is read of the digits of a number is the number) and
`Flattened` (where the digits of an entry are in the file). Both are inductions over
a set of numbers (`SetInduction`), and `RecursionExists` shows that the recursive functions
they speak of exist. For this the powers of the base became a recursive function,
`Worth`, in the model.

### Orders and interrupts

`PreparationProofs`, for every input, any number of threads and samples, and interrupts
anywhere:

| Theorem | States |
|---|---|
| `RankingIsComplete` | no ranking is made from the samples an interrupt left |
| `OrderIsPermuted` | `inv` has every vertex once, whichever way the order is made |

The first needs that a sample is worked on inside the loop only, and that the flag stays
up from the first skipped sample to the end of the loop (`SamplingInv`).

The second adds `OrderInv`. For the order of degrees the argument is about one step: keys
with ties going to the larger vertex are a strict total order, so the number of vertices
before a vertex is a place of its own (`OrderPositions`, `DegreeOrder`). For a ranking
it runs through the whole preparation. What is read or given is a graph whose arrays
hold nodes only, both ends of an undirected edge knowing it (`GraphInv`); `es` lists the
edges of that graph, `V` being one more than their largest end (`ListedInv`); and a node
scores only if it has a successor (`RankInv`), which makes it an end in `es`. Hence a
node behind the last edge does not score, and among those that do not score it comes
after every vertex, so the first `V` places of a ranking are the vertices
(`VerticesRankFirst`). Two things in it are arithmetic that a bounded instance does not
reach: that the degrees are finite for every stream, and that the largest number of a
file exists.

The proof found a mistake in an earlier form of `FirstPass`, which did not refuse a file
without an edge and a first node above 1; the instance has such a file now.

### From the input to the answers

Also in `PreparationProofs`, and of the whole life of an index:

| Theorem | States |
|---|---|
| `GraphRead` | the graph that was read has the edges of the file, each of them once |
| `LifeInvariant` | `LifeSpec => []LifeInv`: what is labelled is the graph of the input in other names, and what holds of the construction holds of it |
| `InputOracleRefined` | every life is a behaviour of `DistanceOracle` over the graph of the input |
| `ScoresAreInside` | a node scores only if it lies strictly inside a shortest path |

`GraphIsFile` speaks of a whole file and is not inductive. Its strengthening `Recorded`
speaks of the lines so far: an end is in an adjacency array if and only if one of these
lines joins the two, in either direction where the graph has none, and arrays of the
reader repeat nothing. Nothing in it is a fold over the file, so no induction over data
is left: `EdgeRecorded` shows it for one more edge. The argument is about `HasEdge`,
which looks into the array of one end only; that this suffices is a part of `GraphInv`,
that both ends know an edge.

`InputInv` follows the edges through the preparation. `es` lists the edges of the input
(`ListsGiven`; lemma `StreamLists` for streams, `GraphLists` for graphs, whose edges are
first numbered by their place in the arrays), the lists built of them are `GivenGraph`
(`BuiltGraph`), and the relabelled lists are the same graph under `inv` (`Renamed`; lemma
`RelabelRenames`, where `rank` has to be the inverse of `inv`, which is where
`OrderIsPermuted` is needed). A renaming by a permutation keeps balls (`RenamedWithin`),
so what the oracle of the relabelled graph promises of `u` and `v` is what that of the
input promises of `inv[u]` and `inv[v]` (`SamePromise`). `PhaseInv` carries `BuildInv`
of `ConstructIndexProofs` through a life, which begins elsewhere than a construction.

For `ScoresAreInside` it has to be shown that the levels by which `NetworKitGraph`
searches are the distances of `PLLGraph`, also along the edges of a graph with direction
(`LevelsAreDistances`), and that as many levels as there are nodes reach whatever can be
reached (`ReachedIsNear`). Then the node before the end of a shortest path lies inside it
(`PredecessorInside`), and so do all a walk back meets (`PathInv`).

The proofs made three assumptions explicit that the instances had met by chance: the
first node is 0 unless there is a file, `GraphIsFile` is about inputs with a reader, and
the graphs the labelling may be given include the one the input comes to
(`AllGraphsAssumption`).

### What the proofs rest on

`PLLIndexProofs` has the lemmas that all of these share. The balls are a recursive
function, so that the function exists has to be shown first (`BallExists`, from which
the theorem `BallEquation`); then how distance bounds start, extend, add up, split at a
vertex and reverse. The library's induction theorem takes an operator as parameter,
which the provers cannot instantiate, so `SetInduction` states induction for a set, from
the well-foundedness of `<` on the naturals.

The assumptions are `GraphAssumption` (symmetric adjacency functions),
`IndexAssumption` (the sizes of the numbers) and `UninitAssumption`; of the other modules
`FileAssumption` (the shape of an index, the width of a digit), `WidthAssumption` (every
number of an index fits its field in the file, its counts and a count never read are in
`int32_t`), `InputsAssumption`, `BetweennessAssumption`, `JitterAssumption` and
`AllGraphsAssumption` (the labelling may be given any symmetric graph). Nothing else is
assumed but the `K > 0` of the two theorems about the round trip.

Only model-checked:

* everything with fairness (`Termination`, `TreesEnd`, `QueryReturns`, the liveness of
  `ImplementsOracle` and `InputAnswered`): out of this prover's reach.

Every safety invariant of a run that passes is stated by a theorem.

## 6. Not modelled

* The rest of NetworKit. `src/include/NetworKit` is a vendored copy of a library, and
  almost all lines of the repository: big-number arithmetic, an option parser,
  logging, and algorithms and methods of `Graph` that no program here calls. What the
  programs run of it is in `NetworKitGraph`, `EdgeListReader` and `Betweenness`. The
  map therefore covers a small share of all lines and most of those that decide what
  the index answers.
* Weighted files: `readContinuous` makes a weighted graph of them, which
  `ConstructIndex` uses as an unweighted one after a ranking by Dijkstra's searches.
* Floating point: the sum of the scores, the weights of a random choice, the number of
  samples from the diameter. The model counts scores, chooses any predecessor, and has
  the number of samples as a constant.
* Option parsing and the text the programs print, `PrintStatistics`, the profiler,
  timing, prefetching, build files and log tools: no effect on the index.
* The labelling in the header variants: the same code on smaller integers. Only their
  file format is modelled.
* Reading a list without a sentinel (`StoreIndex` or a query after a load that
  returned `false` or misread the file): undefined; `Storable` keeps `Store` from it.
