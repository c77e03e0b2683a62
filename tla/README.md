# A TLA+ model of CirKit

CirKit is a C++ library and shell for logic synthesis: it reads Boolean functions as graphs
(AIGs, MIGs, XMGs) or decision diagrams, transforms them, and writes circuits or programs. This
directory holds TLA+ modules for the parts whose correctness is a matter of state, order or
interleaving, TLC configurations that check them on small instances, and proofs that hold for
every instance. All paths below are relative to the repository.

    tlc -config ThreadPool.cfg MCThreadPool      # checks a module
    tlapm ThreadPoolProofs.tla                   # checks its proofs

`PROJECT.json` lists components, runs, mutants, theorems, hazards, and for every definition the
lines of code it stands for.

## 1. Inventory

| Component | State it keeps | Operations | What makes it hard |
|---|---|---|---|
| Thread pool, `core/utils/thread_pool.*` | queue, `stop`, workers, futures | `enqueue`, worker loop, destructor | notification outside the lock, spurious wake-ups, tasks that enqueue or throw, draining on destruction |
| Parallel node computation, `classical/functions/parallel_compute.*` | values, bitset of computed nodes, one lock and condition per node | one thread per node waits for its children, calls back, publishes, notifies | bit under one mutex, waiting under another, reads under none |
| Decision diagrams, `classical/dd` | node store, hash chains, lossy operation cache | variables, nodes, 13 BDD and 10 ZDD operations | canonicity from a hand-written table; stale cache entries; variables in no chain; full table |
| Index sets, `core/utils/index.hpp` | vectors, positions, flags, stack of saved sizes | insert, remove by exchange, save, restore, clear in two ways | a size stands for a set; positions of moved elements; clearing by size of the capacity |
| PLiM compiler, `classical/plim` | registers and free registers, fanout counts, candidates, program | operand selection, register request and release, RM3 emission | destructive instructions: which value may be lost, and when |
| Unateness check, `classical/verification/unate.*` | assumptions, skip list, matrix of bits | five approaches, two of them on the pool | reused assumptions, bits of different tasks in one block, result read without futures |
| Paged cuts, `classical/functions/cuts/paged.*`, `mig/mig_cuts_paged.*`, `xmg/xmg_cuts_paged.*`, `core/utils/paged_memory.hpp` | one growing vector of cuts and one of cones, levels | enumerate completely, partially, or on `parallel_process` | unlocked reads of a vector that others extend; cuts and cones paired by position; levels subtracted as unsigned numbers |
| AIG, MIG, XMG, `classical/{aig,mig,xmg}*` | graph, hash table | create nodes with structural hashing, rewrite, map | normal forms kept by construction |
| SAT layer, `classical/sat` | solver, variables | encode, solve, cardinality constraints | external solvers |
| Reversible circuits, `addons/cirkit-addon-reversible` | circuit, truth table or spectrum that is left, window, helper lines | synthesis (transformation, transposition, Young subgroups, Reed-Muller), simplification, windows, added lines, mapping, verification | gates go in at both ends while the table is changed; lines are renamed in between; helper lines must be returned to 0 |
| Two-level minimisation, `classical/optimization` | covers | minimise | heuristic search, sequential |
| Exact synthesis, `addons/cirkit-addon-formal` | SMT encodings | exact MIG and XMG | external solver |
| Shell alice, `alice`, `*/cli` | stores, current indices, aliases, option values, quit | lines from the command line, files, the prompt, lists and aliases; ten generic commands | loops that call each other and see `quit` and failures differently; options kept between calls; alias recursion |
| Readers and writers, ABC bridge, vendored `ext`, `lib` | none | conversion | none of state |

How they interact. `unate.cpp` gives tasks to the **thread pool** and relies on its destructor.
`paged.cpp`, simulation and truth-table code pass callbacks to **parallel computation** and rely on
the order in which they run; **paged cuts** do so while they share a vector. LAD2 uses the
**backtracking set**. The **PLiM compiler** reads MIGs and relies on the normal form that
`mig_create_maj` gives them. BDD and ZDD managers share the **node table** and differ in the
reduction rule. Window optimisation calls **transformation-based synthesis** for each window. The
**shell** owns all graphs and calls everything, one command at a time: apart from the components
with threads, the program is sequential.

What makes each correct:

- pool: accepted tasks run once, in order; none is forgotten; the destructor returns and then all
  have run;
- parallel computation: a callback after those of both children, values those of a sequential
  evaluation, no lost bit, no lost wake-up, return;
- decision diagrams: ordered, reduced, unique, final nodes; every operation gives the function or
  family it names, whatever was computed before;
- index sets: restore gives back the set that was saved; every class is a set;
- paged cuts: what is stored for a node are cuts of it, with the cones that belong to them, nothing
  better is lost, and threads enumerate what one thread would;
- reversible circuits: each step keeps the function that was asked for, as circuit plus rest; what
  is returned computes it; optimisation never makes a circuit dearer;
- shell: the current entry exists, a script ends with its first failure, every line ends;
- PLiM: the program leaves every function that is still needed in its register;
- unateness: every approach gives the matrix the definition of unateness gives.

## 2. Modules

    TaskExecutor  <-- ThreadPool           <-- MCThreadPool,      ThreadPoolProofs
         ^------- Unateness                <-- MCUnateness,       UnatenessProofs
    NodeEvaluation <- ParallelCompute      <-- MCParallelCompute, ParallelComputeProofs
                        ^-- PagedCuts      <-- MCPagedCuts,       ParallelComputeProofs
         PagedMemory, LocalCuts (operators) <-- PagedCuts, CutEnumeration <-- MCPagedCuts, ParallelComputeProofs
    NodeInterning <-- DdTable              <-- DataStructureProofs
         DdManager (operators) <-- DdTable; BddManager, ZddManager <-- MCDiagrams
    BacktrackingSet <- IndexBacktrackingSet <- MCContainers,      DataStructureProofs
    IndexedSet    <-- IndexSets            <-- MCContainers,      DataStructureProofs
                      PlimCompiler         <-- MCPlimCompiler,    PlimCompilerProofs
    CircuitContract <- ReversibleCircuit   <-- TransformationSynthesis <-- WindowOptimization,
                                               LineAddition, CircuitSimplification
                                               <-- MCReversible,  OptimisationProofs
                       ReversibleCircuit   <-- TranspositionSynthesis, YoungSubgroupSynthesis,
                                               ReedMullerSynthesis <-- MCReversible
                       TransformationSynthesis, TranspositionSynthesis <-- SynthesisProofs
                                                              <-- OptimisationProofs
                      Shell                <-- MCShell,           ShellProofs

The modules in the left column are abstract specifications of what a
component promises; the modules to their right implement them through a refinement mapping.
`Unateness` is built on the promise of the pool instead of the pool.

**ThreadPool.** A critical section of `queue_mutex` is one action, because nothing else touches
`tasks` and `stop`; `notify_one` and `notify_all` come after the unlock and are actions of their
own (`owing` holds the threads in between). `pc` says where a worker is: `ready` is the evaluation
of the wait predicate, on entry or after a wake-up. `Enqueue` is called by the owner or by a
running task. `Finish` stores a value or an exception. `Stop`, `NotifyAll`, `JoinAll` are the
destructor. `accepted` and `started` are history.

**ParallelCompute.** One thread per node, as in the code. `Lock`, `TestSet`, `TestClear`, `Sleep`
are the wait for one child after the other under the child's lock; `Call` reads the children's
values without a lock and calls back; `LockVector`, `StoreValue`, `LoadBlock`, `StoreBlock`,
`UnlockVector` publish value and bit, the bit as a load and a store of a block shared with other
nodes; `Notify` takes the node's own lock. All nodes share one block, the worst case of
`boost::dynamic_bitset`. Reads of the bit and the value happen under a lock that the writer does
not hold: a data race. `MayReorder` chooses what the build does: with `TRUE` the bit may become
visible before the value. `parallel_process` is the same code without values.

**DdManager, DdTable, BddManager, ZddManager.** `DdManager` has the table and the cache as
operators on a record: `UniqueLookup` with its hash slots and chains, `CacheLookup`, `CacheInsert`.
The hash functions are the code's. `DdTable` makes a state machine of `unique_create`, for the
reduction rule of BDDs or of ZDDs (`Kind`); it is checked for BDDs and proved for both.
`BddManager` and `ZddManager` define every operation by recursion as the code does, cache included;
a state is a manager after some calls, and `EveryCallCorrect` (`CallsAreCorrect` for both packages)
calls, in each state, every operation once more on all operands and compares the result with the
function or the family it should denote. The constant 0 in an empty cache entry
cannot be mistaken for an entry: operation codes start at 1 or the operands are terminals.

**IndexBacktrackingSet, IndexSets.** `vector`, `position`, `size` and the stack of `{size, count}`
entries; `Insert`, `Remove`, `Save`, `Restore` are the four methods. `BacktrackingSet` is a set and
a stack of sets. `IndexSets` has the other three classes, which share `index_map`; `Clear` forgets
the values, `ClearMonotone` resets flags one by one or all at once, as the code decides by the
capacity. `IndexedSet` is a set with an answer.

**PagedMemory, LocalCuts, CutEnumeration, PagedCuts.** `PagedMemory` is the vector with offsets and
counts. `LocalCuts` makes the cuts of a node out of those of its children: all combinations, the
subsumption test in the middle of a changing list, ordering and truncation. It has the three
variants: AIGs and MIGs keep the larger of two nested cuts, XMGs, under the same comments, the
smaller. `CutEnumeration` is the sequential loop with levels and cones, and the partial enumeration
from a list of start nodes to a boundary, with its stack and colours. `PagedCuts` extends `ParallelCompute`: its
callbacks append to the memory under `mutex` but read the children's cuts without it. A read that is
overtaken by an append which reallocates the vector is undefined in C++; the model lets it find the
old values or nothing, and remembers the thread in `torn`. Such reads are reachable, since the
vector starts with room for two numbers per node, and `ParallelIsSequential` is about the other nodes only.

**ReversibleCircuit and the algorithms on it.** Gates with positive and negative controls, circuits
as sequences, and simulation. The state is that of one call: `algorithm` says which, `spec` what it
was given, `circ` is its circuit and `work` its local variables. Each algorithm is a module with a
`Start` and an action per step of its outer loop (a row, a cycle, a pair, a pass, a window, a
factor), whose inner loops are folds; a run makes one call of any of them, and an invariant of one
begins with the test of `algorithm`. The minimisers of exclusive sums are modelled by what they may
return (`ExclusiveSums`): in Young subgroup synthesis, which is given `esop_minimization` or
`exorcism_minimization` as a function object, any sum for the function with no more cubes than it
has minterms; in `simplify`, which calls `exorcism_minimization`, any sum for the given one with no
more cubes. Behind the latter is ABC, which is external: that it returns the same function with no
more cubes is assumed. Neither minimiser is modelled itself.
`CircuitContract` says that what is returned computes what was asked; `KeepsContract` in
`ReversibleCircuit` is the refinement. `Result` is the function as the caller can read it: after
`simplify` by the names of the outputs, which are all that is left of the permutation of the lines,
after added lines on the base lines. Two kinds of call are known to return another function and
count as not returned (`Misnamed` and `Undone`, see section 5): `KeepsContract` says nothing of
these and holds of all others.

**Shell.** The stores are records with the operations of `cli_store`. `execute_line`, `process_file` and the loops of `run` call each other; `stack`
has a frame for each call with lines left, and `result` what the last line returned. A line is
taken apart by `Parsed`; an alias is a pattern, the set of lines it matches, and an expansion.
`kept` are the option variables that commands do not reset between calls: `current` without an
index uses the previous one, or an uninitialised one, and `read` without a name the previous file,
even one that was refused. Files that can be open at the same time are bounded
(`MaxOpenFiles`), as for any process: that ends a file that reads itself.

**PlimCompiler.** `Compile` is one round of the synthesis loop: the inverter, the destination,
the positive operand, the instruction, the releases, the new candidates, each an operator in the
order of the code. The instructions are executed as they are emitted, on all input assignments at
once, so that `work.mem` is what the program leaves in the registers. The queue's order is left
open: `Compile(g)` may take any candidate. That covers all cost functions, and makes it irrelevant
that the queue compares by a copy of the fanout counts (`plim_compiler.cpp:277`).

**Unateness.** A literal of the miter is a record and the solver is the set of `Models` of the
literals assumed; `solve` returns any one of them. `Naive`, `Check` and `Split` are the iterations
of the sequential approaches; `Check` keeps the shared vector of assumptions and the skip list.
The parallel ones go through `TaskExecutor` (`Enqueue`, `LeaveScope`, `Start`); a task reads the
bitset when it has `result_mutex` (`Read`) and stores it back changed (`Write`).

## 3. Runs

| Run | Bounds | What it shows |
|---|---|---|
| `thread_pool` | 3 workers, 4 tasks | `Fifo`, `NoLostWakeup`, `Drained`, `DestructorReturns`, and that the pool implements `TaskExecutor` with its fairness |
| `compute` | 2 inputs, 3 AND nodes, stores in order | `NoLostBit`, `NoLostWakeup`, `Returns`, and that the threads implement `NodeEvaluation` |
| `paged_cuts` | parallel: the same graph, any order of the stores, cuts of 3 leaves; sequential: all AIGs and MIGs with 4 and XMGs with 3 gates on 2 inputs, cuts of 2 to 4 leaves, 1 or 8 per node, one or two start nodes and all boundaries that separate them | `CutsAreCuts`, `ConesFitCuts`, `DepthsAreBounds`, `NothingIsLost`, `ParallelIsSequential`, `ChildrenFirst` |
| `dd_table` | 2 variables, 8 nodes, BDD rule | every sequence of creations until the table is full: `TableCanonical`, `NodesAreFinal`, refinement of `NodeInterning` |
| `diagrams` | 3 variables, any 2 calls of one package, ZDDs without `meet` | `CallsAreCorrect`, `DiagramsAreCanonical`, `HandlesKeepMeaning` |
| `zdd_meet` (violation) | 2 variables, `union` and `meet` | `MeetCommutes` does not hold |
| `containers` | 4 elements and 3 nested saves; 3 indices on both sides of the threshold of `clear` | `PositionsInvert`, `SavedSetsSurvive`, `Backtracks` (refinement of `BacktrackingSet`), `ClassesAreSets` (refinement of `IndexedSet`) |
| `plim_compile` | all graphs of 3 gates over 2 inputs, both register strategies | `CandidatesReady`, `RegistersHold`, `OneOwner` |
| `unateness` | 3 inputs, 2 outputs, 7 functions, all cones, all solver models | `MatrixIsCorrect` for five approaches, `SkipsAreDependent`, `EntriesAreFinal` |
| `reversible` | permutations of the 8 rows of 3 lines that are products of 2 exchanges, all options; circuits of up to 3 pieces, of 2 to 4 gates, and on 4+1 and 3+2 lines | `MiddleIsLeft`, `AdjustedRowsStay`, `StepsAreRight` (what is left and what is kept in the middle of every other algorithm), `HelperIsClear`, `NeverWorse`, and `KeepsContract` (refinement of `CircuitContract`, but for 1208 of 7719 final states of `simplify` and 12 of 349 of two-sided Reed-Muller synthesis) |
| `reed_muller` (violation) | the same permutations | `ColumnIsFound` does not hold |
| `shell` | 2 stores, scripts of up to 3 of 23 lines in three modes, one typed line, 2 patterns, a file that reads itself | `CurrentIsValid`, `FailureStops`, `Settles` |

Why the bounds are enough. Three workers can be waiting, running and gone at the same time, and
four tasks give a queue of two behind a running task, nested enqueues, and a task that throws among
them. In the graph of `compute` two pairs of nodes sleep on one child, and one node waits for two
threads; in `paged_cuts` two nodes read the cuts of a third while either may append, and the vector
is full after the inputs. Four gates give cuts that subsume others from both sides, reconvergence,
and levels that differ by three. Eight nodes make all slots of the table collide and leave room for
it to overflow. With three variables a diagram has two levels below the one an operation works on;
two calls are what it takes for the cache entry of one to be used by another. Three nested saves
with equal and different sizes reach every case of the stack. Three gates and two inputs have every
combination of constants, complements, shared and last readers, and reuse of released registers.
Three inputs and two outputs tell rows from columns, and the sample functions have each kind of
entry. Three lines are the fewest on which a Toffoli gate has two controls and a target; products of
two exchanges have cycles of length two and three and rows that move twice. The pieces to
simplify have swaps, one of which shows only after a round, inverters before positive and negative
controls, and gates that move past each other. Three lines of a script define an alias, use it and
act on the result; nesting comes from the file, which opens itself once.

Bounds that are not the program's: `Tasks` (each enqueued at most once), `MaxSaves`, `MaxOps`,
`Ops` and `ZddOps` (calls before the last), `Gates`, `Functions`, `Swaps`, `MaxTyped`, `Scripts`,
`MaxIndex` (what an uninitialised index may be), and `Capacity`, which the code has as a parameter
but much larger.

Deadlock is checked for the pool and for parallel computation, where `Terminated` is the only
state without a step. The other components are sequential and stop when the table is full, the
calls are used up, the algorithm has finished or the shell has ended, so `CHECK_DEADLOCK FALSE`.

**Fairness.** The pool has weak fairness for every step of a thread that is not waiting: the
operating system runs threads, and task bodies end. There is none for spurious wake-ups, nor for
the wish to enqueue or to destroy. In parallel computation threads compete for mutexes that are
free again and again (a spuriously woken thread takes the child's lock), so acquiring one has
strong fairness: a mutex that is released infinitely often is got. Without it `Returns` fails by
starvation only. Spurious wake-ups have none here either. `Returns` is the liveness property of
parallel computation; its refinement is one of safety.

The shell is one thread that is never blocked except by its user: weak fairness of `Step`, which is
every action but the user's.

**Mutants.** Each property comes with a mutated definition of the code in the same module, marked
"Mutant", under which TLC finds the property violated: a missing notification, an unlocked update,
a skipped chain, an unswapped element, a register that is freed too early.

## 4. Proofs

TLAPS checks the following for every value of the constants; all theorems are of the form
`Spec => []P` or a refinement, by an inductive invariant.

| Module | Assumes | Theorems |
|---|---|---|
| `ThreadPoolProofs` | `PoolAssumption`: there is a worker | `TypeCorrect`, `QueueIsFifo`, `NoTaskForgotten`, `DestructorDrains`, `StopIsFinal`, `PoolRefinesExecutor` |
| `ParallelComputeProofs` | `GraphAssumption`: the graph is acyclic with two children per AND; `~MayReorder` for the values only; for `PagedCuts`, `CutsAssumption`: the vertices are numbered from 0; for the depths `NoGateIsConstant`: a gate reads a node besides the constant | `TypeCorrect`, `BitsetKeepsEveryNode`, `NoParentSleepsOn`, `CallbacksInOrder`, `NothingLeftOut`, `ValuesAreCorrect`, `PublishedIsFinal`, `ComputeRefinesEvaluation`; of `PagedCuts` `ParallelCutsAreSequential`, `CutsInOrder`; of `CutEnumeration` `CutsAreRight`, `ConesAreRight`, `NoCutIsLost`, `DepthsAreUpperBounds` |
| `DataStructureProofs` | of the node store `SizeAssumption`: variables fit the capacity, `KindAssumption`; of the containers `ElementsAssumption`, `IndicesAssumption`: indices are natural numbers | `TableTypesHold`, `DiagramsAreOrdered`, `DiagramsAreReduced`, `TableIsCanonical`, `NothingIsLost`, `IndicesAreFinal`, `TableInterns`; of containers `TypeCorrect`, `PositionsAreInverse`, `SizesAreNested`, `SavedSetsAreKept`, `IsABacktrackingSet`, `ClassesAreSetsOfIndices` |
| `ShellProofs` | `ShellAssumption`: lines are parsed into stores, lists and expansions that exist | `TypeCorrect`, `EntriesAreCurrent`, `ScriptsStop` |
| `UnatenessProofs` | `DimensionAssumption`: sizes are natural numbers, functions are sets of points | `SkipListIsSound`, `EntriesStay`, `MatrixIsRight` |
| `PlimCompilerProofs` | `GraphAssumption`: a normal-form MIG, numbered upwards; `ValueAssumption` | `TypeCorrect`, `CandidatesAreReady`, `ProgramIsRight`, `RegistersHaveOneOwner`, `NoGateIsForgotten` |
| `SynthesisProofs` | `LinesAssumption`: there is a line | of synthesis by transformation `GatesAndTableAreRight`, `RowsStayAdjusted`, `CircuitIsRight`; by transpositions `TranspositionsMakeUpFunction`, `TranspositionsAreRight` |
| `OptimisationProofs` | `LinesAssumption` | of windows `WindowsKeepFunction`, `WindowsNeverGrow`, `WindowsAreRight`; of added lines `HelperStaysClear`, `BaseFunctionStays`, `LinesAreAdded`, `LinesNeverCostMore`; of all three optimisations `OptimisationNeverLoses` |

*Pool.* `Drained` is not inductive. That nothing accepted is left when the owner is done needs that
an exited worker left an empty queue (`LeavesNothing`), that tasks taken are in the hands of exactly
one worker (`TakenIsRunOnce`, `OneHolder`, `HoldsStarted`), and that there is at least one worker:
`hardware_concurrency()` may return 0, and then the destructor returns with tasks that never ran.
`IInv` in `ThreadPool` is their conjunction.

*Parallel computation.* `NoLostWakeup` needs to be stated from the test of the bit on
(`WakeupToCome`): a thread about to sleep holds the lock that its child's `Notify` must take. That
no bit is lost needs that the block a thread has loaded is the current one until it stores it
(`Stores`), which follows from mutual exclusion (`Holders`). `VInv` adds what holds of values if
the two stores are in order.

*Paged cuts in parallel.* `CutsSpec` restricts the steps of `ParallelCompute`, so that `IInv` and with it
`ChildrenFirst` hold here too: a callback that has begun reads children whose callbacks have returned.
`CInv` adds what the mutex gives, that there is one writer at a time (`OneWriter`), and what the vector
holds: `Holds(m, n, L, e)` says that the addresses that the iterator of node `n` steps through lead to
the sets of `L` and end at `e`. An append leaves the lists of all other nodes alone, reallocated or not
(`HoldsStays`), and continues the writer's own list because nobody else has appended since
`append_begin` (`HoldsNext`; `RestIsRight` has `e` at the end of the vector). So the cuts of the children
are the same for the thread that read them before it got the mutex and for any later reader
(`ReadStays`). A set is written as its elements in ascending order and read back as the same set
(`AscendingIsSet`). All of it needs the types of the local cuts, that is, that the loops over
combinations, subsumed cuts and sorted cuts yield sets of nodes (`LocalCutsTyped`); `FoldExists` is the lemma
for the folds of the community modules. The theorem is for every AIG, cut size and
priority, any order of the stores, and every schedule; nodes in `torn` are excluded, as in the run.

*Paged cuts in sequence.* `EnumerationSpec` starts with any graph of any size whose children have smaller
numbers, any cut size and priority, and a complete enumeration or one from any list of start nodes to any boundary, also
one that does not separate them. `EnumerationInv` says of each node that the vectors hold a list of cuts
and, for MIGs and XMGs, a list of cones as long (`StoresRight`), and that a gate that is still to be
enumerated is listed once and has no sets yet (`IsPending`), without which `append_begin` would
continue a list with sets of before: a node gets into the list when its colour turns 2, a boundary node has
this colour from the start. A cut of the node is a choice of one cut per child (`CombinationsTyped` keeps the
positions, which the cones need), and joined they separate the node (`CutGrows`, `JoinIsRight`). `CutsAreRight`
and `ConesAreRight` use nothing of the order of nodes: a child that has no cuts yet gives no choices. The same
lemmas on the memory serve the parallel and the sequential proof (`HoldsIn`, `AppendLocalIs`).

*No cut is lost* (`NoCutIsLost`), neither by the subsumption tests nor because a child was enumerated too late.
The first half is about the list: a join that is small enough is subsumed by some cut from its turn on. What
`AddCut` overwrites or drops is subsumed by what it keeps, and that relation is an order (`SubsumesIsOrder`,
`OverwrittenIs`, `CompareKeeps`), so that a list that covers the joins before still does afterwards (`Covering`),
although the cut that takes the place of a subsumed one is not examined. The second half is `OrderInv`: the
children of a listed node have cuts, are boundary nodes still to be assigned, or are listed before it
(`TodoInOrder`), and cuts do not change once a node has some (`CutsOfStay`), so that what was lossless when
the gate was joined stays lossless (`CutsAreKept`). That the traversal from the start nodes lists children first needs
its stack: above a node whose children were put on it there are only smaller nodes, and its children are
there or finished (`ChildrenAbove`); the node is on top again only when they all are (`VisitOrder`). A node can be on the stack
several times, but never above itself with its children unfinished, for the graph is acyclic.

*Depths* (`DepthsAreUpperBounds`). The depth of a cut is the level of the node less `mu`, the least of the latest
levels of the nodes of the cut. The latest level of a node is below the level of each of its parents
(`LevelRangesAre`), so a path from a child of a node down to the cut has fewer steps than there are levels
between the node and `mu` (`LengthBelow`, by the least child for which it would not hold). A path may also end in the
constant, whose level counts for nothing: then there is another one through a child that is not the constant, which
is why every gate has to read a node besides it (`NoGateIsConstant`). `mig_create_maj` (`mig.cpp:193-199`),
`xmg_graph::create_maj` and `create_xor` (`xmg.cpp:105-111`, `157-161`) return an operand or a constant otherwise, so no
other gate is made. A gate that reads only the constant would get the empty cut, whose level is the largest
unsigned number, and the depth would wrap. Levels and lengths of paths are recursive functions on the graph;
that they exist is `LongestExists`.

*Decision diagrams.* Uniqueness is proved although only one chain is searched: every made node is
in the chain of its slot (`TableFindable`), chains are acyclic because links go to smaller
indices, and variables, which are in no chain, are recognised before the search. `TableReduced`
then follows, and with it the refinement of `NodeInterning`. From order, uniqueness and reduction follows
that the store is canonical, for the rule of either package: of two nodes with one meaning the later is the
least for which there is such a pair (`EqualMeanings`). No node above a variable reads it (`MeaningAbove`), so
the two test the same variable, else the one that tests the earlier one would be redundant (`VariableIsRead`);
their children mean the same (`Cofactors`), are the same for they are earlier, and the node is stored once. The
invariant has to remember for this that every node tests a variable (`NodesTest`), which the order alone,
a comparison with the number of variables, does not say. What a node means is a recursive function; it exists
because the pairs of a node and an assignment in every set closed under its equation solve it (`MeaningsMean`).

*Backtracking set.* A saved size encloses the same elements because saved sizes grow down the stack
(`SizesAreNested`) and both `Insert` and `Remove` exchange elements behind the current size or at
it only. For the refinement of `BacktrackingSet` the stack of counted sizes is unfolded into one saved
set per count (`SavedOf`): a save, whether it adds an entry or one to a count, puts one set in front,
and a restore takes it away (`OneMore`, `SavedGrows`). The community modules join a sequence of
sequences by a recursive function; that it exists, and what an element put in front of its first part
does to it, is shown by the least counterexample (`JoinsExist`, `FlattenGrows`, `FlattenPush`).

*Index sets.* `SetsInv` says of each class what makes has() and the iterators agree: positions and
vector invert one another (`PlacesInvert`), or the bits are those of the values (`FlagsTell`). The
removal from `index_set` writes the position of the last value before that of the removed one, which
may be the same; clearing bit by bit leaves a long bitset without a bit, clearing at once an empty
one, so the threshold does not matter (`SetsClearMonotone`).

*Unateness.* A model of the solver names outputs that depend on an input only if the question was
the right one: all other inputs equal. So the proof shows that `Reset` gives back the vector of
assumptions as it was, after each of the two ways to leave a pair (`AllEqual`), whatever literals
were appended. That no task undoes another's bits needs both the mutex, by which the writer's copy
is the current bitset (`OneWriter`), and arithmetic: `Written` differs from what was read in the
task's own row or column only (`OwnEntries`), and an offset belongs to one row and one column
(`IndexInjective`), for any number of inputs and outputs.

That the matrix is right has two halves. First, what a question means: the models of each list of
literals are the pairs of points that `May` or `DependsOn` speaks of. The five approaches ask
differently: equal inputs and one that rises (`NaiveIsRight`), only the inputs of the cone, for which a
model has to be extended by inputs outside the cone that cannot matter (`ConeQuestion`,
`ConeIsRight`), the two cofactors, where both signs of the answer are turned around
(`CofactorIsRight`), and a vector whose last elements are overwritten and negated one after the other
(`PairVectors`, `CheckIsRight`); if the test for dependency is skipped, the skip list has
answered it (`CheckBits`). Second, that each answer gets to its place: `MInv` says that the bitset
holds the right bits of the entries that are `Done` and nothing else, and `Positions` and `Accepted`
that when the call returns, all are. With `Filled` the three ways to write (an entry, a row, a
column) are one: sets of bits that are right for disjoint entries are united.

*PLiM.* That a register holds what its owner's readers expect until the last of them has been
compiled needs that `fanout_count` of a node is the number of gates that have still to read it
(`FanoutsRemain`): then a register that is overwritten or released belongs to a node whose last reader
is the gate being compiled, or to none, and every register in the free list is nobody's. The proof
holds for every order of the candidate queue and of the allocator's list. Candidates are ready because
a gate is queued when the last of its children is computed; that every gate is compiled in the end
(`NoGateIsForgotten`) follows from the smallest uncompiled gate, whose children are all computed, so
that it is still a candidate.

*Shell.* That entries are current rests on the operators on stores: an entry is made before it is
assigned, and an index is compared with the size of the store it is used on, even if it was given
for another one. That scripts stop needs that the prompt is the last of the calls on the stack
(`InOrder`): then a failure in command mode is seen by a list or by the loop of `run` itself.

*Transformation-based synthesis.* Every gate is its own inverse (`Involution`), so putting one in and
applying it to the table keeps gates in front, table and gates behind equal to the specification
(`InsertKeepsRest`). That no gate touches a row adjusted before (`Silent`) rests on what `mask` is at
each gate: the output of the row, or the input whose output it is. As the rows below are their own
outputs and the table is a permutation, the mask is not one of them (`MaskIsNotBefore`), and a row
whose ones include the mask is not below either (`NoPartOfSmaller`); the gates that lower bits have
all ones of the row as controls, and a Fredkin gate is allowed by one of the two conditions of
`MayExchange`. `SInv` is: what is left is a permutation, circuit and table are right, and the rows
before the next are fixed. The loops over bits are folds; for each there is a lemma that gives the
sequence of its intermediate values (`RaiseFolds`, `ExchangesFolds`, ...), by the least counterexample
to the existence of such a sequence. The theorems are about all permutations and all options on any
number of lines; `CircuitIsRight` is the algorithm's part of the refinement of `CircuitContract`.

*Synthesis by transpositions.* The circuit of a transposition exchanges its two rows and no others
(`TranspositionExchanges`): its middle gate does so with the last row and the one that differs from it in
one line, and what is in front, inverters and moves, maps the two rows to these and is undone behind
(`InvertedTwice`, `ReverseUndoes`). A cycle is found by following the function until it is back at its
start, which happens before the rows are used up as the function is one-to-one (`CycleIs`); turned and reversed
it goes through the same rows against the function (`TurnedIs`), and exchanging its neighbours one after the
other gives each row its image (`AlongIs`). `TInv` says of every row in a known cycle that circuit and
transpositions left give its image, and that known cycles and rows left do not meet.

*Windows.* A window is replaced by what synthesis by transformation returns for its truth table, which is
right only if that table is a permutation. It is, because the circuit can be undone: a gate whose
targets are not its controls is one-to-one (`GateIsOneToOne`), a circuit of such gates is, and as the
function is kept, any middle part of a circuit that computes a permutation computes one
(`MiddleIsOneToOne`, by counting: what is in front reaches every assignment). So `WInv` needs to
say nothing about the single gates of later circuits. `SynthesizedIsRight` is the synthesis as a function,
for every permutation; the rest is cutting a circuit in three (`ThreeCuts`, `MiddleReplaced`).

*Added lines.* A segment of gates with common controls is replaced by a gate that computes the
common factor on the helper line, the gates with the factor shared, and the same gate again. `LInv` says
that helper lines above the current one are not used, that the current one is not used behind its
last helper gate, that it is 0 again in front of the gate that is looked at when it started with 0,
and that the base lines carry the function of the base circuit. A segment is right because gates that do not touch the
helper line or the lines of the factor leave them alone and do not depend on the others
(`GateLeavesAlone`, `SegmentComputes`), so that the second factor gate undoes the first. Costs add up
along a circuit (`CostsOfBoth`), so that a factor with a positive reduction makes the circuit cheaper,
and so does the helper gate that goes; `CostsInv` has besides that every gate has a price, which for
`t` is that sharing a factor leaves no gate with more controls than before (`SharedIsPriced`). The theorems
are for any base circuit with positive and negative controls, any number of base and helper lines and
both cost functions.

*Simplification* is never worse (`OptimisationNeverLoses`, with windows and added lines). What each pass of `simplify`
appends is compared with what it has read: gates moved are a set of positions that the gates passed over and those
moved make up without overlap (`MergeKeepsLength`), a line has one remembered inverter at most
(`NotsNeverGrow`), two neighbours become one gate or none (`AdjacentNeverGrows`), the runs of exorcism follow each
other (`CutInto`) and the minimiser is only assumed to return no more cubes than it got, and the swap pass has
appended no more gates than it has read but for the two it keeps back (`Spent`). The theorem is for any circuit of
reversible gates, any subset of the passes and any number of rounds.

Model-checked only: all liveness (outside TLAPS); the meaning of BDD and ZDD operations, which are
recursive; that simplification keeps the function, and synthesis by Young subgroups and by Reed-Muller spectra, with their
parts of `StepsAreRight` and of the refinement of `CircuitContract`; that the shell settles. Type
correctness is a theorem where there are proofs and is not checked by runs in addition.

## 5. Findings

- `zdd_meet` is not commutative, although the comment at its operand swap says so: the swapped call
  goes to `zdd_join` (`zdd.cpp:236`). It also enters its results in the cache under the code of
  join, after which `zdd_join` answers wrongly for these operands; `zdd_operations` is therefore run
  without it.
- `reed_muller_synthesis` has the assertion `s != n` (`reed_muller_synthesis.cpp:336`). With its default
  option `bidirectional` the gates added at one side change rows at the other that were
  finished, and then the line `s` does not exist. On three lines 134 of the 40320 functions reach the
  assertion, and 466 get a circuit for another function. The latter are the calls that `KeepsContract`
  leaves out by `Undone`: when the last row to be adjusted is done, one of the adjusted rows of the
  function's spectrum is not that of the identity. Of other two-sided calls, and of every
  one-sided one, the contract is checked; the middle of each call is in `StepsAreRight`.

Read in the code without a claim of it to set against:

- Decision diagrams: the special case of `bdd_restrict` tests a condition that never holds in a
  reduced diagram, so restrict is constrain; `zdd_nonsub` compares variables the other way round
  than `zdd_nonsup`; the constructor writes the nodes of variables without testing the capacity.
- PLiM: an output of a MIG that is also read by a gate loses its register after the last gate; the
  "RRAM count" that `plim` prints is the highest register written, without inputs that are only read.
- Unateness: `unateness_naive` sizes output vectors by the number of inputs, an assumption in the model.
- Threads: `hardware_concurrency()` may return 0, and then the pool runs nothing;
  `parallel_compute` starts a thread per node and does not handle that one cannot be created.
- Cuts: AIGs and MIGs keep the larger of two nested cuts and XMGs the smaller; `compute_level_ranges`
  visits children before parents, so that the updated levels of parents are never used; the depth
  stored is an upper bound. `enumerate_with_xor_blocks`, which is not called, tests the opposite of
  its comment. A cut that takes the place of a subsumed one is not examined, but then nothing
  is lost, only a subsumed cut may be kept.
- Reversible circuits: `simplify` names the outputs by the permutation of the lines where its inverse
  is due (`simplify.cpp:524-529`), right only if the two are equal: line `l` gets the name of output
  `gperm[l]`, but carries the output `k` with `gperm[k] = l`. With three lines rotated by the swaps the
  caller reads the wrong function from the names. No text or test says how the outputs are named,
  so that this is not a run; `KeepsContract` leaves these calls out by `Misnamed`. Windows
  chosen by lines have offset 0, so the wrong gates are replaced; `remove_gate_at` of a subcircuit tests the end of the subcircuit where
  its comment speaks of invalid indices; annotations are keyed by the address of a gate and never erased.
- Shell: an empty line or comment counts as a failure, so `-c "read x;"` ends with exit code 1 after
  it has worked, and without closing the log; the list behind `quit` in one line is executed; a file
  that is missing counts as success; `show` on an empty store ends the program by an exception;
  option variables keep their values between calls; the order of several conversions in one call is
  the compiler's; an alias can expand for ever, which `Settles` has to except.

## 6. Not modelled

`PROJECT.json` lists each component left out with its reason. In short: readers, writers, command
wrappers and vendored code have no state of interest; SAT, SMT, CUDD and ABC are external and appear
as what they promise; the large rewriting and minimisation algorithms are sequential heuristics over
big data, for which simulation against the specification is the better check. In the components
that are modelled, data is abstracted: a task is an identity, an AIG node's value is a Boolean, a
function is the set of points where it is true, a command is what is parsed from its line. A thread
that cannot be created, memory that runs out, and printing are left out. Of the decision diagrams the
visitors and arithmetic helpers are missing, of the cuts `enumerate_with_xor_blocks` and the
statistics, of reversible circuits modules, annotations, line windows, mapping and the synthesis
built on BDDs, ESOPs and SAT, of the shell variables, logging, history and what regular expressions match.

The modules stand for a small share of the repository's lines. Most of these are third-party code
(`src/ext`, `src/lib`), readers and writers, command wrappers and heuristics whose logic is in large
data structures: a model of them would repeat their text without having more to say than a test.

## 7. Plan

In this order; the first items are the ones with the most at stake.

1. Proofs. Young subgroups, Reed-Muller spectra and the function of simplified circuits, which is what is
   missing of `StepsAreRight`.
2. `Strash`: `aig_create_and` and `mig_create_maj`, hashing and normal form, against the functions
   of the nodes; it then justifies `IsMig` in `PlimCompiler`.
3. Visitors of decision diagrams (`count_solutions`, `visit_solutions`, `copy`), and a proof that
   `BddManager`'s calls keep the invariants of `DataStructureProofs`.
4. LAD2 on top of the backtracking set.
