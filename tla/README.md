# TLA+ models of ENCIDER

ENCIDER is a static analyser for information leaks through side channels (and,
through its asynchronous functions and API models, for event-driven code such as
SGX enclaves and kernel modules).  It is an extension of the symbolic execution
engine KLEE: the engine explores the paths of an LLVM program; the extensions
mark memory as secret (*high*) or public (*low*), schedule asynchronous
functions inside a path, and compare, once the paths are known, the cost of
paths that differ in secret data only.

This directory holds TLA+ modules for the engine and its extensions, the TLC
configurations that check them, and proofs that TLAPS checks.  Source paths below
are relative to `klee/`.

## 1. Inventory

| Component | State | Operations | Interacts with |
|---|---|---|---|
| Execution state bookkeeping (`Executor::run`, `updateStates`, `terminateState`, `Searcher.cpp`, `ExecutorTimers.cpp`) | `states`, `addedStates`, `removedStates`, `pausedStates`, `continuedStates` and two copies, the searcher's own container, `stats::sensitiveDesc`, `haltExecution` | select, fork, terminate, kill at the memory cap, pause and continue, update, dump at the end | everything: a pointer to a state is held by all of them |
| State merging (`MergeHandler.cpp`, `klee_open_merge`, `klee_close_merge`) | `openStates`, `reachedCloseMerge`, the merge stack of each state | open, close, merge, release, destroy | pauses and continues states of the executor; is called back by `~ExecutionState` |
| Asynchronous functions (`ExecutionState.cpp`, `ExecutorAsync.cpp`) | `threads`, `threadsQueue`, `rtid`, `preemptable`, `initiatedAsync`, `waitingForThreadsToTerminate` of one state | initiate, schedule, start, preempt, terminate a thread, wait for threads | asked by `run` before every instruction; copied by forks |
| Resource tree and leakage check (`ResourceUsage.cpp`, the end of the loop in `run`) | the tree of `RD` nodes (`HA`, `HC`, `LC`, `ru`, `Ru`), `rdmap`, `resourceTreeRootList` | charge an instruction, branch, observation point, untrusted call, exit, propagate, check | grows with forks of the executor; conditions are projected with `AnalyzeConstraint.cpp` |
| Secret and public regions (`Executor.cpp`, `AnalyzeConstraint.cpp`) | high and low regions of memory, of symbols and of types, information flow rules | declare, merge and clear regions, search an expression for marked bytes, project a condition | asked at every branch; feeds the resource tree |
| Programming model of APIs (`--prog-model-spec`), life-cycle automaton | stack of `PMFrame`s, blocks, return conditions | start a block, call back, complete, inline or havoc a call | replaces calls of external functions |
| Process tree (`PTree.cpp`) | binary tree of states | split, remove, random walk | random path searcher |
| Memory (`Memory.cpp`, `AddressSpace.cpp`, `MemoryManager.cpp`) | objects, copy-on-write maps, lazily initialised objects, three copies of every byte | bind, write, fork, lazy init, flush | instruction interpretation |
| Instruction interpretation (`Executor.cpp`, `ExecutorAsync.cpp`) | stack frames, registers, `pc`, path condition, loop counts, seeds | one instruction of the main thread or of a thread; fork, branch | everything above |
| Expressions and constraints (`Expr.cpp`, `Constraints.cpp`) | terms, the list of constraints | simplifying construction, evaluation, rewriting | instruction interpretation, solvers |
| Special functions (`SpecialFunctionHandler.cpp`), external functions | aliases of functions, `forkDisabled`, the symbolic objects, errno | allocate, release, assume, make symbolic, end a path, rename a function; call a function of the system | called instead of a body; fork through the executor |
| Solver chain and caches | cached answers and counterexamples | evaluate, mustBeTrue, getValue, getInitialValues | asked by the executor |
| Module preparation (`KModule.cpp` and its passes) | the program | checks of divisors and shifts, lowering of switches, ordering of phis, numbering of instructions | before the run |
| POSIX runtime (`runtime/POSIX`) | descriptors (`__exe_env`), symbolic files (`__exe_fs`), counters of calls that fail | the system calls of a program; symbolic arguments and files before `main` | linked with the program; asks the operating system for files that are not symbolic |
| Seeding, other runtime libraries, statistics, tools | seeds, files | | inherited from KLEE |

What is hard about them:

* *Long protocols on shared pointers.*  Nothing runs in parallel, but one
  execution state is known to the executor, the searcher, up to six vectors, a
  merge handler, the process tree and the resource tree.  An instruction may fork,
  terminate what it forked, and be followed by a timer and by the memory cap,
  before `updateStates` reconciles everybody.
* *Interleaving of cooperative threads* with forks (which copy only some of the
  scheduler's fields) and with a main thread that returns first.
* *Aggregation over a tree* in the order of a set of pointers, with the same
  subtree analysed from several roots.
* *Sharing and caching*: object states shared copy on write, bytes with several
  copies, solver answers that are reused for other constraints, marks of memory
  kept by address.
* *Rewriting*: every expression is simplified as it is built, every constraint is
  rewritten with the equalities that follow.

What makes them correct: the searcher offers the states that exist, no state is
used after or deleted twice, a state that waits is not executed, no thread starves or is cut
off, the conditions at an `RD` node are those of its path, and the report lists
the pairs of paths whose costs reveal a secret; what a state computes is what the
program computes for the inputs of its path, whatever is shared, cached or
rewritten; and what is declared secret is taken for secret.

`PROJECT.json` lists each hazard with its line and with the properties aimed at it.

## 2. Modules and plan

| Module | Models | Checked | Proved |
|---|---|---|---|
| `ExecutorStates`, `ExecutorStatesProofs` | bookkeeping of states, merging | run `states` | yes |
| `AsyncThreads`, `AsyncThreadsProofs` | scheduler of asynchronous functions | run `async`, with liveness | yes |
| `ResourceTree`, `ResourceTreeProofs` | resource tree, leakage check | run `leakage` | yes |
| `ProcessTree`, `ProcessTreeProofs` | process tree, random path searcher | run `process_tree`, with liveness | yes |
| `ApiModel`, `ApiModelProofs` | programming model of APIs | run `api_model`, with liveness | yes |
| `StateMemory`, `AddressSpaces`, `MemoryProofs` | memory of execution states: what it promises, how it is kept | run `memory`, with the refinement | yes, with the refinement |
| `ObjectBytes` | the bytes of one object | run `object_bytes` | |
| `SolverChain`, `SolverChainProofs` | solver chain and caches | run `solver` | yes |
| `Expressions`, `Constraints` | terms, constraint sets | run `constraints` | |
| `ModulePasses`, `Executions`, `Interpreter` | passes, the reference semantics of a program, symbolic execution of it | run `interpreter` | |
| `SpecialFunctions` | functions that KLEE handles itself, the heap, functions of the system | run `interpreter` | |
| `PosixFiles`, `PosixStandard` | the POSIX runtime linked with a program, and what POSIX has | run `interpreter` | |
| `RegionMarks`, `RegionMarksProofs` | secret and public regions: what is marked | run `regions` | yes |
| `Regions` | the search for marks, and branches | run `regions` | |
| `Terms` and the modules of builders and printers | terms of the solvers, texts of queries | run `terms` | |

`MC` modules give the constants of the runs that need definitions for them.  `Constraints`, `ObjectBytes` and
`Regions` are built from `Expressions`; `AddressSpaces` implements `StateMemory`;
`SpecialFunctions` extends `Interpreter`, which runs what `ModulePasses` makes of a
program, and compares it with `Executions`.

The remaining plan, in this order:

* the copies of a byte in `ObjectBytes` over an abstract set of values, so that
  `ContentsAreTheBytesWritten` can be proved for objects of any size;
* in `ExecutorStatesProofs`, what is left of `SearcherOffersStates` when states pause;
* the life-cycle automaton with asynchronous functions, seeding in `run`.

## 3. ExecutorStates

Variables are the fields of `Executor` with their names.  A vector whose order does
not matter is a function that counts occurrences, because the same state can be in
`removedStates` twice and in the searcher twice.  `heap`, `born` and `deletes`
stand for the allocator: identities are not reused, so that a use after delete is
visible.  `phase` is the place in the loop of `run`:

    select -> execute -> (executed) -> memory -> update -> account -> select

* `select`: `selectState`, with incomplete merging `selectPrioritized` and
  `releaseStates`; `selectFromEmpty` is what happens if the searcher is empty
  while `states` is not.
* `execute`: any number of `fork`, `terminateState` (the current state),
  `terminateAdded` (a state forked by this instruction, deleted at once).
  `terminateState` has no guard, and handlers terminate a state and go on with it: one
  whose string cannot be read and then `__assert_fail`, two reference counts below zero
  (`SpecialFunctionHandler.cpp:1160`), one and then the abort of `run`
  (`Executor.cpp:6661`).  So one instruction may terminate the same state up to
  `MaxTerminations` times; `terminateAddedAgain` is a forked state that is
  terminated again after it was deleted.
  `handleOpenMerge` and `handleCloseMerge` are instructions of their own.
* `processTimers`, `checkMemoryUsage`, `updateStates` follow, in this order.
  `updateStatesAsserts` is the same call when an `assert` of the searcher fails.
* `accountSecrets` is the end of the loop body: successors of a secret branch
  become secret descendants and `stats::sensitiveDesc` is updated.  It reads states
  that `updateStates` has deleted; what it reads is any value.
* `doDumpStates` and `runEnds` are the two ways the loop ends.

One bag stands for the searchers.  `checked` searchers (depth first, breadth first,
random) assert that a removed state is there; the weighted one looks it up first
and asserts that a new state is not there yet.

Runs.  `states` covers every command line except pausing and merging together,
with three execution states: a state, one it forks, and one more that is forked by
either, in the same or in a later instruction, which is what it takes to terminate
a copy on the spot, to kill one state while another waits and to merge two.
`MaxOffers = 2` lets the searcher hold a state twice, which is where pausing goes
wrong; `MaxTerminations = 2` is a second termination, after which a third changes
nothing but a count.  The properties say

* that, without pausing, searcher and `states` agree at the top of the loop
  (`SearcherOffersStates`; the proofs add the heap, `StatesAreAllocated`), also after
  double terminations that the searcher survived;
* that nothing is deleted twice (`DeletedOnce`);
* that no instruction of a deleted state is executed unless merging is on
  (`CurrentIsAllocated`);
* that, without pausing, an assert of a searcher fails only for a state that was terminated
  twice (`OnlyTerminatedTwiceAsserts`);
* that a state which waits at the end of a merge region is not executed
  (`WaitingStatesRest`): the vectors that say so are told to the searcher again after every
  instruction, while others fork, leave the region, merge into it, or are killed.

Deadlock is not checked because the run ends.

Where the code departs from its comments and asserts:

* A state that is terminated twice before `updateStates`, by handlers as above or by
  the memory cap after it terminated, makes the "invalid state removed" assert of the
  depth first, breadth first and random searchers fail.
* States released at the end of a merge region are never scheduled again.
  `MergeHandler.h:49` says that the destructor of the handler continues their scheduling;
  but `updateStates` no longer clears `pausedStates` (6305), so that `continueState` finds
  them there, takes them out and does not add them to `continuedStates`, and the searcher,
  which has removed them, does not hear of them.  `MergeInv` of the proofs says it: without
  `--pause-secret-indep` `continuedStates` stays empty.  No property claims that who
  waits goes on.
* With `--pause-secret-indep` the run ends with paused states unexplored.

## 4. AsyncThreads

The scheduler inside one execution state, followed along one path: `ForkCopy`
continues with the copy, which loses `initiatedAsync` and `preemptable`; going on
with the original is a stuttering step.  `chosen` is the result of
`scheduleAsync`, whose returns are one action each (`ScheduleAgain`, `StartAsync`,
`QueueEmpty`, `RoundRobin`, and `MainPoppedWhileWaiting` for its `assert`); then the
chosen thread executes one instruction that matters (`Transfer`, `initiateAsync`,
`ForkCopy`, `MainReturns`, `terminateThread`), or `run` ends the path
(`ExitAfterThreads`).  `spawning` is the analysed program's choice of which
asynchronous functions initiate others; the initial states range over all of them.

Run `async`: two functions, each initiated once between two forks, and no
initiation after three threads exist.  Two functions give the name order of
`initiatedAsync`, a thread that spawns a thread, and, with main, three threads in
the round robin.  `QueueHoldsLive`, `ExitOnlyWhenThreadsDone`,
`AssertHoldsWithoutSpawning` are invariants; `EveryThreadRuns` is liveness under
`FairSpec`: the executor keeps stepping the state (weak fairness of `Next`), and a
basic block is finite, so whoever runs infinitely often ends a block infinitely
often (strong fairness of `BlockEnds`, strong because other instructions of the
block come in between).  Nothing is assumed about which thread runs or about loops.
Deadlock is not checked because the path ends.

The `assert` in `scheduleAsync` that main is not popped while it waits fails when a
thread initiates a function and returns meanwhile (`MainPoppedWhileWaiting`):
`AssertHoldsWithoutSpawning` claims it of programs whose threads initiate nothing.

## 5. ResourceTree

A node of the tree is named by its path; `rd` holds the fields of `RD`, `live` is
the set of nodes that execution states are at.  Branch conditions test one input;
secret, public and other inputs are disjoint sets.  A condition is the set of its
literals, and the solver's answers (`mayBeTrue`, equality of hashes) are set
operations on them.  A condition over both secret and public data is kept whole in
`LC` by the code, as a public one is, so `Publics` stands for these too.  Costs are
one per instruction.

* `Execute`, `Branch`, `BranchCut` (the loop bound ends one successor),
  `ObservationPoint`, `UntrustedCall`, `Exit` and `TerminateEarly` grow the tree.
* `timeSideChannelAnalysis` takes the roots in any order; `PropagateLeaf` and
  `ClimbStep` are `propagate` (depth first, children in the order of their
  pointers, that is any order; one step per iteration of its `while`);
  `checkLeakage` visits the children first and calls `printLeakage`; nodes that
  no cost was carried to are skipped, since there is nothing to compare at them.
  `CheckDone` goes on to the next root.

Run `leakage` has two secret inputs and a public one, and one instruction per path
beyond the branches (`MaxExtra`), so that costs differ.  Trees have seven nodes without
options (branches below both outcomes of a branch) and with observation points, six with
untrusted calls and with both (two branches and a call), five with a loop bound (two
levels of branches).  An observation point is taken once per node.
`ConditionsMatchPath` states what `HC`, `LC` and `HA` mean, while the tree grows;
`LeaksAreReported` and `ReportsAreLeaks` compare the reports with a definition of
leak read off the path conditions (`Leak`).  The exceptions in the first conjunct of
each are where the code departs from its documentation:

* With observation points, which are on by default, a path goes on at a node that
  already has a child; if it completes there, its cost never climbs.  An observation
  is compared with the later ends of its own path, whose secret conditions differ from
  its own without excluding them.  And `combineRange` mixes its cost into the ranges
  of these ends, so that two of them may be reported that cost the same.
* With branches on data that is neither secret nor public (`NeutralFree` excludes them)
  several paths have the same hash, and `map::insert` keeps the first range: the costs
  of the others are lost.
* Under `--loop-bound` the false successor of a branch carries the condition of the
  true one.

`terminated` of a nested secret branch is counted once per leaf that climbs through
it, more often than there are paths; it is only compared with zero, and no report
depends on the excess.

## 6. ProcessTree

The tree of `PTree.cpp` as functions over node addresses (`parent`, `left`, `right`,
`data`), `ptreeNode` of every execution state, and the default searcher's walk.
Addresses are reused after deletion, as an allocator does.  `walk` is one iteration
of the loop in `selectState`, `remove` one of the loop in `PTree::remove`; `fork`
stands for the four places that branch a state and split its node;
`terminateAdded` and `deleteRemoved` for the two that delete a state
(`doDumpStates` deletes through `updateStates` too).  Assertions are part of the
step that makes them: it ends in `phase = "aborted"`.

Run `process_tree` has three states at a time and six nodes: a node with one child
left above a tree with three leaves, which is one node more than three states need
without it.  `WalkStaysInTree` (no null and no deleted node is followed),
`SelectsLiveState` and `TreeAssertsHold` are
invariants; `WalkEnds` is liveness under weak fairness of the loop itself, which runs
on until it returns.  Deadlock is not checked because the run ends when no state
is left.

## 7. ApiModel

A `--prog-model-spec` file says what an API function does: a block of actions for
each of some return conditions.  The module follows one path: `pmstack` is the stack
of `PMFrame`s, `stack` that of the function frames with the PM frame each was
called for.  `CallFunction`, `Return` and `ForkCopy` are the program's; `HandlePlain`,
`HandleBranching` and `HandleFails` are the call of a modelled API
(`APIHandler::handle`), which forks on the return conditions; `executePM` with
`Action`, `CallsBack`, `RefCountDec`, ... is the recursion that carries out blocks.  It
runs within one instruction, an action per step, and that is all `FairSpec` assumes
(weak fairness of `executePM`): it is a function that has been called.

A reference count that falls below zero terminates the state and nothing else: the block
goes on with its next action, status `terminated`, until `executePM` returns; the path has
ended then.  Another decrement below zero terminates the state again, which is the double
termination of section 3.

Run `api_model`: models with two APIs and a subblock, callbacks that call APIs
again, reference counts that reach zero and fall below it, plain actions, and every set of
up to three return conditions; two API calls on a path, three frames, counts down to
`MinCount`.  `CallbackFinishesFirst`, `ActionsRunInOrder` and
`NothingLeftAtExit` are claimed of paths that do not fork inside a block, as the
copy of a state has an empty `pmstack`.  `executePMEnds` says that no block keeps
`executePM` from returning, on terminated states too; excepted is a decrement that is not in
a block and keeps falling below zero, where flags that nobody set decide whether it is
done.

`ConditionsDecide` is about the partition by sign: an action is pushed only for return
values its condition holds of, and one is pushed for every value if the conditions other than
`true` leave none out.  For `true` it says what the code does: its action is in
`partition[TRUE]`, which is used only when no other condition makes the state fork.  An API
with actions for `true` and `zero` does nothing for the values that are not zero.

## 8. StateMemory, AddressSpaces

`StateMemory` is what states may rely on: each has a memory of its own, a fork copies
it.  `AddressSpaces` is how the code keeps it: maps to `ObjectState`s that are shared
after a fork, with `cowKey` and `copyOnWriteOwner` deciding who may write in place,
and reference counts of `MemoryObject`s.  A name of an object is its address, an
`ObjectState` is named by its pointer; both come back when freed.  Besides fork,
write, allocation, free and merge the module has lazy initialisation (single
instances, one object for several pointers) and the resolution of a pointer that
may be to several objects: the pairs are resolved first, and each of the forks of
the access then uses one of them (`access.todo`), with keys that have moved on.

Run `memory`: two states and two objects, every `ObjectState` they need, three forks
along a line.  States that differ in the names of pointers only are the same
(`VIEW`).  Properties: bindings point to existing `ObjectState`s of that object
(`BindingsAreSound`), what is owned is seen by nobody else (`OwnedIsPrivate`), pairs
resolved before a fork are still bound when they are used (`ResolvedPairsAreBound`),
a `MemoryObject` exists exactly as long as it is bound or among the symbolics
(`ObjectsAreCounted`), and the refinement `EachStateHasItsMemory == Abstract!Spec`.  The
assert of lazy initialisation that a single instance is still there when it was
freed is not claimed.

## 9. ObjectBytes

A byte of an `ObjectState` has up to three copies: `concreteStore`, `knownSymbolics`
and the list of updates that accesses at symbolic offsets go through; masks say
which counts.  Actions are stores and loads at constant and symbolic offsets, of one
byte and more (`flushRangeForRead`, `flushRangeForWrite`), and calls of external
functions on the concrete store (`flushToConcreteStore` and the copy back).
Run `object_bytes`: two bytes of two bits, four steps.  `ContentsAreTheBytesWritten`
and `LoadsYieldTheBytes` hold under every assignment of the inputs.  Excluded
(`stale`): an external function that writes a byte that updates hold
(`Memory.cpp:353`): the write does not reach the list.

## 10. Expressions, Constraints

`Expressions` has the constructors of `Expr.cpp` with all their rewriting, evaluation
under an assignment with the folding of constant arrays, and updates with their
tables.  `Constraints` is `ConstraintManager`: a value is computed by operations, branches
add constraints, each with the simplification by equalities, the rewriting of the
others, the splitting of conjunctions.  The reference is a second meaning that is
computed with every operation (`MeaningOf`), per assignment, without expressions.

Run `constraints`: bytes of two bits, two symbolic bytes, a constant table, two
operations, three branches.  Two bits hold what matters at boundaries: wrap around,
the sign, the largest value.  `ValueMeansTheOperations` says that every expression and
its evaluation mean what the operations do, `ConstraintsMeanThePath` that the
constraints, and what is simplified under them, mean what the branches do.

`FastCex` is `FastCexSolver` with the range evaluator: ranges of values are propagated
down the expressions to the bytes of the arrays, possible ones and exact ones, and
truth, values and counterexamples are read off them.  `FastAnswersAreRight` says that what it
answers for the constraints and value of the run is right whenever it answers.  It is
claimed of what its asserts and shifts allow: concatenations whose right operand is one
byte (`ExprRangeEvaluator.h:117-130` shifts by 8 bits whatever the width is).

## 11. SolverChain

`IndependentSolver` over `CachingSolver` over `CexCachingSolver` over an SMT solver
that is external: when it answers, what it answers is right, and it may fail or time
out.  Expressions are atoms with a meaning (`Holds`); `computeValidity`, `computeTruth`,
`getValue` and `getInitialValues` go down the chain in one action each, except that the
factors of `getInitialValues` are solved one by one (`solveFactor`, `allSolved`), in
any order the sets of pointers may have.

Run `solver`: two arrays, three atoms with their negations, two paths, three
entries in the caches.  `AnswersAreRight` whatever was asked and cached before,
`InitialValuesSatisfy` is the assert of `computeInitialValues`.

## 12. ModulePasses, Executions, Interpreter

A program is a record of functions with labelled blocks.  `ModulePasses` is what
`KModule::prepare` makes of it: the division and shift checks, `LowerSwitch`,
`PhiCleaner` and the flattening into an array of instructions.  `Executions` is the
reference: the concrete execution of the program as it was, without expressions or
passes.  `Interpreter` is `executeInstruction` and its copy for threads
(`executeInstructionThread`), with `fork`, `branch`, the loop bound, the limits on forks,
timeouts of the solver, seeds, and memory accesses that may be out of bounds.  A
symbolic value is a function of the input; the path condition is a set of inputs.
`fork` restricts a seeded state to the sides its seeds are on when it only replays seeds
or must not fork (`klee_set_forking`), and is inhibited by limits only without seeds.

Conversions, `getelementptr`, aggregates, vectors and floating point instructions are
there in both copies.  Floating point operands are made concrete by `toConstant`, which
leaves the state with the inputs that have these values and patches its seeds.  Floating
point numbers are small ones (zero, one, infinity, each with a sign, and no number): what
is checked is which operation, predicate, width and operand each instruction uses, not
the arithmetic of LLVM's `APFloat`, which is taken from the reference.

Run `interpreter`: loops, phis, switches, computed jumps, pointer calls, memory,
conversions, aggregates, vectors and numbers, as the main thread, as another thread and
with seeds; five inputs of three bits, addresses of ten; every limit.
`EveryPathIsAnExecution` says that every path is the run of the original program for
each of its inputs; `NoInputIsLost` that no input is left out or explored twice,
except by the skipped forks and the values made concrete.  Not claimed, because the code
does otherwise:

* a switch whose default shares the block of a feasible case loses the default's
  inputs: `insert` keeps what is there;
* a call through a pointer of which one value is no function terminates the original
  state, whichever value it has, and the others go on without a call; threads read
  the pointer, and the operand of `fptosi`, from the main thread's stack;
* at the loop bound with both branches over it a state takes the false one, with one
  branch over it the other;
* `indirectbr` to an address that is the only one possible is not checked: a block that is
  not among the destinations is gone to, and what is no block of the function sends the
  state to the start of the function, as `basicBlockEntry[dst]` makes an entry 0 for it
  (phis of a block that is reached in this way read an operand that does not exist; the
  programs have none there);
* `indirectbr` whose forks are refused dereferences null, and so does a conversion
  between floating point formats of which the result's is not known;
* threads keep the elements of a vector in the opposite order of the main thread.  What
  they build and read element by element is right, as `InsertElementThread` and
  `ExtractElementThread` agree; a vector loaded from memory, or passed in, is not modelled.

### Special functions, the heap and external functions

`SpecialFunctions` has one action per handler, and one for calls of the system's
functions on each thread; its `Next` adds them to `Instruction`.  `handlerInfo` is the
table: one name stands for those that share a handler (`new` for `new[]`, `__assert_fail`
for `_assert`).  A handler that resolves a pointer is a chain of forks (`resolveExact`),
for each object that begins at a value of it and for the rest, and the limits on forks
may cut it.  `executeAlloc` and its copy choose an example of a symbolic size, and go on
for one other value, for null (a huge size), or with an error.  The reference has the C
library's functions, with memory as objects of cells, and what KLEE documents of its own;
allocation hands out the same addresses in both, so that they can be compared.

The programs of the run do for each input another of these, or one with an argument that
depends on the input: what is released twice, in the middle, on the stack or as a global;
sizes of several values, too small or too large; pointers to one of two objects, a table
that may not be written, or null; objects made symbolic with a wrong size, among several
or beyond the seeds; strings that are none; aliases of functions the module does not
have.  Sizes are up to seven (`MaxAlloc` 5 and `HugeAlloc` 6, so that both are met,
`SmallAlloc` 3, `primArraySize` 4), and a program has five globals, the first of them
`errno`.  A path is not compared any more once

* a size was replaced by `primArraySize` (`executeAlloc` does so for every example of a
  symbolic size and for sizes that are not positive or above `MAX_ALLOC_SIZE`; the copy
  for threads allocates what is asked for);
* `klee_get_value` took one of several values without adding it to the path condition, or an
  external function was called with an example (`--allow-external-sym-calls`);
* a handler was called by a thread: its result goes to the main thread's register;
* a thread called a function of the system that changes `errno`, which the copy does not
  take over;
* `klee_make_symbolic` returned at the first object that is read only, and the states of
  the objects after it go on unchanged.

KLEE itself ends (`crashed`) when a string is looked for in the middle of an object or two are
bad, when the name an alias stands for is not in the module, when
`klee_prefer_cex` has not exactly one object, when a fixed object overlaps one or has
an address that is not constant, and when `errno` was released.  What the model shows
besides: `realloc` takes whatever object its pointer is of, locals and globals too.

Left out: `klee_is_symbolic`, `klee_mark_global`, `klee_print_expr`, `klee_stack_trace`,
`--silent-klee-assume`, replaying a test case, a host without memory, an `invoke` of these
functions, and what the programming model and lazy initialisation do
with an external call (for those see `ApiModel` and `AddressSpaces`).  The bound on the
objects an access may be resolved to (`maxForkMulRes`) is left at its default, which is
not reached.

### The POSIX runtime

`PosixFiles` is `runtime/POSIX`: a call is an operator from the globals of the runtime
and one input to an outcome (the globals after it, what it returns, `errno`, what it
wrote for its caller, a size it made concrete, an error).  Files of the program are the
symbolic ones, `A`, `B`, standard input and standard output, of fixed sizes; the others
belong to an operating system of which only what `fd.c` asks is modelled (files and
directories by name, open files with offsets, a terminal, a signal).  The contents, the
`stat` structures, the numbers of the calls that fail and the number of arguments are
the program's input.  The action `CallRuntime` of `Interpreter` makes a call for all
inputs of a state: it forks by what becomes an error, and a size that goes to the
operating system is made concrete (`__concretize_size`).

`PosixStandard` is what POSIX has for the same calls: descriptors that refer to
descriptions of open files.  `Executions` runs the program with it, and each path keeps
a log of what its calls returned, which `EveryPathIsAnExecution` compares.  The programs
are sequences of up to three calls from an alphabet of 79 after one of several set-ups
(which files are symbolic, what is open, how many calls fail, the last descriptor taken,
an operating system that is interrupted), longer ones on reading, writing, copying and
directories, and command lines for `klee_init_env`.  `MAX_FDS` is 6, and the sizes of
directory entries (280 and 4096) are 2 and 6: what matters is that two entries fit
before the jump to those of the system, and that three do not.  A mode has a bit for reading, one
for writing (the owner's) and one above `0777`.

Where the runtime does something else than POSIX has, the reference has no answer and
what follows is not compared:

* `has_permission` (`fd.c:112`) refuses to read what may be read, and only for `O_RDWR`:
  `O_RDONLY` is 0, so that `flags & O_RDONLY` is never true; `O_TRUNC` is without effect;
* `open` sets the mode of the file also without `O_CREAT`, then to nothing
  (`fd_64.c:46`), after which its mode is unsure;
* whether a descriptor may be read or written (`eReadable`, `eWriteable`) is never asked;
* a duplicate has an offset of its own (`dup2` copies the entry), and `dup2(fd, fd)`
  closes the descriptor;
* what is written past the end of a symbolic file is dropped and counts as written, as
  `fd.h:65` says; with `--save-all-writes` it is an assertion that fails;
* `chmod_fail` and `fchmod_fail` are nowhere allocated: with `--max-fail` the first
  `chmod` dereferences null;
* `fchown` passes the program's descriptor on, `unlinkat` does not look at its directory,
  `readlink` returns a made-up name, `F_GETFL` is 0, `TCSETSW` asks for descriptor 0
  instead of the kind of file (`fd.c:914`);
* `getdents` lists the symbolic files for whatever is open, and needs a buffer as large
  as the jump;
* `select` counts a symbolic descriptor once however many sets it is in, and reports
  descriptors that were not asked for when they share one of the system.

Not modelled: calls on other threads, data of symbolic contents written to files of the
system, `EINTR` of other calls, the 32-bit entry points, times of the system.

## 13. Regions

Regions are offsets and sizes in bits.  The marks of memory are kept by the address
of a state, those of symbols once for all states, as in the code.  `RegionMarks` has the
marks: `Label` and `MarkArgument` declare, `LazyInit` follows a pointer to a new object
that takes the marks of its type and of the pointer, `Results` marks the result of a
function, `Copied` and `Forgotten` are forks and ends of states, whose addresses are
reused.  Which argument is not known to be sensitive yet, and which regions of a result
are high, is decided by searching expressions: in `RegionMarks` any answer is possible, in
`Regions`, which extends it, it is the one the search finds.  `CallSensitive` searches
the argument, `Flow` calls a function with an information flow rule, `Branch`
searches its condition (`exprHasSymRegion`, `extractRegion`) and projects it
(`getProjectionOnRegion`).

Run `regions`: two addresses of states, objects of two bytes and of one, bytes of two bits,
three operations.  `MarksAreTheDeclarations` compares the marks with the last
declaration of every bit; `SecretBranchesAreKnown` says that a branch on a secret is
taken for one, and that its projection depends on the same secrets.  Stale marks at a
reused base address of an object are not modelled.  Provisos of the two, each of them
what the code does:

* clearing a region that is larger than a marked one marks the rest; a symbol whose
  marks are cleared keeps an empty list, which counts as marked;
* marks of symbols are global: a state relabels what another took for secret;
* the search misses secrets below an extract of a concatenation that does not start
  at byte 0 of its object, of sums, sign extensions and comparisons, shifts by a
  secret amount, extracts of shifts (`shiftRight` tests an unsigned number for being
  negative), reads with updates, symbolic indices into partly marked objects;
* the projection drops an unmarked operand of a bitwise `And`, also below an
  equality, and fails an assert for an equality of two masked words when one has no
  marks.

## 14. Terms: builders, printers, parser

An expression leaves the engine in four ways, each a module of its own that computes what
the result means: `STPTerms`, `Z3Terms` and `MetaSMTTerms` are the term builders of the
solver libraries (multiplication and division by constants as sums of shifts, with
the constants `SolverTheory` has; shifts by a variable as a chain of cases; one-bit vectors as
formulas); `SMTLIBPrinter` writes a query for other solvers, with its scan for arrays, its
abbreviations by `let` and its casts between bits and Booleans; `KQuery` is the printer
(labels for what occurs twice, versions of arrays, reads in a row as one) and the parser
of the text format, on top of the three `ExprBuilders`.  The libraries are external
(`SolverTheory`): their operators are those of bit vectors.  A term is represented by its
sort and its value under an assignment, a text by its tree of forms.

Run `terms`: over `Constraints`, with every operation on leaves that have updates, table
entries, bits, and one width (10) beyond bytes and words; one operation.
`TermsMeanTheExpression`: each builder constructs a term of the right sort and value.
`PrintedQueryMeansTheSame`: the formula of a query is true exactly of its
counterexamples.  `ParsedQueryMeansTheSame`: what is printed can be parsed, and means what
it did with every builder.  Provisos, each of them what the code does:

* updates are scanned for further arrays only when their array is new
  (`ExprSMTLIBPrinter.cpp:704`): an array that only a later update mentions is not declared;
* a constant that begins a concatenation is printed without its width, which the parser
  needs (`ExprPPrinter.cpp:290`); consecutive reads are printed as one whatever arrays they
  are of (`197`);
* `optimizeDivides` of STP divides by zero in `ComputeUDivConstants32` for a constant divisor 0,
  which the division check of `ModulePasses` excludes.

## 15. Proofs

`ExecutorStatesProofs` proves for every finite set of execution states, every set of
command lines and every bound, from `IdsAssumption` and `OptionsAssumption` alone:

| Theorem | States |
|---|---|
| `TypeCorrect` | `[]TypeOK` |
| `NoDoubleDelete` | `[]DeletedOnce` |
| `PlainRunsAreExact` | `[](SearcherOffersStates /\ StatesAreAllocated)` |
| `NoUseAfterDelete` | `[]CurrentIsAllocated` |
| `PlainRunsAbortForTwice` | `[]OnlyTerminatedTwiceAsserts` |
| `WaitingStatesAreNotExecuted` | `[]WaitingStatesRest` |

None of these is inductive.  `Invariant` proves the conjunction `IInv` of six parts:

* `TypeOK`;
* `OwnershipInv`: a state was deleted at most once, and never while it is
  allocated; what is in `states` or `addedStates` is allocated and the two are
  disjoint.  Without it `DeletedOnce` says nothing about the next deletion;
* `BetweenInv`: which vectors are empty at which place of the loop;
* `OffersInv`: without merging, what the searcher holds, pauses or continues is
  allocated, nothing paused is in `states`, and a member of `states` is offered at
  most once: deleting a state then removes every pointer to it;
* `PlainInv`: without pausing, searcher and `states` agree at every place of the
  loop, `removedStates` holds members of `states` or states that were deleted on the
  spot, and only a checked searcher can abort, over a state terminated twice;
* `MergeInv`: with merging and without `--pause-secret-indep`, a state that waits is
  paused exactly once, a state inside the region or just forked is not paused, and what is
  paused is not offered, except the current state until `updateStates` has told the
  searcher.  That `continuedStates` is empty belongs to it: with a released state in it
  the second update could offer a state that waits.

The proof has a lemma per action (or group of actions) and one for the initial
states; helper lemmas say what `Plus`, `CountOf`, `Updated` and the first part of
`updateStates` compute.  On the instance of run `states`, TLC finds no violation of
`IInv` either (with `MCExecutorStates` extended by the proof module).

`ProcessTreeProofs` proves `[]TypeOK`, `WalkIsSafe`, `SelectionIsLive`,
`AssertsHold` and `AllStatesInTree` for any number of nodes and states, from
`PointersAssumption`.  Its invariant has, besides the types, `LinksInv` (parents and
children know each other), `DataInv` (the leaves are the nodes of the live states,
except the one that `remove` holds) and `RootedInv`: every non-empty set of nodes
that holds the parents of its members holds the root.  The last one says, without
induction over paths, that nothing is cut off; it is needed because the walk
starts at the root, which must be there as long as a state is.

`MemoryProofs` proves for any number of states, objects, `ObjectState`s and forks, from
`AddressSpacesAssumption` (which has finitely many `ObjectState`s, the addresses there are):

| Theorem | States |
|---|---|
| `BindingsStaySound` | `[]BindingsAreSound` |
| `OwnedStaysPrivate` | `[]OwnedIsPrivate` |
| `PairsStayBound` | `[]ResolvedPairsAreBound` |
| `StatesHaveTheirMemory` | `Spec => EachStateHasItsMemory`: copy on write implements a memory per state |
| `CountsAreExact` | `[]RefsCounted`: a count is the number of `ObjectState`s and of entries in the symbolics |
| `MemoryObjectsAreCounted` | `[]ObjectsAreCounted` |

The invariant (`Invariance`) adds to the first three that keys of `ObjectState`s are not
above those of the states that see them, that terminated states hold nothing, and
what is known in the middle of an access.  A step changes the memory of one state
`s` at most, which the lemmas `OwnChangeKeeps` and `OwnChangeIsOwn` state once for all
actions: every other state still sees what it saw, because what `s` writes in place
nobody else sees.  That makes the step a step of `StateMemory` or a stutter.
`ObjectsAreCounted` is not inductive: that a count is positive says nothing about the
next decrement.  `CountInv` adds what the count is, that no `ObjectState` outlives its
last binding and that only live states have symbolics; `EntriesChange` and
`ReboundCounts` do the arithmetic of cardinalities once.

`AsyncThreadsProofs` proves for any set of functions, any program (`spawning`) and any
bounds, from `FnsAssumption` and `BoundsAssumption`:

| Theorem | States |
|---|---|
| `NoThreadIsLost` | `[]QueueHoldsLive` |
| `ThreadsEndBeforeExit` | `[]ExitOnlyWhenThreadsDone` |
| `SchedulerAssertHolds` | `[]AssertHoldsWithoutSpawning` |

The invariant adds `ChosenInv` (whom `scheduleAsync` returned is the running thread, or
main once all have ended) and `SpawnFreeInv` (without spawning main leaves the queue
for good when it waits, and somebody else is queued while something is left to start),
without which the assert depends on earlier rounds.  What the loops over the queue
compute (`WithoutFacts`, `PopFacts`, `PushFacts`) is proved for queues of any length.

`SolverChainProofs` proves for any expressions, bytes, values and sets of constraints, from
`SolverChainAssumption` (expressions mean what the bytes they read decide, a negation
means the negation, the constraints of a path are satisfiable):

| Theorem | States |
|---|---|
| `QueriesAreAnsweredRight` | `[]AnswersAreRight` |
| `FactorsCompose` | `[]InitialValuesSatisfy` |

The invariant says what the caches hold: an entry of the counterexample cache is an
assignment that satisfies its key, or its key is unsatisfiable (`CexIsRight`); an entry
of the validity cache is true of the constraints in its key (`CacheIsRight`); the
factors solved so far are satisfied together (`AskingIsRight`).  The lemmas are about the
algorithms: the factors partition the constraints into sets that read different
bytes (`FactorsPartition`), dropping the constraints that are connected with no byte of
the query changes no answer (`RequiredDecides`), what a subset or a
superset in the cache says is right (`FoundIsRight`, `SubsetSatisfied`).

`ApiModelProofs` proves for any set of programming models, functions and any depth of the
stacks, from `SpecAssumption`, `FnsAssumption` and `ApiModelBounds`:

| Theorem | States |
|---|---|
| `CallbacksFinishFirst` | `[]CallbackFinishesFirst` |
| `BlocksRunInOrder` | `[]ActionsRunInOrder` |
| `PathsFinishTheirBlocks` | `[]NothingLeftAtExit` |
| `BranchesAreDecided` | `[]ConditionsDecide` |

The four read `history`, which the next step could spoil.  The invariant relates the two stacks: every
frame has carried out the actions before the one that is due (`FramesInOrder`), what is on
the call stack for a frame is what the frame waits for (`CallbacksKnown`), the frames that
wait are answered in the order of the calls (`WaitingOnStack`), and between two
instructions the top frame waits (`TopWaits`).  `ConditionsDecide` is a fact about the
partition by sign (`PartitionDecides`), for every set of conditions, `true` included.

`RegionMarksProofs` proves for any objects, types, arguments, addresses of states and
width of the offsets, from `StatesAssumption`, `SizesAssumption` and
`DeclarationsAssumption` (the sizes that are declared do not wrap around):

| Theorem | States |
|---|---|
| `MarksFollowDeclarations` | `MarksSpec => []MarksAreTheDeclarations` |

The invariant (`Invariance`) adds types, that what a state has is named, and that nothing
is marked or declared of what is not (`UnnamedIsUnmarked`), without which a new object
could take over marks.  The lemmas follow the code: `LeftFacts` is what one region leaves
of another in all the ways they can overlap, `ClearFacts` and `ClearRegionFacts` are the
two loops over lists of any length, with the invariant that what is still to be cleared is
inside of one region or apart from all (`Fits`); `DeclareFacts` compares a list of marks with
the declared bits; `SetRegionFacts` says that marking an object of a state concerns
nothing else.  A step of `Regions` is one of `MarksNext` provided that the regions the
search finds in the argument of a call are regions and cover what `FlowsTo` claims
(`Known`), which is an induction over terms and is left to the run.

`ResourceTreeProofs` proves for trees of any size over any secret, public and other
inputs, without a loop bound, from `InputsAssumption` and `OptionsAssumption`:

| Theorem | States |
|---|---|
| `HashesMatchThePath` | `[]ConditionsMatchPath` |
| `ReportsAreAboutLeaks` | `[]ReportsAreLeaks`: no false positive |
| `LeaksAreFound` | `[]LeaksAreReported`: no leak is missed |

A node is a sequence, so the proof begins with prefixes and with the nearest root
of a node (`RootBetween`).  The invariant (`Invariance`) has four parts:

* `TreeInv`, with and without observation points: the tree is closed under prefixes and
  grows at its ends; conditions grow along a path and agree with themselves; `HA` is a
  secret branch above in the same tree; `HC` and `LC` are the conditions since `HA`, or
  since the root (`HashesSinceBase`).
* `PathInv`: every inner node is a branch on one input or a restart, a completed path does
  not go on, two nodes of one tree are on one path or exclude each other (`Diverge`), and
  `HA` is the *nearest* secret branch above (`Nearest`).  Hence two leaves of a tree with the
  same conditions since a node are the same leaf (`OneLeaf`), which is what makes
  `map::insert`, which keeps the first range of a hash, and `combineRange` harmless.
  Observation points break it: an observation has the conditions of the path
  that goes on, so costs are claimed without them only.
* `CostInv`: whatever arrived at a node is the cost of a completed or abandoned leaf below it
  (`RuRight`), and every report is right.  The lemma `DecidedInTwo` (the
  conditions since a node are those up to a branch and those since it) is why composing
  `HC` and `LC` upwards gives the hash of the whole path.
* `AnalysisInv`: a leaf's cost has arrived at every secret branch above, or is on its way from
  the cursor (`Climbing`); once propagation is done it has arrived everywhere (`Arrived`);
  nodes that were visited have all their leaks reported (`CheckedBelow`); and after the
  outermost root so have all nodes (`RootChecked`), whatever was reported, and put into
  `sourcev`, from another root before.

TLC checked the invariants on the instances of the runs before they were proved.  Two things make the proofs go without the library's induction theorems,
whose parameter is an operator:

* induction over numbers is `LeastNumber` of `AsyncThreadsProofs`: a non-empty set of natural numbers
  has a least member, from the well-foundedness of `<` (`UpTo` is the step for a loop).  A
  loop is a recursive function; that it exists is proved (`TempExists`), and a property of it
  for every length because there is no least length without it;
* induction over a tree is avoided by invariants that speak of all prefixes, or of all
  closed sets, at once (`ParentsThere`, `RootedInv`).

Only model-checked:

* `EveryThreadRuns`, `WalkEnds` and `executePMEnds`: liveness under fairness, which the prover
  does not handle;
* the properties of `Constraints`, `ObjectBytes`, `Interpreter` and `Terms`, and
  `SecretBranchesAreKnown` of `Regions`: these modules
  declare recursive operators or build on `Expressions` or `Executions`, which do, and the prover has
  no arithmetic there.  What they claim, that a rewriting keeps the meaning of every
  term, is an induction over terms.

## 16. Not modelled

The other runtime libraries, statistics and tools; of the special functions those named in
section 12.  Of the modelled parts: nested merge regions
and the instruction-distance heuristics of incomplete merging, the seeding phase of
`run`, code cache channels (basic block coverage of `RD`), return values, the choice of
the best observation point, forks that are no branches in the resource tree, the
life-cycle automaton, inline assembly, varargs,
addresses (alignment, red zones), renaming of symbols in projected conditions,
`getRange` of the solver.  `PROJECT.json` gives the reason for each component.

## 17. Running

    tlc -config ExecutorStates.cfg MCExecutorStates

and likewise for the other configurations listed under `runs` in `PROJECT.json` (each
`X.cfg` belongs to `MCX`, but `AsyncThreads.cfg` and `ProcessTree.cfg` to the modules
themselves).

    tlapm ExecutorStatesProofs.tla
    tlapm ProcessTreeProofs.tla
    tlapm MemoryProofs.tla
    tlapm AsyncThreadsProofs.tla
    tlapm SolverChainProofs.tla
    tlapm ApiModelProofs.tla
    tlapm ResourceTreeProofs.tla
    tlapm RegionMarksProofs.tla
