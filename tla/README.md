# Deadline in TLA+

Deadline finds double fetches in operating system kernels: functions that copy
the same user memory twice. It is an LLVM pass (`src/pass/KSym`) that slices a
function for each fetch, unrolls the slice into traces, builds a graph of the
values of a trace, executes it symbolically and asks Z3 whether two fetches can
overlap; scripts (`src/work`) drive it over a kernel build.

This directory holds TLA+ models of the pass, configurations that check them
with TLC, and theorems about them proved with TLAPS.

## 1. The system

| part | source | state | operations | what makes it correct |
|---|---|---|---|---|
| Slice | `Slice.cpp`, `Slice.h` | `backs`, `roots`, `cache`, `suits`, `entry`, `basis`; locals `taints`, `hists`, `dedup` | `btrace`, `follow`, `apply`, `joint`, `expand`, `verify`, the constructors of `Slice` and `LLVMSlice` | it ends, it fails only at values it has no case for, the slice is closed under data flow, every branch that decides between slice blocks is in it, the links of its blocks are the control flow of the function |
| Function analysis | `Func.cpp` | `fts`, `result`, `failed` | `collectFetch`, `analyzeFetch`, `analyzeFetchPerTrace`, `addResult`, `countResult`, `run` | the record of a pair combines what all traces said, the counts add up |
| Logger | `Logger.cpp` | JSON document, cursor, stack | `vec`, `map`, `log`, `pop` | opens and closes match, the cursor has the kind each call asserts |
| DAG | `DAG.cpp`, `DAG.h` | items, loops, sub-graphs, cached paths | `build`, `verify`, `flatten`, `getPath` | acyclic, single loop headers, every path enumerated |
| Unrolling | `Unroll.cpp` | cache of unrolled paths | `getUnrolled`, `unrollRecursive` | every trace is a path of the slice from entry to basis, none is lost under the limit |
| Evaluation graph | `SEG.cpp`, `SEG.h` | nodes by sequence number and value, trace | `build`, `trim`, `expand`, `locateValue` | a value is resolved to its last definition on the trace, branches to the side the trace took, what a load can read is kept |
| Symbolic execution | `Symbolic.cpp/.h`, `Libcall.*`, `Asmcall.*` | memory array, region pointers, solver assertions | `symbolize`, `loadMemory`, `storeMemory`, `checkOverlap` | regions are disjoint, a node is evaluated after its operands, a term has the value of the run it stands for, no run of the code is excluded, overlaps are reported just when there are any |
| Lowering | `Lower.cpp` | the function itself, a worklist | `switchConvert`, `processSwitchInst`, `BreakConstantExpr` | same targets as the switch, phis that match the edges |
| Pass driver | `Tool.cpp` | `EXCEPT`, the log | `runOnModule` | each function analysed once |
| Oracles, fetch catalogue | `Oracle.*`, `Fetch.*` | - | `getReachBlocks`, dominators, `findDefMatch` | reachability |
| Points-to analysis | `PA.*`, `Node.*`, `Global.cpp` | points-to sets | `analyzePointTo` | not called: the call in `Func.cpp:170-174` is commented out |
| Work pipeline | `work/app.py` | files and logs per stage | `parse`, `irgen`, `group`, `trans`, `check`, `stat` | a file logged "done" has a complete output, what is complete is not undone, modules hold what the build linked into them, the stages end |
| Build log parsing | `work/cmd.py`, `linux_stable.py`, `xnu_stable.py` | - | option parsing | string processing |

Interactions. `KSym::runOnModule` lowers a function and creates a `FuncHandle`
for it, which for every fetch asks the oracle for the blocks that reach it,
constructs a `Slice`, wraps it as an `LLVMSlice` for LLVM's dominator and loop
analyses, builds the `DAGraph`, unrolls it and analyses every trace
(`SEGraph`, `SymExec`). Everything runs in one thread; calls return values and
share the slice by pointer. In a debug build all of them write to one global
`Logger`. The scripts start one process per bitcode file from a pool of workers
with a time-out, and communicate through files.

What is hard here is not concurrency within the pass but the order in which
recursive walks meet things: `joint` memoises answers while the calls around it
are still open, sets of pointers are iterated in address order, and several
rounds of tracing have to agree with several walks. In the scripts it is
re-runs after an interrupt, time-outs and partial outputs. The hazards are
listed, with the properties that cover them, in `PROJECT.json`.

## 2. How the models are put together

```
Closure ── Slice ── SliceLinks ── FetchTraces ── EvalGraph       one fetch, from slicing to
   │                                  │ INSTANCE                  the checks of its traces
   └── Loops ── Dag ── Unroll ────────┘
                         │ INSTANCE ... WITH
                      TraceSet                                    what unrolling promises
FuncHandle                                                        one function over its fetches
Regions ── Derive                                                 the meaning of the symbols
LowerSwitch                                                       the lowering before
Closure ── Group        Stage        Check                        the scripts around the pass
```

An arrow is EXTENDS. The composition of the first two lines follows one fetch of
one function through the whole of `FuncHandle::analyzeFetch`; `Unroll` is also
checked by itself, on all small slices. `Derive` takes the instructions of a
trace as given and looks at what the graph abstracts from: values. `FuncHandle`
takes the outcome of the checks as given and looks at what is recorded. The
scripts see the pass as a process that writes a file.

The plan the project followed was: the slice and the function analysis with
their proofs; the rest of the pass in the order of its data flow; lowering and
the scripts; then proofs, component by component: the slice with its links and
the answers of `joint`, the unrolling, the traces and the graph of a trace, the
lowering, the memory regions, the function analysis and the scripts. Section 6
says what is model-checked only, and section 8 what is out of scope.

## 3. The modules

### Closure

Reachability as the least closed set, without recursion, so that theorems can
use it.

### Slice

The loop of `Slice::Slice`. A program is an element of the constant `Programs`;
how its blocks, operands and users look is given by operator constants, so one
module covers every family of functions a configuration describes.

| variable | code |
|---|---|
| `prog`, `reach` | the function with its fetch, and the argument `pred` (`FuncOracle::getReachBlocks`) |
| `todo` | the calls of `btrace` or `follow` not yet made |
| `backs`, `roots`, `taints`, `suits`, `entry` | the members and locals of these names |
| `hists` | the list `hists`, with the side each active call of `joint` is on and its `tnxt` |
| `dedup` | the map; `Unseen` is "no entry", `Null` is `nullptr`; a slice block is named by its basic block |
| `cur` | the argument or the result of a call of `joint` |

`Btrace(v)` and `Follow(v)` are one call each, taken in any order, since the
code iterates over sets ordered by address. `JointKnown`, `JointLoop`,
`JointEnter`, `JointLeaf`, `JointTrueSide` and `JointFinish` are the segments of
`joint` between two recursive calls; `JointReturned` is the end of the outer
loop with its assertions. A failed assertion leads to `pc = "abort"`.

`btrace` and `follow` list the kinds of values they know and stop the program at any
other (`llvm_unreachable`, Slice.cpp:225, 266; the terminator of an incoming block of
a phi is asserted to be a branch, :190). Which values have no case is the
constant `UntraceableOf`: a block without successors ends in one. `UnknownValue` is
the end of the program there, with `pc = "unknown"`. This does happen to real code: in a
block that ends in `return n - copy_from_user(..)`, `follow` takes up the return once
`n` is a root.

The assumption `WellFormed` states what the passes before guarantee: at most two
successors (switches are lowered), terminators in their blocks, those of blocks
without successors no branches, a fetch the entry block reaches, and operands whose
blocks reach their uses.

### SliceLinks

`expand` for each block in any order, `verify`, and `LLVMSlice`. The two
breadth-first searches of `expand` are closures over the blocks outside the
slice; links are sets of pairs, the tables sets of triples.

### FuncHandle

`run`, `analyzeFetch` and `analyzeFetchPerTrace` for one function. `build` is the
set of debug items the pass was compiled with: none in a release build, the common part
and at most one item in a profile build (CMakeLists.txt:27); `log` is the stack of the kinds
of the open JSON values. Slicing, unrolling and the solver are inputs: a fetch
has 0 to `MaxTraces` traces, each passes any of the other fetches, and a check
has any outcome. `seen` is a history variable the properties compare `result`
with.

### Loops

LLVM's dominators and natural loops of a slice (external code, instantiated by
`Oracle.h` as `SliceDomTree` and `SliceLoopInfo`): an edge is a back edge if its
target dominates its source.

### Dag

`DAGraph`. A scope is named by the header of its loop, the whole slice by `Null`.

| variable | code |
|---|---|
| `slice`, `forward`, `loops` | the `LLVMSlice`, and what the dominator and loop analyses say of it |
| `unbuilt`, `dags` | the `DAGraph`s still to be built and those built; one per loop, owned by its `DALoop` |
| `paths` | the memo `paths` of `getPath` |
| `hist`, `left`, `found` | the stack of `DFS`, the predecessors each call has not visited, and the traces found |
| `fault` | the assertion that failed (`verify`, the single header of `DALoop`), or "stack" when the search has no stack left |

`flatten` pushes onto `hist` without looking whether the item is there, as the
code does: `StackLimit` bounds the number of active calls, and a search that
would exceed it ends with a fault.

### Unroll, TraceSet

`getUnrolled` and `unrollRecursive`: `calls` are the active calls, `cache` the
memo, with all traces of a call and the first `UnrollLimit` of them, which is
what a caller of a nested loop combines (`KSYM_CONFIG_UNROLL_TOTAL_LIMIT`, 4096
in the code). `Pieces` is what one item contributes to the traces, `Extended` the
combination with what came before. `TraceSet` is the abstract specification of it: one step answers
with forward ways through the slice, with all of them if there are at most
`Enough`, and the answer may fail only where the search is not known to end. The
refinement maps the ways to the paths over forward edges, `searchable` to the
reducibility of the slice and the answer to the cache entry of the whole slice.

### FetchTraces

`SliceLinks`, then LLVM's analyses on the wrapped slice, then `Unroll`.
`LimitsAssumption`: a function has finitely many blocks, and the stack has room
for one call of `DFS` for each of them.

### EvalGraph

`analyzeFetchPerTrace`. A node is a pair of a position in the trace and a value;
values that are not instructions have position 0. The phases are the loops of
the code: "follow" goes along the trace and makes the nodes (`SEGraph::build`,
`buildNode`, `locateValue`, phis and branches by the neighbours in the trace),
"trim" and "roots" are `trimGraph`, "trace" gives the nodes their symbols in order
(`SymExec::symbolize`, `getSymbol` with its recursion over the operands),
"check" compares the fetch with the others. A symbol is present or absent, and
has an expression or not. `flaw` is what breaks the analysis: an assertion ("build",
"end of trace", "terminator", "no node"), a value `buildNode` has no case for
("unhandled", action `BuildUnhandled`: casts, operators, comparisons and constants its switches do
not list, an address with more than two variable indices; SEG.cpp:1118-1305), or an operand of a
fetch the solver has no expression for ("no expression"). Such values have the
kind "other" in `KindOf`; nothing is assumed about where they occur.

`FunctionAssumption` says what is known of the functions beyond `WellFormed`:

| part | says | justified by |
|---|---|---|
| `LaidOut` | a block lists its instructions once each, the terminator last | LLVM |
| `Available` | an operand that is an instruction comes before its user in the block, or its block dominates that of the user | LLVM's verifier |
| `GoodPhi` | a phi has a value for each predecessor of its block, which is available there, and the entry block has no phi | LLVM's verifier |
| `OpsOf` has `ArgsOf`, and for a phi its values and the terminators of their blocks | `btrace` takes what `buildNode` looks up | the cases of `btrace` and `buildNode`, `Libcall.def`, `Asmcall.def` |
| `GoodFetch` | a fetch is a call whose source and length `buildNode` looks up | `Fetch.cpp`, `FILTERS` against the same tables |


### Regions, Derive

`Regions` is the layout of the solver's memory (`incAndRetPtr`,
`SymExec::complete`) and the condition two fetches overlap under (`checkOverlap`);
sums of addresses wrap. `Derive` has the `derive` functions
of `SEG.cpp`, `Libcall.cpp` and `Asmcall.cpp` in lockstep with a run: `regs` holds
for every value its type, its value in the run and its term, the last as a sort
and a value under the assignment that gives every free variable the value it has
in the run. `mem` is the memory of the run and `blob` that of `SymExec`, `held`
says whether the constraints asserted are true. Under the intended assignment the two have
to agree; where the code is known to take something for granted the run is marked
in `excused`, by reason: "call" (a call failed), "stale" (user memory was
copied in, an ignored call wrote memory, or a value without a term was stored, and
`SymExec`'s memory was not written), "parts" (the parts of `get_user` differ), "size" (a size of zero or
beyond its slot), "wrap" (a signed result that wraps). `trial` picks one of the
sorts of programs. Bytes and bits are digits of a number (`Digit`), and a number is the
sum of its digits (`Number`), so that loads, stores, byte swaps and bitwise
operations work for any width. `WidthAssumption`: an address
holds at least one bit and a pointer at least as many, pointers are the numbers of their width, and an object
fits into memory. `TrialAssumption` says of the programs that constants fit their
types and that widths are positive.

### LowerSwitch

`LowerSwitch::processSwitchInst` for one switch over the signed integers of some
width (`2 * Half` values).

| variable | code |
|---|---|
| `cases`, `dead` | the switch: where each value is sent, and whether its default is `unreachable` |
| `ranges` | the clusters of `Clusterify`, a set of ranges of values that go to one block |
| `lower`, `upper`, `default` | `LowerBound`, `UpperBound` and `Default` of `processSwitchInst` |
| `calls` | the calls of `switchConvert` still to be made: the clusters and the bounds it is given |
| `tree` | the block each call has made: a comparison with two calls below it, a leaf, or the destination itself where the bounds make a comparison superfluous |

`Fit` is the removal of a dead default in favour of the most popular destination.
A call that has more than one cluster is split in the middle (`Halve`), and the lower
half goes first (`Current`). `Goes` follows a value through the tree.
Of the phis the model counts the entries: those of the cases but for the ones
`fixPhis` and `newLeafBlock` remove for a range (`Merged`).

### Group

`app.py group`: the log of the build read line by line, repeated goals dropped,
the hierarchy of links, one iteration after the other with a pool of workers in
any order, the consolidation of the results, and the list of modules. A file is the
set of objects that went into it, `Old` is what an earlier run left. `left` are the
lines of the log not yet read, `Keys` the goals in the dictionary. `work` is the
Python variable of the results, which is unbound or that of the iteration before
when the user interrupts the pool; `interrupted` is a history variable.

### Stage

`app.py irgen` and `trans`, which differ in what a failing command leaves behind
(`atomic`: the compiler writes its output at the end; `trans` lets the shell open
it first) and in whether the handler of an interrupt leaves the stage. A run
takes any of the items, with or without `--force`; the user may interrupt it and
the process may be killed at any step, and runs follow each other without end.
`undone` is a history variable: a forced run ended without a log.

### Check

`app.py check`: workers that take a module, set the alarm, prepare the output,
start the process, wait for it, and kill it when the alarm goes off. The alarm may arrive
at any step of a worker while it is set, also outside the `try` block that is made for it.

### Proof modules

`SliceProofs` (with the lemmas about `Closure`), `UnrollProofs`, `EvalProofs`,
`AnalysisProofs` (for `FuncHandle`, `Regions` and `Derive`), `LowerSwitchProofs`,
`GroupProofs`, `StageProofs` and `CheckProofs`, see section 6. Each EXTENDS the
modules it is about; `EvalProofs` also uses `SliceProofs` and an instance of
`UnrollProofs`.

## 4. The runs

| run | instance | shows |
|---|---|---|
| `slice` | all graphs of 4 blocks whose fetch returns or loops back, with any needs of the fetch; all loop-free graphs of 5 blocks; 378 loops with data (stack slot, argument, global, phi, store, constant expression, ignored call), 270 of them with a value without a case (a return, a computed goto, an alias) | the constructor fails only at values it has no case for (`AbortsKnown`); the slice is closed under data flow and lies in its blocks (`SliceClosed`, `SliceHosted`); the active calls form a path (`CallsFormPath`); the answers of `joint` are real and unique (`AnswerIsReal`, `OneWayOut`), and no deciding branch is lost (`DecidingBranchesKept`); each round has a reason (`EachRoundAddsABranch`); the links are the contracted control flow and lead from the entry through every block to the basis (`LinksAreControlFlow`, `OnSomeTrace`) |
| `fetch` | functions of 5 blocks with values (phi, load, store through a stack slot, two fetches, an unknown and an ignored call, values without a case), loops of 5 blocks, loops with a needed inner block | the slice of a structured function is reducible (`SliceStaysReducible`), the traces are ways of the function to the fetch (`TracesReachFetch`), the graph of a trace says what the trace did (`GraphBuilt`, `PhiTakesEdge`, `SidesAreReal`, `StoresKept`), and the analysis ends, or breaks off at a value that explains it (`AnalysisEnds`) |
| `unroll` | all slices of 4 blocks with at most 2 successors; a line of 6 blocks with up to 3 of 8 further edges (nested and overlapping loops, loops with several exits and entries) | unrolling implements `TraceSet` (`TraceSetImplemented`): safety and liveness; what is asked for within a loop stays in it and does not go around (`LoopWaysWithin`) |
| `func_handle` | 2 fetches, up to 2 traces each, all outcomes, all builds that can be made | `ResultsObserved`, `LogShape`, `ReportAddsUp`; only a dump build fails an assertion of the logger, exactly when it finds an overlap (`OnlyDumpAborts`) |
| `derive` | programs of 4 to 6 values over 2 bits per address, pointers of 4 bits and 16 addresses; five sorts: arithmetic on all integers of 1, 2 and 4 bits with every operation, library calls, stores and loads, fetches, objects at any place | terms and memory mirror the run (`Mirrors`), no defined run is excluded (`RunsAdmitted`), overlaps are reported just when there are any (`OverlapExact`), objects are disjoint (`SlotsApart`) |
| `lower_switch` | every switch over the 8 values of 3 bits with 2 destinations and a default, dead or not | `SameTargets`, `PhisMatch` |
| `group` | 3 goals with one or two of 5 inputs each, goals met again once or twice, failing compilations and links, files of an earlier run, interrupts | `ModulesWhole`, `PartialForGood`, `NothingStale`, `ModulesExist`, `EndsUnlessCyclic` |
| `stage` | 2 items, any sequence of runs, both kinds of commands | `DoneIsWhole`, `WholeIsKept` |
| `check` | 3 modules, 2 workers | `LogMatchesRuns`, `RunsAttended`, `Ends` |
| `slice_continue`, `func_rank`, `check_prepare` | | the disagreements of section 7 |

Bounds. Slices: four blocks hold two nested or overlapping loops, a loop
entered at two places, and a branch in a loop; five blocks without loops hold two diamonds that
share a side. The graph of `ContinueLoops`, which violates `DecidingBranchesKept`,
has five blocks and a loop. The families break the symmetry of the inner blocks by naming
the first block the entry leads to. Unrolling: six blocks are needed for a loop in a
loop with a way around; the longest simple path has six items, so `StackLimit = 6`
never ends a search that would end by itself; `UnrollLimit = 2` is
below the number of ways through some of the loops, so that the limit drops some, while
`fetch` uses 8, which drops none. Functions: two
fetches with two traces give two outcomes of the same pair in either order and a
second fetch that is logged after the first was closed. Derivation: two bits per
address make an integer of one address, of two, and of less than one
(1 bit); the address space ends one address behind the heap, so that addresses
wrap. Of the lengths a call may return beyond a slot one is taken (`Lengths`); `MaxLeaves` and
`MaxRegs` bound the values of a program. Switches: three bits leave room for a range at both ends of the signed
order, gaps of every length and a merged range. Linking: three
goals make a hierarchy of three levels, two on one level, and every cycle; two repeated lines make a
goal three times linked. `check`: with three modules for two workers, one is left to a worker
that had an alarm.

Deadlock is checked in every run but `check` and `check_prepare`, where the stage really may hang:
a worker that loses its job to an alarm leaves the pool waiting for a result
that never comes (section 7). Elsewhere a program that is finished or aborted stutters.

Some results are worth stating beyond the names of the properties. Slices of
structured functions stay reducible, though `expand` contracts the control flow
around arbitrary blocks. Traces never take a back edge: every loop is gone around at
most once. The search overflows only on slices with a loop of
several entries. An arithmetic result is constrained not to wrap as a signed
number whether or not the instruction says so, so runs in which
it does are excluded ("wrap"); everything else a defined run can do is admitted
if calls succeed.

## 5. Fairness

The pass is a sequential program that never waits. `Spec`, `LinkSpec`, `EvalSpec`
and the specification of `MCUnroll` assume weak fairness of the step of the program
as a whole and of nothing else: which of several enabled steps is taken stays
open. `GroupSpec` assumes the same of the script with its pool: commands of the
linker end. `CheckSpec` assumes weak fairness of each step of a worker, its alarm
(which the kernel delivers) and the end of the script, and none of the end
of a process under analysis: processes may run for ever, that is what the alarm
is for. `StageSpec` and `LowerSpec` and `DeriveSpec` assume nothing.

## 6. Proofs

Every theorem holds for all values of the constants that fulfil the named
assumptions of the module it is about; TLC evaluates those assumptions in every
run, so that each instance is one the theorems speak of.

### The slicing loop

The theorems assume `ProgramAssumption`: every function is well typed and
`WellFormed` (section 3). Nothing is assumed about the number of blocks or
values or about the shape of the control flow; in particular loops may be
irreducible, but for the precision of the slice, whose theorems say what they need.

The lemmas about `Closure` come first: it contains its start (`ClosureExtends`),
is closed (`ClosureIsClosed`), and lies in every closed set around its start
(`ClosureLeast`). The last one replaces induction over paths in all
reachability arguments below.

The inductive invariant, `SliceInv`, is built in layers, each inductive relative
to those before:

| part | what it adds | why it is needed |
|---|---|---|
| `TypeOK` | types | the answer on a loop, `Nearest`, is a CHOOSE: that it picks an existing frame with an answer needs the least element of a set of numbers (`LeastExists`) |
| `StackInv` | the frames form a path; the argument of a call continues it; a frame has no answer of its true side before the false side is walked | a result has to be matched with the frame that asked for it |
| `DataInv` | the slice is closed up to the calls in `todo`; roots already followed have their users in the slice or among the taints | `SliceClosed` speaks of the ends of the phases only |
| `WalkInv` | taints are terminators outside the slice; a block in `suits` has instructions or a terminator among the taints; answers are in `suits` or null; a block that was met and has instructions is in `suits` | that every block holds an instruction at the end (`SliceHosted`), and `EachRoundAddsABranch`, hold because of the taints on the way |
| `VisitInv` | all successors of a finished block are handled: outside `reach`, seen, or active | the walk is a complete depth-first search |
| `AssuredInv` | once the block of the fetch was met, an active call or the last result keeps the walk from answering null | the walk finds an entry |
| `AnswerInv` | every answer in `dedup`, of a true side, and of the last call is a block that control meets next from there, through blocks without slice instructions (`AnswersMet`) | `AnswerIsReal`: an answer on a loop is taken from another frame, so the claim has to hold of all frames at once (`LoopAnswerIsMet`) |
| `LeadInv` | as long as the walk has found no new branch, every block it has met is reached, over blocks of the slice, from a head: an active block with instructions, an answer of a true side, or the last result | `OnSomeTrace`: the entry is the last head. A branch with null on one side met nothing new on that side |
| `EntryInv` | the result of the walk is the answer of the entry block; an active block that has an answer answers with itself | the entry of the slice is what the walk finds from the entry block, and it has met all of the function |
| `WayInv` | a finished block without instructions has, unless it found a new branch, the answer of each block it leads to over a sure edge, if that is not null; and two answers of its sides are told apart by a branch that is in the slice or new (`BlockKept`). An edge is sure when it goes forward or to a block with instructions (`Sure`) | `OneWayOut`, `DecidingBranchesKept`, `SliceStaysReducible`: `AnswersMet` says that control can meet the answer, these that it can meet nothing else |
| `SuitsInReach` | the blocks of the slice reach the fetch | the links are followed within `reach` |
| `LinkInv` | what `expand` has found of the blocks handled so far is what `SliceLinks` means by it (`LinksFound`); the others have nothing | `LinksAreControlFlow` speaks of the end; forward and backward search have to agree (`SearchesAgree`, `LinksAreConsistent`) |

The theorems:

- `TypeCorrect`, `PathCorrect`: `TypeOK` and `CallsFormPath` are invariants. The
  second bounds the recursion of `joint` by the number of blocks.
- `ClosedCorrect`, `InReachCorrect`: `SliceClosed`, and `SliceInReach`: no instruction of the slice sits
  in a block that cannot reach the fetch. The second is
  where the assumption on operands is used: an operand sits in a block that
  reaches its user, hence the fetch.
- `HostedCorrect`: `SliceHosted`.
- `RoundsCorrect`: the action property `EachRoundAddsABranch`.
- `AbortsCorrect`: `AbortsKnown`: the constructor fails only in a function that uses, where the
  fetch can be reached, a value `btrace` or `follow` has no case for. The other
  assertions never fail. The one at
  Slice.cpp:328 cannot, because a return block that reaches the fetch is the
  block of the fetch (`LeafIsFetchBlock`); those at Slice.cpp:600 and 604
  cannot, because when the walk is over the blocks that were seen or cannot
  reach the fetch are closed under successors and hold the entry block, so they
  hold the block of the fetch (`WalkMeetsFetch`), and that block makes sure that
  the result is not null (`AssuredStep`).
- `AnswersCorrect`: `AnswerIsReal`.
- `LinksCorrect`: `LinksAreControlFlow`: the links are the contracted control flow,
  and what `verify` compares is equal.
- `OnSomeTraceCorrect`: `OnSomeTrace`: the entry of the wrapped slice leads to every
  block of it over the links, and every block to the block of the fetch. That
  `joint` may leave out a deciding branch on a loop (section 7) does not change
  this: what such a branch leads to was met on another way.

- `OneWayOutCorrect`, `BranchesCorrect`: `OneWayOut` and `DecidingBranchesKept`, the
  precision of the slice, for functions whose loops have one entry (`OneEntry`) that is
  a block of the slice (`Headed`). A function without loops is one of them. The second condition
  is needed: the head of the loop of `slice_continue` is not in the slice, and `joint` forgets a way there
  (section 7). If the fetch needs the value of that head, block 2, instead of that of block 4, the
  theorems apply to the same loop.

An edge goes forward if not all control to its start came by its end before (`Forward`, from
`Around`, the blocks reached without coming to a given one). The heart of `WayInv` is that
in a function whose loops have one entry the walk comes back to an active call over
an edge that does not go forward (`ComesBack`), and that the answer on such
an edge is final when the active block has instructions, since it answers with itself from
the start. So the answers along sure edges agree in the end, and if all edges are sure, the
blocks with another answer than a given block of the slice are closed under passing, so
that block is not met from them (`OneAnswer`).

Before they were proved, the parts of the invariant were checked with TLC as
invariants on the instance of `slice`.

### The function analysis

For every finite set of fetches, every bound on traces and every set of builds
allowed by `BuildsAssumption`:

- `TypeCorrect`: `TypeOK` is an invariant.
- `ResultsCorrect`: `ResultsObserved` is an invariant. It is inductive relative
  to `TypeOK`: only `Check` changes the three variables it is about.
- `LogCorrect`: `LogShape` is an invariant: every phase closes what it opened.
  It rests on `PoppedAppend`, closing undoes opening, and on a "func" build
  being a debug build.
- `ReportCorrect`: `ReportAddsUp`: the counts reported are those of the results.
- `AbortsCorrect`: `OnlyDumpAborts`: the logger fails an assertion in a dump build,
  at the first overlap it finds, and in no other (section 7).

### The memory regions and the symbols

`RegionsApart` proves `SlotsApart` for every layout (any lengths and numbers of
slots, any page size, any size of the address space) and any number of
objects: slots handed out in a row are disjoint, and the test of the
pointers at the end puts all of them into their regions, which are
disjoint by construction (`LayoutOrdered`). The invariant says that the slots of a kind
lie between the base of its region and its pointer, and apart, as long as the pointer
has not wrapped. `OverlapDecides`: the condition `checkOverlap` hands to the solver is true just
when the two ranges have an address in common, for ranges that do not wrap.
`FetchesApart` combines the two: fetches within different objects never satisfy it.

For `Derive`, with addresses and pointers of any width, programs of any length, and any
sorts of programs that fulfil `TrialAssumption`:

- `MirrorsCorrect`: `Mirrors`.
- `AdmittedCorrect`: `RunsAdmitted`.
- `OverlapsCorrect`: `OverlapExact`.
- `DeriveImplementsRegions`: `Derive` implements `Regions`; so `SlotsApart` holds there,
  too (`DeriveApart`).

The first three are about regular programs (`Regular`): pointers are cast to and from
integers of their own width only, and integers loaded and stored, and pointers, fill 1, 2, 4 or 8
addresses. For other programs the code does something else: a cast between a pointer and a narrower integer
leaves the term as it is, a term loaded is as wide as all the addresses it came from
(section 7), and `loadMemory` rounds the number of addresses up to one of the four.

`DeriveInv` is the inductive invariant; TLC checked it on the instance of `derive` before
it was proved. Its parts:

| part | says | needed because |
|---|---|---|
| `RegsTyped`, `MemTyped` | a value is within its type, a term has the sort of the type, memory holds digits | that the sorts agree does not depend on what was asserted; no assertion on widths fails |
| `RegsExact`, `MemExact` | terms and memory have the values of the run, as long as no reason among "call", "stale" and "parts" is in `excused` | the terms agree also where constraints exclude the run, so this is kept apart from `held` |
| `held` | constraints are true if `excused` is empty | constraints are asserted about terms, which have to be exact first |
| `FetchTyped` | what a fetch recorded is a pointer and a size, and a size is not zero unless "size" is a reason | `OverlapExact` is about sizes the calls have asserted |

Most instructions append a value and leave the rest alone. For these, `Grown` says what a step has to
show, and `DerivedGrows` what a derived value has to (its
type, the sort of its term, and that the term has the value of the run); `GrownInv` takes it
from there. The arithmetic underneath is proved from the definitions. Powers of two cannot
be reasoned about by induction here, so `2^n` is taken as the number of subsets of `1..n`
(`PowerCounts`), from which its sums and order follow (`PowerAdds`, `PowerGrows`). That the
sums of digits exist and stay in range (`NumberSums`, `NumberInRange`) is shown by
the least place where they would not (`LeastExists`). `ModShift` and `ModFactor` move remainders
through sums and products, for GEP; `CellsBehind` shows that a store, which counts from its
first address on, writes just the cells it is said to, also where they wrap.

### The unrolling

For every set of slices that are finite, have successors for all nodes, an entry
and a basis among them, and whose every block the entry reaches (`Sliced`), and
for every `UnrollLimit` and `StackLimit`. `LinksCorrect` and `LLVMSlice` give all of that
but the last, which is part of `OnSomeTraceCorrect`.

- `LoopsNest`: two natural loops are disjoint or one contains the other, also in a slice
  that is irreducible elsewhere. It rests on the order of dominators
  (`DominatesTransitive`, `DominatorsOrdered`), proved over `Closure`
  with a block left out.
- `VerificationCorrect`: the assertions of `DAGraph::verify` and the single
  header of `DALoop` never fail: a loop is entered at its header only
  (`EnteredAtHead`).
- `UnrolledCorrect`: every trace that is returned is a way of the slice from its entry to the block of the
  fetch over edges that are no back edges.
- `LoopWaysCorrect`: `LoopWaysWithin`.
- `PromiseKept`: `Unroll` implements `TraceSet`, but for its liveness: the
  traces are returned once and never change, there is at least one, none is left
  out if there are at most `UnrollLimit`, and the search is broken off on an
  irreducible slice only. Here `UnrollLimit` is at least 1 and `StackLimit` at
  least the number of blocks: the search calls itself once per item of a path,
  and on a reducible slice no path has two items with the same block
  (`ChainsShort`).

The inductive invariant `UnrollInv` says what the graphs are (`GraphsKnown`), that an active call
asks for a block of its scope (`CallsKnown`), that the memo and the search hold sequences of items from
the root over edges of the graph (`PathsKnown`, `SearchKnown`), and that every trace in the
cache is a way within its scope (`CacheKnown`). `UnrolledFacts` is about the
recursive function `Unrolled`; where induction would be used, the proofs take a least
counterexample (`LeastExists`, `StepsExist`).

That nothing is lost needs a second invariant, `WholeInv`, which says what is still to come:

| part | says | needed because |
|---|---|---|
| `SearchWhole` | a path back from the item asked for was seen, or one of its prefixes is on the stack and goes on to an item that is `left` | DFS fills the memo when the outermost call returns; then nothing is left (`RetreatEnds`) |
| `CallsWanted` | the ways asked for by a call become ways to the fetch, all of them different, when a fixed way is put before and a fixed one behind (`Embedded`) | the limit cuts the traces of the inside of a loop (`first`), but `TraceSet` speaks of the ways of the whole slice: if these are few, so are those of every loop that is asked for (`EmbeddedFew`) |
| `CacheWhole` | an entry has a trace, no way it stands for repeats a block, and if all entries are few, each holds all its ways | a way through a scope splits into ways within the items of a trace (`SplitExists`), whose parts `Unrolled` joins (`UnrolledWhole`) |
| `FaultKnown` | the stack overflows on an irreducible slice only; "path" is never reached | `Return` has a trace, and each ends at the item asked for |

That the ways are finitely many is not assumed: a search that has ended saw no item twice
on a path (`ChainsRepeatNothing`), so no way repeats a block (`WaysDistinct`).

### The traces and their graph

For every function that fulfils `ProgramAssumption` and `FunctionAssumption`, any
control flow and any data flow, every fetch of it, and all limits that fulfil
`LimitsAssumption` (`EvalProofs`):

- `TracesCorrect`: `TracesReachFetch`. Here the slice and the unrolling come together:
  the finished slice is one `UnrollProofs` speaks of (`WrappedSliced`), by `OnSomeTraceCorrect`
  and `LinksCorrect`, and the ways of the unrolling are, by the links, ways of the
  function (`TracesKnown`). `Oracle`, the instance of `Unroll` in `FetchTraces`, and
  the instance of `UnrollProofs` have the same definitions under two names; the
  lemmas that begin with `Same` identify them.
- `GraphCorrect`: `GraphBuilt`: the assertions of `followTrace`, `getNodeOrFail` and
  `locateValue`, and those of `buildNode` about phis, never fail on any trace. The construction breaks off at a value
  `buildNode` has no case for, the comparison at an ignored call among the operands of a fetch, and
  at nothing else: `FlawInv` says so of every step. A terminator `followTrace` has no case for is none of a
  trace, since `btrace` would have stopped at it before (`Unbroken`).
- `PhisCorrect`: `PhiTakesEdge`.
- `SidesCorrect`: `SidesAreReal`.
- `StoresCorrect`: `StoresKept`.
- `ReducibleCorrect`: `SliceStaysReducible`: if the loops of the function have one
  entry, so have those of the slice. This is not obvious, because the head of a loop may be left out.
- `SearchCorrect`: so for such a function the search for the traces ends without a failure:
  the stack is large enough, and no assertion of `DAGraph` or of the paths fails.

The argument for `ReducibleCorrect` (in `SliceProofs`, since it is about the finished slice only): take the least
set of slice blocks that a loop of forward edges of the slice runs through (`LoopMembers`), and the
blocks of the function control passes on it (`Span`). They lie in a loop of the
function, whose head all control to them comes by (`HeadExists`, `HeadDominates`). If the head is in the slice,
one of the edges leads back to it in the slice, too. If not, the answers agree
over forward edges (`WayInv`), so all that can be met next from the head, without coming back to it, is its
one answer (`HeadAnswers`): that block takes the place of the head in the slice
(`NoSliceLoop`).

The invariants build on each other: `BuiltInv` (the finished slice: `SliceInv` with what
`EntryInv`, `WayInv`, and what the tables of the links hold,
`TablesKnown`), `FetchInv` (what the unrolling guarantees on top of that), and `GraphInv`, which says per
phase what the graph is: the nodes whose calls are still to be made or were made are all
that was asked for (`FollowKnown`), everything on the trace but plain jumps is in the graph before
the trimming (`TrimKnown`), and afterwards it is closed under operands, has the
fetch, and has everything on the trace that uses a node it has (`TrimmedKnown`).

The argument for `GraphBuilt` is about dominators. What a trace is made of is
`FlattenSeq`, a recursion over data; all that is used of it is that the trace lists the
instructions of the slice in the order of the blocks and, within a block, of the
block (`FlattenLaid`, `FlatLists`). If a block of the slice dominates a block of the trace,
control must have met it, and a trace leaves out no block of the slice that control
met (`WayAvoids`, `DominatorMet`), so an operand of an instruction on the trace is on it, and before
it (`OperandTraced`). A phi needs more, since its values need not dominate it: `btrace`
takes the ends of the predecessors, so every predecessor the walk came to is in
the slice (`PhiPredecessors`), and the trace comes to the phi from one of them
directly (`PhiEntered`). Then the table of the predecessors has exactly one entry for it
(`PhiTable`) and nothing else lies between on the trace (`PhiBefore`). A branch of the trace is
followed by the first instruction of the next block (`AfterBranch`), so the table of
the successors gives the sides (`SideFacts`). For `StoresKept`, positions fall along
dependencies (`OperandsFound`), which is why `Below`, a recursive function, exists
and stays in the graph (`BelowKnown`).

### The lowering

For every width, every set of blocks, every switch:

- `TargetsCorrect`: `SameTargets`.
- `PhisCorrect`: `PhisMatch`.

`LowerInv` relates the clusters to the cases (`RangesKnown`), the bounds to the values that can come to a
call (`BoundsKnown`; `BoundHolds` is the step at Lower.cpp:227-234), the block of every call to its
clusters (`TreeKnown`), and says that the calls on the stack and the leaves divide the clusters
among them (`PartsKnown`). `CompareMeans` shows that each of the four
comparisons of a leaf decides whether the value is in the range, wrapping
included; `TreeLeads` follows a value through the tree, whose depth is bounded by the number
of clusters of a call; `EntriesAreEnds` is a bijection between the entries of a phi that are
left and the ends of the tree.

### The scripts

`StageProofs`, for any number of items and any commands:

- `DoneWasCompleted`: `DoneIsWhole`. The inductive invariant relates jobs and
  outputs (an item whose worker returned success has an output; atomic commands leave no
  partial ones) and the entries of the log.
- `CompletedIsKept`: `WholeIsKept`, from an invariant on the jobs of a run: without
  force an output that exists is skipped.

`CheckProofs`, for any numbers of modules and workers:

- `ProcessesAttended`: `RunsAttended`.
- `LogSound`: `LogMatchesRuns`. Both follow from one inductive invariant: a module is in
  the queue, with one worker, or has a result (`OnePlace`); the place of a worker
  says what its process is doing (`Stages`), and the log has one entry per module,
  that of its result (`Written`).

`GroupProofs`, for any goals, inputs and outcomes: `ModulesCorrect`
(`ModulesWhole`), `PartialCorrect` (`PartialForGood`), `FreshCorrect`
(`NothingStale`) and `ListedCorrect` (`ModulesExist`). The invariant `GroupInv`
says per phase what the dictionary and the files hold (`Untouched`, `Hierarchical`, `Iteration`),
that a file that exists holds what was linked into it and
nothing of an earlier run (`Filed`), and that what is reported was
done (`Reported`).

### Only model-checked

- Liveness: everything under fairness (`AnalysisEnds`, the ending of
  `TraceSetImplemented`, `EndsUnlessCyclic`, `Ends`), which is out of the
  prover's reach.
- `DecidingBranchesKept` and `OneWayOut` without the conditions of their theorems: they hold on the
  instances of `slice` but not in general. `slice_continue` violates the first; where the loop of
  `ContinueLoops` is left through one more block without slice instructions that
  branches, the second fails too.
- `Mirrors`, `RunsAdmitted` and `OverlapExact` of programs that are not `Regular`. The
  programs of `derive` are regular; for others no claim is made but that of `RunsAdmitted`, which
  leaves out failing assertions where integers do not fill their addresses.

## 7. Where code and comments disagree

Each has a run that checks what the code says of itself and finds it violated.

- `slice_continue`, `DecidingBranchesKept`. `joint` asks, on a loop, for the
  nearest block with an answer (comment at Slice.cpp:305) and takes null if
  there is none yet (:309-316). A block without slice instructions that leaves a loop
  over its header, before the header has an answer, then answers null and
  remembers it (:360). If a branch met later has that block on one side, the
  branch sees null there and is not made a condition ("make it a condition when
  tnxt != fnxt AND tnxt/fnxt != null", :394), though control gets from there to
  a different slice block. The program of `ContinueLoops` is a loop with a
  `continue` on two ways.
- `func_rank`, `HighestRankKept`. For a pair with a result of lower priority,
  `addResult` means to "override" it (Func.cpp:61) but calls `map::insert` (:63),
  which leaves an existing entry alone. The first outcome stays.
- `check_prepare`, `DoneWasRun`. `check_worker` returns `False` when its output
  cannot be prepared (app.py:85), and `check` takes a result equal to 0 for
  success (:856), which `False` is. The module is logged as done though no process
  was started.

The other places where the code does less than it seems to are conditions of
passing properties, which say precisely what is left out:

- `LLVMSlice` means to "ensure that the basis block is at the back"
  (Slice.cpp:694), but appends it only if it is not the entry (:695). When the
  fetch sits in the entry of the slice and a loop brings in other blocks,
  `getBasisBlock()` returns one of these, and the traces end there. `TracesReachFetch`
  covers these slices: their traces start with the block of the fetch if they
  do not end with it. The functions of `fetch` have some, so the comment at :694 is not
  true of them.
- A dump build logs an overlap with `SLOG.map()` (Func.cpp:238) while the cursor is at
  an object, because the array it means, "check", is opened by func builds only, and no build
  is both (CMakeLists.txt:27). `assert(cur->is_array())` (Logger.cpp:24) fails at the first overlap:
  `OnlyDumpAborts`.
- `btrace` says of its cases "should have enumerated all" (Slice.cpp:223), `buildNode` "should have
  enumerated all cases" (SEG.cpp:1303). Values that are in neither list end the pass:
  `pc = "unknown"` and `flaw = "unhandled"`. `AbortsKnown`, `GraphBuilt` and
  `AnalysisEnds` say that this needs such a value where the fetch can be reached.
- `checkOverlap` tests its operands for null, not for an expression
  (Symbolic.cpp:149-152). The result of an ignored call, compat_alloc_user_space
  among them, has none: a fetch from there breaks the analysis. `GraphBuilt` and `AnalysisEnds`
  admit `flaw = "no expression"` for fetches with such an operand only.
- A region pointer that comes past the end of the address space starts again at
  its beginning (Symbolic.h:337) and passes the final test: `SlotsApart` is about
  pointers that have not wrapped. With 64 bits and the lengths of the code it takes a
  solver that places the first object there.
- Terms of integers whose width is no multiple of the bits at an address get the
  width of all the addresses they are loaded from (Symbolic.h:309), and the next operation on
  them fails an assertion: `RunsAdmitted` excludes them.
- The parts of `__get_user_n`, status and data, are one variable (Asmcall.cpp:47), so a
  branch on the status constrains the data: reason "parts".
- When the default of a switch is dead, the phis of the old and of the new default
  destination (Lower.cpp:466) are not kept in step: `PhisMatch` is about the other blocks.
- A goal linked three times in the log is deleted twice from the dictionary, which ends
  the script with a KeyError (app.py:430); an interrupt in the first iteration of `group`
  ends it with a NameError, one in a later iteration takes the results of
  the one before (app.py:534). `EndsUnlessCyclic`, `NothingStale` and `ModulesWhole` say so.
- A re-run of `trans` skips an output that exists, also one a failed command left
  behind, and calls it done (app.py:731): `DoneIsWhole` is about commands that
  write their output at the end. After a forced run that is killed, the log of the run before
  still calls outputs done that are no more: `undone`.
- The alarm of a worker stays set after an output could not be prepared. If it
  goes off when the worker is idle the pool replaces it; if it goes off when
  the worker has taken a job but not begun with it, the job is lost and `check` never
  ends: `Ends` requires that all outputs can be prepared. An alarm in the few steps outside the
  `try` block ends `check` without a log.
- `-i` re-runs rewrite the log of a stage with those items only, and the list of modules goes
  by the files that exist, so that files of an earlier run count
  (`ModulesExist` allows `Old`).

## 8. Not modelled

- The points-to analysis, its nodes and globals (`PA.*`, `Node.*`, `Global.cpp`): dead
  code, its only call (Func.cpp:170-174) is commented out.
- `BreakConstantExpr` and the deletion of dead default blocks in `Lower.cpp`: the first replaces
  one constant expression by one instruction at a time.
- In the symbolic execution: vectors and floats (the code asserts), GEP
  indices of other than pointer width, the object sizes it keeps for statistics, the
  assertion stack of Z3, and Z3 itself.
- `KSYM_CONFIG_UNROLL_ONCE`, which is off.
- The fetch catalogue (a constant table), the pass driver (a loop over
  functions), `Trace.*` and `Alias.*` (stubs), printing and drawing.
- In the logger: duplicate keys, scalar values, the dump to a file.
- In the scripts: `checkout`, `config`, `build` (external commands), `parse` and
  the parsing of compiler command lines (string processing), the reports `stat`,
  `dump`, `result` and `analyze` (read only); the `return False` of `group`
  when a directory cannot be made; how the pool cuts its input into chunks.
- Vendored code: the JSON library, the AST dumper; LLVM's dominator and loop
  analyses are modelled by what they compute.

`follow` and `btrace` take the operands and users of values as given; which
arguments of a library call `btrace` traces is a table in `Libcall.def`.
