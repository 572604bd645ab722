# TLA+ models of hybitor's generated-code analysis and driver

This directory holds TLA+ models of the C++ sources under `src/`, the TLC
configurations that check them on small instances, and TLAPS proofs of
eight invariants for every value of the constants (six of them under no
hypothesis beyond the modules' named assumptions).

## The system and its parts

| part | source | what it does |
|---|---|---|
| Block Classifier | `src/generatedcodebasicinfo.cpp` 29-77 (`runOnFunction`) | reads the `revamb.input.architecture` metadata (delay-slot size, name of the PC global), walks the blocks of a function and records the Dispatcher, AnyPC and UnexpectedPC blocks and the address → block table `JumpTargets` in members of the pass |
| PC Resolver | `src/generatedcodebasicinfo.cpp` 79-142 (`getPC`) | from an instruction, walks the CFG backward (breadth-first, a `Visited` set, one cursor per block) to the `newpc(address, size)` call that covers it; `{0, 0}` when there is none or two are met |
| Marker protocol | `src/revamb.h` 34-43 (`BlockType`), the `newpc` calls | the roles of blocks and the marker call the translator puts at the start of each original instruction |
| Architecture descriptor | `src/revamb.h` 46-106 | immutable per-architecture data |
| Driver | `src/main.cpp` | `parseArgs`, `findQemu` (search for libtinycode), `loadPTCLibrary` (dlopen, dlsym, `ptc_load`), then the code generator |
| Helpers | `src/revamb.h` 108-132 | `startsWith` (a `substr` comparison) and `contains` (`std::find` against `end`); `GenericFunctor` and `notNull`, which nothing in `src/` calls |
| Transform adapter | `src/transformadapter.h` | `TransformIterator` (an iterator that applies a transformer on `*` and `[]`), `adaptors::Transform` and the two `operator|` that pipe a range or a container through a transformer |

How they interact: the driver loads the translator library and runs the code
generator (outside `src/`), which builds the generated function and its
metadata. The pass manager then runs `runOnFunction` on every function of the
module, on one pass object. Later passes call `getPC` on instructions of the
classified function; it reads the `Dispatcher` member that the classifier set.

## Modules

| module | models | state (VARIABLES) and actions |
|---|---|---|
| `BlockGraph` | the function getPC searches | constants for blocks, marker calls and their arguments. `LastNewPC` is the backward scan of one block (lines 95-110). Also holds the reference definition `Reaching` of the calls that reach a point (marker-free backward paths, through `TransitiveClosure` of the community module Relation). |
| `PCQuery` | the contract of getPC (spec.md 4.4, 7) | one `Answer` step, whose answer is in `Allowed`: the call found when exactly one reaches the point; `{0,0}` or one of them when several do; `{0,0}` when none does; an abort only with assertions on, and only when a marker-free path enters the dispatcher or the call has size 0. |
| `GetPC` | `getPC` | `WorkList` (the queue of reverse iterators, as ⟨block, index⟩), `Visited`, `NewPCCall`, the locals of the predecessor loop (`BB`, `PredList`, `k`), `pc`, `result`. Actions: `Seed` (84-87); `ScanAmbiguous`, `ScanFound`, `ScanSkip`, `ScanMiss` (89-121, one loop iteration each, split by the outcome of the scan); `Enqueue` and `EnqueueDone` (122-130, one predecessor per step); `ReturnUnknown` (134-136); `ReturnFound` (138-141). |
| `GetPC_proofs` | proofs | `TypeCorrect`, `WorklistBounded` and their lemmas. |
| `Helpers` | `revamb.h` 117-132, `transformadapter.h` 15-89 | the helpers as operators (`substr`, `startsWith`, `find`, `contains`, `TransformIterator`, `deref`, `subscript`, `transform`, `pipeRange`, `pipeContainer`); the variables `call` (one call with its arguments) and `result`. Actions: `CallStartsWith`, `CallContains`, `CallPipeRange`, `CallPipeContainer` (a caller reading the transformed range by `*` and by `[]`; for a container the range points into `operator|`'s destroyed by-value copy, so the read is a crash or any values), `Returned`. |
| `ClassifyData` | the module the pass reads | constants (addresses, bounds, metadata shapes, build flags) and the data operators shared by the pass and its contract: the roles, the functions as sequences of blocks, `RoleBlocks`, `TargetBlocks`, `HasDistinctTargets`. |
| `ClassifyContract` | the contract of runOnFunction (spec.md 6, 7) | `Funcs`, `MD`, `MDDelay`, `outcome`. One `Classified` step on the first function: the abort exactly when the producer broke the contract (`Breach`), otherwise a return with members that `Describes` the function exactly. |
| `Classify` | `runOnFunction` and the pass object | `Funcs` (the functions of the module), `MD` (the shape of the metadata), the members `DelaySlotSize`, `PC`, `slot` (Dispatcher/AnyPC/UnexpectedPC), `JumpTargets`, the loop index `i`, `fn` and `pc`. Actions: `LoadMetadata` (32-39), `VisitBlock` (41-67, one block per step), `FinishFunction` (70-76), `NextFunction` (the pass manager calls the same object on the next function). |
| `Classify_proofs` | proofs | `ClassifyTypeCorrect`, `MembersAlwaysSound`, `ClassifyExactOneFunction`, `FatalOnlyOnBreachOneFunction`, `ClassifyRefinesContract` and their lemmas. |
| `Driver` | `main.cpp` | the inputs (the positional count argparse leaves, the `-e` and `-g` texts, what each search directory holds, whether realpath succeeds), `Params`, the globals `LibTinycodePath`/`LibHelpersPath`, `pc`, `status`. Actions: `ParseArgs` (168-299 with main's check 306-307), `FindQemu` (70-109), `LoadPTCLibrary` (120-158, 316-317), `Generate` (319-340). The empty `std::string` the globals start with is the constant `EmptyPath` (`""` in the cfgs). |
| `Driver_proofs` | proofs | `DriverOutcomeHolds` and its lemmas. |
| `MC_*` | model values and constant definitions for TLC | |

Modelling choices that matter:

* **getPC.** The graph, the bodies and the query point are chosen in `Init`
  and never change.
  * The use-list order of a block's predecessors is chosen when `ScanMiss`
    enumerates them (`PredList`). Every block is enumerated at most once
    with any effect, so this is the same as fixing one order per block in
    advance, and it keeps the initial states small.
  * An empty block has no successors, because it has no terminator.
  * The dispatcher holds no `newpc`.
  * `AssertsEnabled` selects the build. Under NDEBUG the dispatcher assert
    is gone, and its `continue` never had an effect, so the walk goes on
    through the dispatcher.
* **runOnFunction.** `getType` is declared in a header that is not under
  `src/`. A block's role is therefore an input, following spec.md 4.3
  (`BlockKinds`, marked spec-modelled in the map).
  * Reading operand 0 of a metadata node that was just created, so has no
    operands, is undefined under NDEBUG. The model lets it crash or hand on
    any delay size and any PC.
  * The members are never reset. That is why the model runs the pass over
    `NumFuncs` functions.
* **main.** `sscanf("%lld")` is modelled by what glibc does:
  * skip white space;
  * take an optional sign and the longest run of digits;
  * with no digit, fail (EOF when only white space is left);
  * clamp out-of-range values.

  The conversion is written with non-recursive operators (`FirstIndex`,
  and `DecimalValue` as a recursive function), so that the module can be
  proved about.
  `long long` and `size_t` have `LLBits` bits (4 in the runs), so that
  overflow and the cast of a negative value (`% 2^LLBits`) are reachable
  with three characters. `dlopen("")`, reached under NDEBUG when no library
  was found, ends in `EXIT_FAILURE` whichever way glibc treats it. The `-d`
  feature list and the default empty paths are logging and layout, and are
  left out.
* **Helpers.** A `std::string` or a range is a sequence, and a wrapped
  iterator is its position; `IteratorWrapper`, which moves and compares it,
  is declared outside `src/`. `std::find` is a recursive function over the
  positions, as the loop it stands for. The reference definitions the
  helpers are checked against, `PrefixOf` and `ElementsOf`, are written
  with quantifiers in the module itself, so that it reaches no RECURSIVE
  operator and can be proved about.

## Properties and runs

Every property is stated, with the code it is about, in a comment above its
definition.

| run | cfg | expect | checks | what it shows |
|---|---|---|---|---|
| getpc_safety | `MC_GetPC.cfg` | pass | `TypeOK`, `ResultCorrect`, `WorklistBound` | For every function of 3 blocks (one the dispatcher), up to 2 instructions a block, 2 calls (one of size 0), every query point and use-list order, getPC answers as `PCQuery` allows and its worklist stays within the block count. 3,066,176 states. |
| getpc_ndebug | `MC_GetPC_ndebug.cfg` | pass | `ResultCorrect` | The same with NDEBUG: walking through the dispatcher, and returning a size-0 call, still gives allowed answers. 5,077,178 states under the symmetry of the two non-dispatcher blocks. |
| getpc_refine | `MC_GetPC_refine.cfg` | pass | `GetPCImplementsPCQuery` | getPC implements `PCQuery` (`INSTANCE PCQuery WITH answer <- AnswerOf`), including its weak fairness: every run answers exactly once. One instruction per block, to keep the temporal check small. |
| getpc_selfmarker | `MC_GetPC_selfmarker.cfg` | violation | `ResultCorrect` | A point that is a `newpc` call in the middle of its block is not covered by itself (finding 2). |
| getpc_diverge | `MC_GetPCDiverge.cfg` | violation | `AmbiguityDetected` | The divergent-paths function of spec.md 8: the result depends on the use-list order, and the ambiguity is missed (finding 1). |
| classify_safety | `MC_Classify.cfg` | pass | `CTypeOK`, `ClassifyExact`, `FatalOnlyOnBreach`, `ClassifyImplementsContract` | One function of up to 4 blocks, with assertions: on return the members are exactly the function's singleton blocks, jump targets, PC and delay size, and the pass aborts only on a broken producer contract. The pass implements `ClassifyContract` (`INSTANCE ClassifyContract WITH outcome <- ContractOutcome`), weak fairness included: every call ends in the outcome the contract allows. |
| classify_ndebug_multi | `MC_Classify_ndebug_multi.cfg` | pass | `MembersSound` | NDEBUG, two functions, every metadata shape: a member never points to a block of another role, even when it is stale. |
| classify_stale | `MC_Classify_stale.cfg` | violation | `ClassifyExact` | The second function sees the first function's members (finding 3). |
| driver_safety | `MC_Driver.cfg` | pass | `DTypeOK`, `DriverOutcome` | With assertions: main exits 0 exactly for an accepted command line whose first directory with both files has a working library, and it passes the converted address and the helpers of the same directory. |
| driver_cwd | `MC_Driver_cwd.cfg` | violation | `LibraryFromInstallation` | NDEBUG with realpath failing: the library is loaded from `./../lib` (finding 4). |
| driver_entry | `MC_Driver_entry.cfg` | violation | `EntryIsNumber` | `-e 0x` is accepted as 0 (finding 5). |
| helpers_reference | `MC_Helpers.cfg` | pass | `StartsWithIsPrefix`, `ContainsIsMembership`, `TransformIsMap` | For every string of up to three characters over two and every prefix, `startsWith` is `PrefixOf` (also when the prefix is longer, where `substr` clamps); for every sequence of up to three values, `contains` is membership; piping a range through each of the four transformers of two values and reading it by `*` or by `[]` gives the element-wise map. A container piped the same way is read from freed storage, which no property constrains. 1,718 states. |

Findings, with their traces:

1. `generatedcodebasicinfo.cpp:113`: once any call is found, no block's
   predecessors are expanded any more. In `MC_GetPCDiverge`, P has
   predecessors A (`newpc(4096,4)`) and B, and B's predecessor C holds
   `newpc(4100,2)`.
   * With the order [A, B], A's call is found and C is never scanned, so
     the result is `(4096, 4)`.
   * With the order [B, A], C is pushed before A's call is found, so the
     result is `{0, 0}`.

   spec.md 4.4 step 2 asks for `Unknown`.
2. `:87`: for a `newpc` call that is not the first instruction of its block,
   the scan starts at the instruction before it. The call therefore does not
   cover itself.
   * In the trace, the block is ⟨Other, m1⟩ and the query is on m1.
   * getPC scans the `Other`, enters the predecessors and aborts on the
     dispatcher assert.

   For a call that is first in its block, the code scans the call itself.
   spec.md 4.4 step 1 says the scan should move to the predecessors first,
   and the example of spec.md 8 says the call should cover itself. The code
   follows the example.
3. `:45`: the members are never reset between calls. On a module's second
   function:
   * a function without singleton blocks passes the final assert with
     pointers into the first function;
   * a well-formed second function trips `assert(Dispatcher == nullptr)`.
4. `main.cpp:75`: under NDEBUG, a failed `realpath` makes `dirname(NULL)`
   return ".", so the library comes from a directory relative to the
   working directory.
5. `main.cpp:240`: `sscanf("%lld")` accepts any argument with a decimal
   prefix. So `-e 0x400000` is accepted as 0, although the message says a
   non-number is rejected.

Three more disagreements are kept as hazards, and TLC shows them when
constants of `MC_Classify.cfg` are changed:

* `:70`: the "all singletons present" check is an `assert`. With
  `AssertsEnabled = FALSE` and `MDStates = {"ok"}`, a function without a
  Dispatcher block returns with that member null and `ClassifyExact` is
  violated; spec.md 7 and 8 say a missing singleton is fatal.

* `:39`: `getGlobalVariable` returning null is not checked. With
  `MDStates = {"nopcvar"}`, `ClassifyExact` is violated because `PC`
  stays null.
* `:60`: a duplicate jump-target address silently replaces the earlier
  block. With `DistinctTargets = FALSE` and `MaxBlocks = 5`,
  `ClassifyExact` is violated. spec.md 8 promises each jump target is found
  under its address, but does not say who must reject a duplicate.

Each property of a passing run has a mutant in `PROJECT.json`: an operator
defined just before the one it replaces, modelling a plausible slip in that
line of code. TLC finds the property violated once the mutant is in place.
The mutants are:

* scanning from one past the end of a block;
* not marking a pushed block visited;
* the scan start of spec.md 4.4 step 1;
* continuing to expand after a call is found;
* no `break` after the AnyPC case;
* dropping the duplicate assert;
* the pass manager running one function too far;
* no cast to `size_t`;
* taking the last matching directory;
* `startsWith` with its arguments swapped;
* `std::find` stopping one element early;
* `operator[]` ignoring its offset.

## Bounds

* **getPC.** Three blocks and two instructions per block give every
  interesting shape:
  * a cycle through the start block;
  * a predecessor that is empty, visited or the dispatcher;
  * two calls in one block, or in two blocks;
  * a call in the start block before or after the point.

  Five blocks are needed for divergent paths that merge, which is why the
  diverge run has its own fixed function. Two marker calls are enough to
  tell apart "one call", "two calls" and "the same call twice".
  The NDEBUG run declares the two blocks other than the dispatcher
  symmetric (`NonDispatcherSymmetry`): no definition names one of them or
  chooses among blocks (the only CHOOSE is over indices), so swapping them
  maps behaviours to behaviours and leaves `ResultCorrect` unchanged. This
  halves the run.
* **runOnFunction.** Four blocks let a function hold the three singletons
  plus a duplicate, or a jump target. The dup run needs five blocks, for
  two jump targets beside the three singletons. Two functions are enough to
  show state carried across calls.
* **main.** A 4-bit `long long` makes `9`, `19` and `-9` overflow, and `-1`
  wrap.
  * Two or three characters reach prefixes, signs, white space and EOF.
  * Every directory content is enumerated for up to three search
    directories.
* **Helpers.** Strings and sequences of up to three elements over two
  values reach the empty string, a prefix longer than the string, a value
  at the last position and a value absent; two values admit four
  transformers, the constant ones and the identity among them, and every
  sub-range of the input is piped.

## Fairness

Each specification of a component with steps (getPC, runOnFunction, main)
has weak fairness on its whole next-state relation; `Helpers` makes one
call, checks only invariants and has none. The code is sequential, with no waiting and no other actor, so a step that is
enabled is taken. Each model ends in an explicit terminal stutter step
(`Terminated`, `Halted`, `Stopped`, `Returned`). Deadlock checking is left on, so a
state where the code could not go on would be reported.

## Proofs (`GetPC_proofs.tla`, `Classify_proofs.tla`, `Driver_proofs.tla`, `Helpers_proofs.tla`, checked by `tlapm`)

### getPC

The constants are assumed to satisfy these named assumptions, and nothing
more:

* `BlocksAssumption`: the set of blocks is finite and not empty;
* `DispatcherAssumption`: the dispatcher is a block;
* `MarkersAssumption`: `Other` is not a marker, and the marker arguments
  are naturals;
* `MaxLenAssumption`: `MaxLen` is a natural;
* the assumptions on `AssertsEnabled`, `AnyPoint` and `NoCall`.

**`TypeCorrect`: `Spec => []TypeOK`.** `TypeOK` alone is not inductive.
`Seed` needs the query point to lie inside its block, so the inductive
invariant is `TypeInv == TypeOK /\ TheInstruction \in QueryPoints(...)`.
The step proof has one case per action. It rests on three lemmas:

* `BodiesAreSeqs`;
* `LastNewPCType`: the scan returns 0 or the index of a marker at or below
  its start;
* `OrderingsAreSeqs`.

**`WorklistBounded`: `Spec => []WorklistBound`.** The bound is not
inductive either. The invariant `WorklistInv` says that either nothing has
been visited yet and the worklist holds at most the seed cursor (and is
empty while predecessors are pushed), or the cursors are for pairwise
distinct visited blocks (`DistinctIn`). The start block is not put in
`Visited`, so the first disjunct is needed for the seed. TLC checked the
invariant before it was proved. The proof rests on these lemmas:

* `TailDistinct` and `AppendDistinct`: a pop, and a push of an unvisited
  block, keep the cursors distinct;
* `DistinctBound`: distinct blocks give an injection `1..Len -> Blocks`,
  bounded by `FS_Injection`;
* `IntervalCard`.

### runOnFunction

The assumptions are `ClassifyAssumption` (the bounds are naturals, at
least one function, the metadata shapes and delay values from their sets)
and `ClassifyNullAssumption` (nullptr is no block reference, the PC global
is not null).

**`ClassifyTypeCorrect`: `CSpec => []CTypeOK`.** `CTypeOK` is inductive.
The step proof has one case per action. It rests on `FunctionsAreSeqs` (a
function is a sequence of at most `MaxBlocks` blocks) and `BlockKindFacts`.

**`MembersAlwaysSound`: `CSpec => []MembersSound`.** This holds for every
build and every number of functions, so also where TLC finds the members
stale. The inductive invariant is `SoundInv == CTypeOK /\ MembersSound`.
A member is only ever set to the block being visited, whose role the
switch has just read, and `fn` only grows, so `slot[r][1] <= fn` is kept.

**`ClassifyExactOneFunction` and `FatalOnlyOnBreachOneFunction`.** These
are `CSpec => []ClassifyExact` and `CSpec => []FatalOnlyOnBreach` under
the hypothesis `OneFunctionWithAsserts`:

* a build with assertions;
* one function (`NumFuncs = 1`; with two, `classify_stale` shows the
  property fails);
* metadata that names an existing PC global;
* distinct jump-target addresses (the two hazards at `:39` and `:60`).

The inductive invariant `ExactInv` says that, while the loop is at block
`i`, each singleton member holds exactly the blocks of its role before `i`
(`SeenIn(Funcs, fn, i, r) = Held(slot[r])`, where `Held(NoBlock) = {}`),
and `JumpTargets` likewise (`TargetsIn`). It also says that `PC` and the
delay size are those of the metadata, that on return every member is set,
and that `FatalOnlyOnBreach` holds. At `i = Len + 1`, `SeenIn` is
`RoleBlocks`, which gives `ClassifyExact`. An assert fires when a second
block of a role is met (then `Cardinality(RoleBlocks) >= 2`, lemma
`TwoElements`) or when a member is still null at the end (then the role
has no block). Finiteness of the sets of positions comes from an
injection into `1..MaxBlocks` (`RefsFinite`).

**`ClassifyRefinesContract`.** Under `OneFunctionWithAsserts`, `CSpec =>
Contract!AInit /\ [][Contract!Classified]_Contract!avars`. This is the
safety part of `ClassifyImplementsContract`, under the mapping
`outcome <- ContractOutcome` (`<<"running">>` while `pc` is `load` or
`visit`, then `<<"fatal">>`, or `<<"returned", members>>`). It uses the
invariant `CInv == ExactInv /\ MDOk /\ ClassifyExact /\ FatalOnlyOnBreach`:

* `MDOk` says that, with assertions and no `nopcvar` shape, the loop is
  entered only on the `ok` metadata shape;
* `ClassifyExact` and `FatalOnlyOnBreach` follow from `ExactInv`.

TLC checked `CInv` on the `classify_safety` instance before it was proved.
The step lemma `StepRefinesContract` covers three cases:

* after the call ends, only `Halted` is enabled (one function, so no
  `NextFunction`), which gives a stutter;
* a step inside the loop leaves the mapped outcome at `running`, which also
  gives a stutter;
* the step that returns or aborts is `Classified`.

For a return, `ReturnAllowed` shows that the members are among the
contract's `Candidates` and `Describe` the function exactly. There is no
breach, since each role has the single block `{slot[r]}` (`FS_Singleton`)
and the metadata is `ok`. For an abort, `FatalOnlyOnBreach'` is the breach.
`SameData` equates the instance's data operators, its `Cardinality`
included, with the module's own.

### main

The assumptions are `DriverBuildAssumption` (the macros are Boolean) and
`DriverDirsAssumption`:

* `./../lib` is none of the other search directories;
* no search directory is the empty path.

**`DriverOutcomeHolds`: `DSpec => []DriverOutcome`.** This holds for every
build, command line, directory layout and library. The inductive invariant
`DriverInv` adds what each point of main has established:

* before `findQemu`, both globals are empty;
* after `parseArgs`, the command line is accepted and the entry address
  stored is `ExpectedEntry`;
* after `findQemu`, the globals hold `Paths[Pick]`, the first search path
  with both files, or are still empty when `Pick = 0`; and realpath
  succeeded unless the build has NDEBUG;
* at `generate`, the library is usable.

The lemmas are:

* `PathsForm`: `SearchPaths` has one to three entries, ends with the
  executable's directory and lists the macro directories before it;
* `FirstHasBoth`: `Pick` is 0 exactly when no path holds both files, and
  is otherwise a path that does. The CHOOSE of `FirstIndex` is shown to
  have a witness by cases on the first three positions;
* `InstallSearched`: with realpath working, every installation directory
  is searched;
* `UsableIsPick`: `UsableLibrary` is `loadPTCLibrary`'s test on `Paths[Pick]`.

The step proof has one lemma per action (`ParseStep`, `FindStep`,
`LoadStep`, `GenerateStep`, `StutterStep`), with one case per branch of
the code.

### Helpers

The only assumption is `HelpersAssumption` (`MaxLen` is a natural).

**`StartsWithCorrect` and `TransformCorrect`.** These are
`HSpec => []StartsWithIsPrefix` and `HSpec => []TransformIsMap`, for every
alphabet, value set and bound. The inductive invariant is
`HInv == call \in Calls /\ StartsWithIsPrefix /\ TransformIsMap`: the call
never changes, and a result is written only by the action of the call's
own operation. The lemmas are:

* `BoundedSeqsAreSeqs`: the bounded arguments are sequences;
* `CallArgs`: what the operation of a call tells of its arguments;
* `StartsWithPrefix`: `startsWith(s, p) = PrefixOf(p, s)`, by cases on
  which string is longer (`SubSeqProperties`, `SeqEqual`);
* the fact that `SubSeq(r, b, e - 1)` piped through `F` reads, both ways,
  as `F` applied to each element is proved in the `CallPipeRange` step
  itself.

`TransformIsMap` is about `operator|` on a `Range` only. `operator|` on a
container (lines 86-89) takes the container by value and returns a range
into that copy, which is destroyed when it returns. The model reads it as
a crash or as any values, and no property holds of that.

### What only TLC checks

* **Liveness and refinement.** `GetPCImplementsPCQuery` and
  `ClassifyImplementsContract` include `WF`, and ENABLED is out of the
  prover's reach. The safety part is proved for runOnFunction
  (`ClassifyRefinesContract`). For getPC it rests on `ResultCorrect`
  (below), so the whole refinement is only checked.
* **Facts over data.** `Reaching` is defined through the recursive
  `TransitiveClosure`, and what it computes cannot be proved by induction
  with the installed provers. So `ResultCorrect` is checked only on the
  instances above. For the same reason `DTypeOK` is not proved: the range
  of `Params.EntryPointAddress` rests on the value of the recursive
  function `DecimalValue`. `DriverOutcome` needs only that the stored
  address equals the conversion, whatever its value.
* **`ContainsIsMembership`.** `contains` rests on the recursive function
  of `std::find`. What it returns for every sequence needs induction over
  the positions, so the property is only checked, on every argument up to
  length three.
* **The exact classification of more than one function.** This is false
  (finding 3), as is `LibraryFromInstallation` under NDEBUG (finding 4).

## Not modelled

* **The architecture descriptor** (`revamb.h` 46-106) has no operation
  that changes state. The uninitialised `Type` of its default constructor
  and its non-owning `NoReturnSyscalls` would matter only to code that
  reads them, and that code is outside `src/`.
* **`GenericFunctor` and `notNull`** (`revamb.h` 109-115, 123-127) are
  not called anywhere in `src/`. The `function_traits` of
  `transformadapter.h` only computes a type.
* **External code.** argparse, BinaryFile, CodeGenerator, the LLVM pass
  manager and the libtinycode library are outside `src/`. Each is reduced
  to the result the code sees.
