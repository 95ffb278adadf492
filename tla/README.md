# Formal model of the CodeTracer wasm recorder

TLA+ specifications, TLC models and TLAPS proofs for this repository: the part
CodeTracer added to wazero (reading a boundary recording, re-executing a module
against it, cutting the result into slices, deriving snapshots and seeking with
them) and the part of wazero the replay rests on (validation, the two engines,
the register allocator, shared memories, the life cycle of instances).

## 1. The system

A browser records what crosses the boundary of a wasm module: exported calls with
their arguments and results, the imported calls made while they ran, and the
state the host supplied. The recorder replays the module against that recording.
It does so from the finished files (`Replay`) or while the browser is still
writing (`StreamingReplay`), and materialises a trace, snapshots, or a set of
slice containers.

| part | source | state | operations |
|---|---|---|---|
| crossing assembler | `internal/boundarylog/assembler.go` | crossings, stack of open ones, value run in flight, group ends | one per record kind, `finish` |
| host state | `hoststate.go` | initial memories and globals, mutations by crossing | fold a record, validate, reconcile with the sidecar |
| stream reader | `stream.go` | scanner, assembler, groups handed out, sticky error | `NextGroup`, `pump`, `drain`, `finishStream`, `followReader.Read` |
| replay drivers | `replay.go`, `stream_replay.go` | cursor, stashed error, deferred classification, counts | instantiate, drive a call, service an import, end |
| slice writer | `internal/wasmsnapshot/slice.go` | open slice, sealed slices, attached recorder, files | the hook, seal, `Finish` |
| snapshots | `snapshot.go`, `pagecas.go`, `container.go`, `streams.go`, `nsb1.go` | pages by hash in two tiers, index records, streams, the namespace tree | capture, insert, add, attach, load, materialise, restore |
| validation | `internal/wasm/func_validation.go` | value type stack, control stack | one rule per opcode |
| interpreter | `internal/engine/interpreter` | type stack, frames, labels; the stack of 64-bit slots | compile, lower, execute |
| compiler | `internal/engine/wazevo` | SSA blocks and values, frames, register states | lower, the passes, allocate, emit |
| shared memory | `internal/wasm/memory.go` | cells, length, waiters per address, two mutexes | atomic accesses, grow, wait, notify |
| runtime and store | `runtime.go`, `internal/wasm/store*.go`, `module_instance.go` | list of instances, name map, exit codes | instantiate, call, close, watch a context |
| containers, trace writer, command line, Stylus, DWARF, WASI | `internal/ctfs*`, `tracewriter`, `cmd/wazero`, ... | | section 5 |

How they interact: the producer appends to `trace.json`; `followReader` polls it;
the scanner cuts records out; the assembler turns records into crossings and call
groups; a driver executes one exported call per group, servicing the module's
imports from the crossings; at every quiescent point (before the first call and
after each one) it calls a hook; the slice writer and the snapshot sink are such
hooks. The guest is compiled by one of the engines after validation. A trace may
be recorded by one engine and sought with another, so the engines must agree.

What makes it hard: a producer that may stop at any byte while the reader races
it; a format of two vintages, told apart by a property of the whole document that
the streaming driver cannot know yet; host state arriving by two carriers; stubs
that cannot abort the guest and stash an error instead; multi-step writes to
directories that may fail, be repeated, or be shared between processes; five
tables of some five hundred instructions, written by hand in different files,
that must agree because the interpreter's stack checks nothing; threads that
share a memory; instances closed by several actors at once.

## 2. Modules

| module | models | extends |
|---|---|---|
| `Assembler` | `assembler.go`: each method as an operator on an assembler record; `hoststate.go`: folding, validation and reconciliation of host state | |
| `Reconstruction` | `reconstructCrossings`: the assembler fed any sequence of records | `Assembler` |
| `StreamReader` | `stream.go` composed with the assembler and a producer | `Assembler` |
| `Replay` | `replay.go` and `stream_replay.go` with any deterministic guest | `Assembler` |
| `SliceWriter` | `slice.go` with the replay that drives it and the directory | |
| `Namespace` | `nsb1.go`: bulk loading and walking of the B-tree | |
| `PageStore` | `pagecas.go`: tiers, regions, page records | `Namespace` |
| `SnapshotStreams` | `streams.go`: layout, globals, tables and index streams, their decoders | `PageStore` |
| `Snapshots` | `snapshot.go`, `container.go`: several processes that derive and seek | `SnapshotStreams` |
| `SnapshotArchive` | abstract: whole states by point, no pages, tiers or streams | |
| `Opcodes`, `Validation` | `instruction.go`, `func_validation.go`: every opcode without structured control, what it pops and pushes | |
| `Interpreter` | the interpreter's compiler and loop, opcode by opcode | `Opcodes` |
| `Frontend` | the lowering to SSA, side effects, what each machine can lower | `Opcodes` |
| `Instructions` | one body through all of these at once | the above |
| `ControlValidation`, `ControlInterpreter`, `ControlFrontend` | structured control in the validator, the interpreter, and the frontend with the SSA builder and its passes | |
| `ControlFlow` | one body read by all three, then run three ways | the above |
| `Numbers` | integers and floats at small widths, the reference semantics | |
| `InterpreterNumeric`, `BackendNumeric` | the arithmetic of the three executions | `Numbers` |
| `Numeric` | one instruction on every operand by every execution, and bounds checks | the above |
| `BlockLayout` | the passes over blocks: order, dominators, loops, critical edges | |
| `RegAlloc` | lowering of calls and arguments, liveness, allocation, merges, spills, and the run of the code that comes out | `BlockLayout` |
| `MemoryOps`, `Threads` | threads on a shared memory, in either engine | |
| `AtomicMemory` | abstract: operations that happen in one step | `MemoryOps` |
| `Runtime` | instances, calls, closes and watchers | |
| `MC*` | instances for TLC | |
| `AssemblerProofs`, `RecordingProofs`, `SliceWriterProofs`, `ReplayProofs`, `ReplayScriptProofs`, `RuntimeProofs`, `ThreadsAccessProofs`, `ThreadsProofs` | theorems, section 4 | |

Correspondence with the code, per module:

- **Assembler.** The record's fields are those of `assembler`; `failed` is the
  error return, after which the code never uses the value again. `push` is
  `Handled` (the switch) followed by `noteGroupBoundary`. The loop of
  `closeDanglingImports` becomes a truncation of the stack at the highest open
  crossing that does not dangle. Indices into `crossings` and `stack` are one
  more than in Go; `seq` and `depth` keep their Go values. Values are opaque;
  a variable name is what `parseBindingName` makes of it.
- **StreamReader.** `pc` locates the goroutine inside `NextGroup` and
  `followReader.Read`; the producer's `Write` and `Stop` interleave with every
  step of it, in particular between the read that finds nothing, the test of
  `done`, and the last read. Bytes become units: a record has two, so a file may
  end inside one, and in a document the second follows the first
  (`WellFormed`). A document may go on behind its closing bracket; `Drain` leaves
  the rest of that read unexamined, as `drain` does. `done` is closed only when the producer has stopped, which is
  the contract `FollowFile` states.
- **Replay.** The recording is chosen first, then how many of its groups the
  stream delivers and how it ends (cleanly, cut short, or in error). The guest
  chooses its steps, those of its start function included; `script` keeps them so that the second driver's guest,
  which is fed the same recorded results, repeats them: this is determinism, and
  nothing else is assumed of the module. Host-state records, mutations among
  them, may be read ahead of the group being driven (`ReadWith`), as `HostState`
  is a live pointer.
  `planImports` and the decoding of single values are taken to succeed; arities
  are compared as the code does.
- **SliceWriter.** One action per outcome of the hook and of `Finish`: open,
  list, seal and reopen, and the failure of each step, after which the replay is
  over (`replay.go` aborts on a hook error). A failed seal may leave no
  container, a partial one, or a complete one (a failing `OnSealed`).
  `os.WriteFile` of the manifest truncates it first, so a failed write may leave
  none. `RunAgain` starts the recorder again over the same directory.
- **Snapshots.** Each process replays an execution, captures at the points its
  options select, encodes page by page, and attaches the streams. `Insert` into
  the system cache is an exclusive create and then a write that may fail, so another
  process, or the same one after it died, meets the file in between; cache files
  may be removed at any time. A container may be altered before it is read, and
  every check of `Load` and the decoders is there. A page's content is a number;
  streams are sequences of cells, so offsets and lengths are real. Keys are
  truncated hashes and collide. A reference's identity is the interpreter's, where
  a function has one instance; the command line chooses it by default
  (`cmd/wazero/wazero.go:170`, section 6).
- **Opcodes to Instructions.** An instruction is a record; each table of the code
  (rule, signature, operation, stack effect, SSA lowering, side effect, machine
  case) is an operator on it. A slot of the interpreter's stack is abstracted to
  what is known of its upper half. Actions are the instructions of a body.
- **ControlValidation to ControlFlow.** The body is extended by one instruction
  per step; validator, interpreter compiler and frontend take it together. Once
  the last `end` is read, labels are resolved, the SSA passes run, and the three
  texts (the body itself, operations, blocks) are executed for every choice of
  the branch conditions. Constants are positions, so values tell where they come
  from. The frontend is run with and without a function listener: its calls before
  the body and in front of every return, and the trampoline block that a `br_if` to
  the function's end needs for one, are part of the blocks. A branch table is a
  list, possibly empty, and a default.
- **Numbers to Numeric.** Words of 4 and 8 bits stand for 32 and 64, floats have
  2 and 5 bits of precision and count quarters. An emitted sequence is an
  operator, its jumps the arms of a CASE; what a machine instruction does is
  external and stated first. Two-operand instructions on the wide type use the
  operands in `EdgeInts`; everything else is exhaustive.
- **BlockLayout, RegAlloc.** A text is a function in SSA; one action per phase of
  the compiler (passes, lowering, liveness, each block and each instruction of
  the allocation, each merge, each spill) and then the emitted code is run along
  every path, with registers holding the names of the values written to them.
  `misread` collects every use that reads another value than the one it names.
  Calls clobber what the convention says. One class of registers at a time.
- **Threads.** `pc` locates a thread between the lock operations, the read and
  the write of an atomic access, the comparison and the push of a waiter, and the
  two halves of `Grow` and its refresh. `owner` says of each thread whether
  it runs compiled code of the module that defines the memory; `view` is the length
  that code keeps, while an importing module's code and the interpreter read the
  memory's own. Which of lock, lock-prefixed instruction or
  compare-exchange loop an operation uses depends on the build.
- **Runtime.** A goroutine per instantiation, caller and closer, plus a watcher
  per call under `WithCloseOnContextDone`. The store's mutex is an action's
  atomicity only where the code holds it; setting the exit code, deleting from
  the store and releasing the resources are separate steps. A guest may loop
  forever and checks the exit code where compiled code does.

## 3. Runs

| run | instance | states | result |
|---|---|---|---|
| `Reconstruction` | every sequence of 5 records after the declarations; 2 exports, 2 imports, 3 host-state records | 165 k | holds |
| `StreamReader` | 11 documents, reads of 1 to 5 units, every stop | 34 k | holds |
| `Replay` | recordings of up to 2 calls with up to 2 imports, 3 host-state layouts, 5 ranges, every guest of up to 3 imports per call and 1 in its start function | 4.5 M | holds |
| `SliceWriter` | 6 calls, 2 runs, seal after 3 calls or 4 bytes, snapshot every 2nd point | 214 k | holds |
| `Snapshots` | 2 processes, 2 executions of 2 and 3 points, 3 page contents on 2 keys, 4 sets of options, trees of fanout 1 | 131 k | holds |
| `ControlFlow` | bodies of up to 9 instructions in 4 alphabets, with and without a listener, 9 choices of conditions | 301 k | holds |
| `Instructions` | every opcode on stacks of up to 3 values over 3 locals, 4 function types | 3.8 k | holds |
| `Numeric` | every operation, 4 executions, all operands of the small widths | 184 k | holds |
| `RegAlloc` | 838 functions, 3 registers, 3 targets | 101 k | holds |
| `Threads` | 3 threads, 9 operations, 3 builds of which one mixes both kinds of module, 2 pages | 52 k | holds |
| `Runtime` | 7 programs over 4 instances, 2 callers, 2 closers | 133 k | holds |
| `FullMemory` | `Numeric` with a memory of all addressable pages | | the default limit's documentation is refuted, section 6 |

What the properties say:

- `StructureSound`, `OneTopLevelExportPerGroup`, `GroupsFrozen`,
  `WitnessesAgree`: crossings, stack and groups describe one nesting whatever
  arrives; a group handed out is never changed by a later record although it
  shares the array; the marker witness of `LoadRecording` and that of
  `appendGroup` coincide.
- `StreamedIsPrefixOfBatch`, `EndClassified`: the groups streamed are those the
  finished document has, and each way the stream can end is reported for what it
  is. A clean end is claimed of the file up to its closing bracket only: what the
  same read brought behind it is not looked at (section 6, which also has the
  proviso about a mid-crossing end). `GroupsDelivered` and `EndReported` are the
  liveness side: what is in the file is handed out, and the end is reported.
- `AcceptsExactlyTheRecorded`: a whole replay is accepted only if the guest did
  what was recorded, and refused only once the guest has done something else: as
  long as what it did is how the recording begins (`FollowsTheRecording`, on
  prefixes, since a refused guest does not run on), nothing calls it diverged. Both
  sides are stated on the guest's steps, independently of the cursor.
  `DriversAgree`: same verdict, counts, points and host state from both drivers.
  Both are about modules whose start function calls no import (`StartIsSilent`, a
  premise and not a bound: the run has the others as well).
  `ReportsSound`: what partial, truncated and refused replays report.
  `DivergenceReported`: stubs stash a divergence and the guest runs on, also
  through the start function, after which nobody looks; still at most one exported
  call returns after it, and the replay then ends with that divergence and no
  further quiescent point.
- `SlicesTile`, `CallsInTheirSlice`, `SlicesFollowPolicy`, `ManifestComplete`,
  `SealedFrozen`: the partition of the recording, over failures and reruns.
- `SeeksAreFaithful`: the whole pipeline from `Capture` to `Restore` implements
  `SnapshotArchive`, so a seek never answers with another state than that of the
  nearest selected point. `SeeksSucceed`: it refuses only if the container was
  altered, or a cache file removed under a container that relied on the cache.
  `PagesReachable`: every page is found under its key, collisions included.
- `EnginesAgree`, `LabelsResolve`, `BuilderNeverPanics`,
  `StacksFollowValidation`: control flow through both engines. With a listener the
  compiled function tells it once that it begins and once, with the values it
  returns, that it ends, on whichever path it returns.
- `AcceptedCodeCompiles`, `StaticStacksAgree`, `SlotsMatchTypes`,
  `TrapsSurviveOptimisation`: the tables of instructions agree, and of what an
  instruction that may trap is lowered to, the exit or the trapping operation
  itself is never removed as dead.
- `EnginesCompute`, `AccessesChecked`: the arithmetic and the bounds checks.
- `UsesReadTheirValues`, `WrittenRegistersSaved`, `ArgumentsMoveTogether`,
  `DominatorTreeExact`: the emitted code computes with the right values, whatever
  was spilled, reloaded or exchanged on its edges.
- `ImplementsAtomicMemory`: the threads' operations refine `AtomicMemory`, where
  each takes effect in one step; the mapping places a wait at its comparison. A
  growth is the one operation with two: the new length shows to some threads when
  the memory has it and to all of them by the time `memory.grow` returns, and only
  one growth is under way at a time (`seen` and `Growing` of the abstract memory).
  `OperationsReturn`: all
  but an untimed wait nobody notifies, and a compare-exchange loop that others
  keep turning, return.
- `RegistryConsistent`, `CloseIsFinal`, `ExitReported`,
  `CancelledCallsReturn`: list and names, close of the runtime, the first exit
  code wins, and no call outlives its context for good.

**Bounds.** Five records suffice for an export with an import inside, a callback
or an interrupted value run, and for two groups, since the declarations are made
before the first record (the producer declares a name once, before its first use;
`MCNext` keeps to that). `MaxChunk = 5` lets one read complete two groups. Two
calls with up to two crossings each, and a guest that makes up to three, give too
few, too many, reordered and changed imports, and a marker that only the second
group carries. Six calls with a policy of three give two full slices, one cut by
bytes, and a last one that is empty or short. Two processes are enough to meet a
cache file in every state of its creation; a fanout of one makes a tree with an
inner node out of pages on two keys, and a chain out of those that share one. Nine instructions nest two constructs with a branch
between them and code after it. Three registers, two of them arguments, are fewer
than any of the pressing bodies needs; all graphs of four blocks include a loop
with two exits and a join after a call. Widths of 4 and 8 bits keep what the
conversions depend on: floats that are not exact in the integer type, thresholds
that are not representable, fractions on both sides of zero. Three threads are a
waiter, a notifier and one that times out or grows.

**What the runs leave out.** A start function calls one import at the most in
`Replay` (`StartImports = 1`). Imports outside of any exported call appear only
before the first call; the browser does not record them (`stream_replay.go:346`).
The recordings of the Replay run have host-state layouts in which the carriers
agree (section 6). `Callees` in `Instructions` leaves out functions called by
reflection (section 6). The branch that refuses a waiter when there are too many
is not reached with three threads.

**Deadlock** is checked in the StreamReader run, where the caller may always call
`NextGroup` again, and in Instructions, where a body can always be extended. The
other systems really end.

**Fairness.** `StreamReader`: `WF(Reader)`; the reading goroutine is a plain loop
with a sleep and no lock, so the scheduler runs it. Nothing is assumed of the
producer, which may never stop or never write; failing reads may happen and need
not. `Threads`: strong fairness of each thread's own steps; goroutines are
scheduled, timers fire, and Go's mutexes hand over to a goroutine that has waited
for a millisecond, which is what makes acquiring a lock strongly fair. Nobody has
to call again. `Runtime`: weak fairness of the steps the scheduler takes on
behalf of goroutines; contexts need not end and guests need not return.

## 4. Proofs

`AssemblerProofs` and the first part of `RecordingProofs`, about `Reconstruction`
(for every set of exports, imports, values and records, any tuple length and any
number of records; assumptions `AssemblerAssumption`, `ReconstructionAssumption`):

- `TypeCorrect`, `StructureHolds`, `WitnessesAlwaysAgree`, `OneTopLevelExport`,
  `GroupsStayFrozen`.
- The inductive invariant is `TypeOK /\ StructureSound /\ WitnessesAgree`.
  `OneTopLevelExportPerGroup` is not inductive: it needs that a top-level export
  of the unfinished group is the bottom of the stack (`OpenGroupTop`), hence that
  a second one cannot be opened before the stack empties, and that two
  top-level exports are separated by a group end (`TopsSeparated`). Frozen groups
  follow from `StackNested`: every open crossing lies beyond `groupStart`, and
  only open crossings are changed.
- The argument goes operator by operator: truncating the stack, filling in the
  top, opening, appending each preserve the structure, then `closeRun`, then
  each record kind, then `noteGroupBoundary`. These facts about single operators
  are in the first module; the second has the invariants and the theorems of both
  specifications that feed an assembler, `Reconstruction` and `StreamReader`.
  (Both are extended there, so `Reconstruction` has names of its own for its
  variable, `rebuilt`, and its `ReconstructionSpec`.)

`SliceWriterProofs` (for every policy, density, payload sizes, number of calls
and runs; assumption `SliceAssumption`):

- `TypeCorrect`, `SlicesAlwaysTile`, `SlicesAlwaysFollowPolicy`,
  `ManifestAlwaysComplete`, `CallsAlwaysInTheirSlice`, `SealedStaysFrozen`.
- The inductive invariant adds to the types: the sealed slices partition
  `0..SealedEnd` (`Partition`); where the replay, the open slice and the recorder
  stand relative to each other (`Phase`); which containers this run has completed
  (`DiskOK`); what a manifest of this run says (`ManifestOK`); who recorded which
  call (`CallsOK`). `SlicesTile` alone is not inductive, since sealing needs that
  the replay has moved past the base of the open slice.
- `SlicesAlwaysTile` confirms the remark at `checkTiling` that the writer cannot
  produce a violation. It rests on the replay ending at a hook error: `seal`
  forgets the open slice before it writes it.

`ThreadsAccessProofs` and `ThreadsProofs` (for every number of threads and
operations, every word width, memory size and waiter limit, both engines;
assumptions `ThreadsAssumption`, `MemoryAssumption`, and `PowerAssumption`, the
fact that a power of two is positive, which the provers do not know):

- `ThreadsInvariant`, and `ThreadsImplementAtomicMemory`: the step-by-step
  threads implement `AtomicMemory`, the refinement of the `Threads` run.
- The mapping: `Length(t)` is the length the accesses of the code `t` runs are
  checked against, the defining module's copy or the memory's own;
  `Linearised(t)` is what the caller of `t` would be told if its operation is
  past its point of effect; `Queue(a)` is the list of waiters of `a` with a
  thread that has compared and not yet pushed itself.
- The inductive invariant: who holds `Mux` and each list's mutex, at which steps
  (`MutexInv`); what an operation has checked or read and still may rely on
  (`Place`: the cell read under the mutex is unchanged, the address is in bounds
  although the memory has grown); the length the defining module's code keeps lags
  behind only inside a growth, whose thread holds `Mux` (`ViewInv`), so that all
  threads agree on the length when it returns; a list holds threads that wait on its address,
  once each, and nobody already notified (`QueueInv`). The last is why a timeout
  that removes its element removes no one else.
- One lemma per action shows both `IInv'` and `Simulated`: the step is a step of
  the abstract memory or changes nothing it sees. The accesses are in the first
  module, waiting and notifying and the conclusion in the second. That the
  bitwise operations stay within a word is an induction over the bits.

`RuntimeProofs` (for every finite set of instances and names, any callers, closers
and embedding programs; assumption `RuntimeAssumption`):

- `RuntimeInvariant`, `RegistryAlwaysConsistent`, `CloseAlwaysFinal`,
  `ExitAlwaysReported`.
- The inductive invariant: where each goroutine is and on which instance
  (`ProcInv`); one sweep at the most, under the mutex (`MuxInv`); there are `n`
  and `q` such that the store's list is `q[1], ..., q[n]`, doubly linked without
  repetition, holding every registered instance still open, the names leading
  into it, and everything a sweep has passed closed (`RegistryInv`); once the
  store has closed the name map has no capacity, which is why a late
  `deleteModule` does not allocate it again; what a closed instance still owns
  has a releaser on its way (`ResourceInv`).
- `RegistryConsistent` follows the `next` pointers, so that `q` lists what
  `Chain` reaches in `Cardinality(Modules)` steps: an injection into a finite
  set, and an induction over the steps. The step lemmas need of finite sets only
  that the names in use can be counted (`Counted`); the set library is instantiated
  only after them, since the provers are several times faster without it.

The second part of `RecordingProofs`, about `StreamReader` (for every set of
documents, any size of read and any timing of the producer; assumptions `StreamAssumption`, which asks that in a
document the end of a record follows its beginning and no record follows the
closing bracket, and `AssemblerAssumption`):

- `Inductive`, `StreamedIsPrefix` (`StreamedIsPrefixOfBatch`) and
  `EndIsClassified` (`EndClassified`).
- What `LoadRecording` holds after `n` units is a recursive function of `n`
  (`BatchOf`). `BatchUnfolds` shows that it satisfies its recursion; that it is
  always sound (`BatchGood`), changes no group it has delimited (`BatchFrozen`)
  and does not move past the closing bracket (`BatchClosed`) is shown by a least
  counterexample each, from the facts about one record in
  `AssemblerProofs`.
- The inductive invariant: the chunk is the part of the document between what was
  examined and what was read (`ChunkInv`); where the goroutine can be (`FlowInv`),
  in particular that an end of input means that the producer has stopped and
  nothing is left; assembler and scanner are those of `LoadRecording` after the
  units examined, and past an orderly end those it would end with (`AsmInv`); once
  the scanner has met the closing bracket that is the last unit examined
  (`ScanInv`): whatever the same read held behind it stays in the chunk, and the
  next unit that is looked at is refused; what
  was handed out are the first groups of the whole recording (`GotInv`); and what
  a report means (`EndInv`), for the latest one and for the one that is kept for
  later calls, since `result` alone forgets it.
- The link between `finish` and a classification is `FinishOutcome` of
  `AssemblerProofs`: at an orderly end no export is open, and a refusal means
  an open export or a run of values that no open crossing takes.

`ReplayProofs` (for every set of recordings, streams, ranges and guests;
assumption `ReplayAssumption`, which asks of a recording what
`StructureHolds` shows the assembler to give: crossings numbered in order, and
groups that partition them, none with two top-level exports):

- `ReplayInvariant`, `ReplaysReportSound`, `DivergenceIsReported`.
- The inductive invariant says what the counters of a replayer mean at every
  point of a call (`Tallied`, `Placed`: the points reported are one more than the
  calls made, except inside a call), and how much of the recording the streaming
  driver has been shown (`Informed`), so that the witness it keeps is the truth
  about what it has seen, and an import let through unchecked has left a deferred
  classification that the end of the stream decides.
- `DivergenceIsReported` holds whatever the start function does. It needs of the
  invariant that a divergence is stashed before the first point, in the start
  function, or inside an exported call, and that a call is never made with one
  stashed unless no point but the first was reported.

`ReplayScriptProofs` (as above):

- `AcceptedIsRecorded`: `AcceptsOnlyTheRecorded`, the half of
  `AcceptsExactlyTheRecorded` that says that nothing else is let through. What
  either driver accepts of a whole recording is the recorded execution, call by
  call, import by import, with its arguments and results. `StartIsSilent` is its
  premise, for any `StartImports`.
- The invariant `SInv`, inductive together with the one of `ReplayProofs`, ties
  the script of the guest to the cursor (`Followed`): every call but the last was
  made and ended as recorded; of the running one, the steps the recording can
  have kept are the import crossings between its export and the cursor; and what
  the cursor has passed is well formed (`Proper`). It is claimed only as long as
  no divergence is stashed and nothing was let through that the markers of the
  whole recording would have named, which is what the two ends check.
- The place of the cursor and the number of the running call are tied by the
  number of top-level exports up to it (`Count`), which the drivers never compute:
  the batch driver goes by export number, the streaming driver by groups.
- A start function may stash a divergence outside of every call, which the
  invariant would have to account for at each later step. `QuietStart` shows that
  only one that called an import can have, and `Listed` that such a call stays in
  the script (both in `ReplayProofs`, whose invariant they rest on), so that the premise, true at the end, was true throughout.
- Two drivers share one script. The second repeats what the first has made of
  it and may add to calls that the first left open, so what the first accepted has
  to be shown to stay reproduced (`Grown`): a call that has ended is never
  extended.

Each inductive invariant is a conjunction the runs' properties follow from;
where TLC checks the property on the instance, the theorem gives it for every
value of the constants.

Only model-checked:

- liveness (`GroupsDelivered`, `EndReported`, `OperationsReturn`,
  `CancelledCallsReturn`), out of the proof system's reach;
- all of `ControlFlow`, `Instructions`, `Numeric`, `RegAlloc` and `Snapshots`,
  whose recursive operators or bit operations the provers cannot use;
- the other half of `AcceptsExactlyTheRecorded`, that nothing faithful is refused,
  and `DriversAgree`. Both say that a driver does not stop early, so that they
  need for every way to refuse a recording what it says about the script, and
  hold only of recordings with the host-state layouts of the run (section 6), which
  the proofs do not assume.

The library's induction theorems take an operator and cannot be used. Where a
proof needs an induction it takes the least number at which the claim fails, or a
set of numbers that contains 0 and is closed under successor; that covers the
recursive functions over the naturals (`BatchOf`, `Chain`, the bits of a word) and
not the recursive operators of the modules above.

## 5. Not modelled

- Byte-level decoding: JSON, wire values, LEB128 and the module format, the
  container's block map, DWARF. Pure functions of their input.
- Floating-point rounding beyond the conversions, minimum, maximum and
  comparisons; hashing; instruction encodings, prologues, relocations and entry
  stubs: far beyond a model checker's reach at their real widths.
- The trace writer and the appender of containers, which hand everything to a
  foreign library; the reading of source variables for a trace.
- The arithmetic folding of `ssa/pass.go`, and the elimination of repeated bounds
  checks beyond its conditions; stack growth and unwinding in the call engine;
  branch tables in `RegAlloc` (their edges are split when they are built).
- WASI, file systems, sockets and the compilation cache: translations of system
  calls, whose behaviour is the operating system's.
- Stylus host functions: one pass over a list of recorded events.
- Linking: an instantiation fails or succeeds as a whole.

## 6. Disagreements between code and documentation

Run `FullMemory`: `WithMemoryLimitPages` says of its default of 65536 pages that
it allows "4GB total memory per instance" (`config.go:55-57`). Compiled code loads
the length of a memory its module defines with a 32-bit load (`frontend/lower.go:3888`),
and at 65536 pages the length is 2^32: every access traps, while the interpreter
admits it. This is about memories that are not shared; the length of a shared one
is loaded with 64 bits.

Met while modelling, by a counterexample or by reading, and not kept as runs:

| where | what is said | what the code does |
|---|---|---|
| `stream.go:380` | groups are yielded "the moment each is complete" (`stream.go:13`) | a read that completes a group and brings a refused record loses the group |
| `stream.go:385` | bytes behind the bracket are refused: "carries %q after its JSON array closed" (`stream.go:217-221`) | those that came with the same read as the bracket are not examined: `next` returns at the bracket, `drain` stops, and the end is reported as clean |
| `stream.go:416` | mid-crossing means "an exported call that never returned" (`stream.go:59`) | values that belong to no crossing, while only a top-level import is open, are reported the same way |
| `replay.go:258` | "A divergence returns a *DivergenceError" (`replay.go:222`) | one stashed during the start function is not reported if no call is driven (`DivergenceReported` says when it is) |
| `stream_replay.go:155` | the drivers "differ in what they know, not in what they do" (`stream_replay.go:16`) | a start function that calls an import meets no crossing in the streaming driver, which has no group yet, and the first crossings in the batch driver |
| `wazevo/module_engine.go:292` | a reference not found "does not belong to this module" (`snapshot.go:173`) | the compiling engine makes a new instance of a local function per call of `FunctionInstanceReference`, so that none of the table's is found again; the interpreter, the default, has one |
| `replay.go:356` | "The per-crossing checks inside the range have all run" (`replay.go:359`) | the last call of a partial range or truncated stream may leave recorded imports unmade |
| `stream_replay.go:131` | "the two must agree" (`stream_replay.go:130`) | with a sidecar the comparison is made before the stream is read |
| `stream_replay.go:155` | "nothing about instantiation depends on what the stream will carry" (`stream_replay.go:153`) | imported globals do |
| `slice.go:391` | a consumer can tell a complete slice set from a truncated one (`slice.go:160`) | a failed second run leaves the first manifest over its own containers |
| `store_module_list.go:28` | a named module is "available for other modules to import by name" (`config.go`) | an instantiation refused because its name is taken releases the name of the instance that has it |
| `gofunc.go:132` | an i32 is encoded with `EncodeI32` (`api/wasm.go:58`) | a reflected function's negative int32 result is sign-extended to 64 bits, which the interpreter compares whole |
| `module_instance.go:146` | resources are closed once | `ensureResourcesClosed` may run more than once, also concurrently |

Behaviour the models show that no text denies: a watcher that passed its inner
select may close an instance between the success of its start section and its
registration, so that a closed instance stays registered until the store closes,
or close it after the last call, so that its resources are not released; a
notifier attached after registration may be missed by a runtime that closes;
`CloseNotify` is called under the store's mutex; the file system context is not
closed when `Store.instantiate` fails; waiters of a shared memory are not woken
when their module is closed; a timeout may win over a notification that counted
the waiter; between the store of the new length (`memory.go:275`) and the call of
`MemoryGrown` (`memory.go:280`) threads in importing modules may access the new
pages while those in the defining module still trap on them; an access that is both unaligned and out of bounds raises different
errors in the two engines; a snapshot taken after `table.grow` is refused by
`Restore`; `--snapshots` with `--seek-from` fails at `MarkBase(0)` after the trace
is written; `--seek-to` without `--seek-from` and `--cas-share-system` without
`--cas-system` have no effect; inlined pages are never promoted.

`DominatorTreeExact` holds for the graphs the frontend builds. On a graph whose
loop header is entered by a conditional branch, splitting that critical edge
would leave the stored tree behind; the frontend enters a header by one
unconditional branch only.

## 7. Plan

1. Proofs: `AcceptsExactlyTheRecorded` and `DriversAgree` of `Replay`.
2. An abstract replay (a recording is accepted or refused as a whole) and a run
   that both drivers implement it; `StreamReader` composed with the streaming
   driver in place of the delivered groups.
3. Initial memory relative to the start function, with a guest that carries data.
4. The producer's framing, as the tests describe it, composed with the assembler.
