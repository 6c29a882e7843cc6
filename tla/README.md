# A TLA+ model of exemu

exemu runs Windows programs on an ARM host: a CPU interpreter and a block
compiler execute the guest, and an OS layer written in Rust answers its library
and system calls. The whole guest runs on **one host thread**. What looks
concurrent to the guest (threads, waits, compiled and interpreted code, child
processes, windows) is interleaved by the emulator itself, at instruction
boundaries it chooses. So the hard part of the program is less a matter of data
races than of *orders*: which thread runs next and what its wait was promised,
what compiled code believes about memory that changed since, and on which
instruction an event falls. Two parts do meet threads of the host: the debugger's
front end and the audio callback.

This directory holds the specifications, the configurations that TLC checks on
small instances and the theorems that TLAPS proves for every instance. Paths
below are relative to `src/crates`.

## 1. The system

| Part | State it keeps | Operations | Talks to | What is hard | What makes it right |
|---|---|---|---|---|---|
| `app` run loop (`process/run.rs`) | steps, next time refresh, exception depth | one turn: budget, compiled chain, accounting, one interpreted step | jit, cpu, os, debugger | a chain retires up to 65,536 instructions between two looks at any counter | every counted event falls on the instruction it falls on without the compiler |
| `os` threads (`thread.rs`) | thread table, current thread, ticks of the slice, stacks | create, suspend, resume, terminate, exit, yield, preempt | kernel objects, memory | a thread is ended, suspended or unblocked by another one at any instruction | one thread runs, ended ones never again, no ready one starves |
| `os` kernel objects (`sync.rs`, parts of `fs.rs`, `server.rs`, `net.rs`) | handle table, names, object states | create, open, duplicate, close, signal, release, single and multiple waits in four dialects | threads (block, wake) | a wait is *repeated*, not resumed: what was true at the wake-up need not be at the retry | mutual exclusion, no signal lost or used twice, deadlock reported only when real |
| `jit` block cache (`engine.rs`, `rt.rs`, `compile.rs`) | blocks, lookup lines, link slots and epoch, code-page table, host-page table | run, block_at, validate, flush, unlink_all, helpers of compiled code | memory (counters), run loop, debugger (generation) | blocks branch into each other without returning to Rust; the bytes they were built from change | the guest sees what the interpreter would have done |
| `jit` code generation (`compile.rs`, `a64.rs`) | which flags are where, while it compiles | lower one instruction, settle, spill, exit | block cache | flags are computed only where somebody looks | registers and flags are the interpreter's wherever a block is left |
| `memory` | regions with rights, per-page code generations, a layout generation | read, write, map, protect, unmap, host spans | jit, cpu, os | three counters that three caches are validated against | a cache that checks its counter never uses what is gone |
| `cpu` interpreter | registers, mode | step | os (`intercept`, system calls), exception delivery | an instruction that faults half way is started again by the guest's handler; what instructions compute | it then does what it would have done at once; values are compared with a reference by `oracle` |
| `core` debug control, `app` `process/debug.rs` | armed addresses and words, their filters, a generation, requests | arm, disarm, request; stop, serve, detach | run loop, jit, memory; a front end on another host thread | changes arrive at any moment, also behind blocks, links and helpers chosen before | the guest never runs past an armed address; a stop falls on the step asked for |
| `core` unwinder, unwind data in `loader` | none | decode, look up, unwind one frame | exception dispatch, debugger | it is asked at any instruction, in the middle of a prologue or an epilogue | the caller is found as the callee would have left it |
| `os` `exc.rs` | dispatches under way | raise, search, unwind, collided unwind | guest handlers, run loop | guest code runs between two phases and may raise again | phases in order, each cleanup once |
| `os` virtual memory and sections (`vm.rs`, `section.rs`) | `vm_allocs`, section table, views | reserve, commit, protect, free, query; map, unmap | memory | two books of the same allocations | the books agree |
| `os` windows (`win32k.rs`, `win.rs`, `msg.rs`, `gdi.rs`) | window tree, seats, queues, callback frames, GDI slots | create, destroy, show, post, get, call the window procedure | guest code, host GUI | callbacks nest and destroy what their callers hold; GDI handles are reused | each call gets its own result, no click is lost, a slot has one owner |
| `os` child processes (`process.rs`, `app/spawn.rs`) | child table | create suspended, resume, terminate, query | a second emulator, run to its end inside one call | handles of the process and of its thread, closed in any order | an exit code is final and visible through both |
| `os` files (`fs.rs`) | handles, paths of directories, enumerations | kernel32 by path, NT by handle, two kinds of enumeration | the host | files are renamed, replaced and deleted under handles | what a create reports is what it did |
| `os` sockets (`net.rs`) | endpoints, parked connection, shutdown flags | create, bind, listen, connect, accept, receive, poll | the host, scheduler | every call is tried and later repeated; a poll changes what it looks at | arrival order; a poll's answer holds |
| `os` registry (`reg.rs`) | keys, values, handles with spellings | create, open, set, query, delete, enumerate, two families | prefix files | names match under any capitals, and keep the first | a map that ignores capitals |
| `os` audio (`audio.rs`), `audio` | streams; the one host queue | create, get and release a buffer, start, stop, reset, release | the host's callback thread | a queue drained and filled by two threads, and reset by a third party | the last frames are played, in order, once |
| `os` DLL loader (`dll.rs`, parts of `api.rs`) | images, names, references, callbacks under way | load, free, attach, thread attach, exit | app, guest `DllMain` | imports shared by several; an exit with images attached | attach leaves first, once; detach in the opposite order |
| `loader`, `app` loading, `gui`, `cli`, `oracle`, samples | none that lives, or the host's | parsing, set-up, host windows, tools | | | |

Calls go one way, `app` to `cpu`/`jit` to `os` to `memory`; the only ways back
are `Hooks::intercept` (the OS layer switches threads *before* an instruction),
frames of callbacks into the guest, and rewriting the program counter (a blocked
call is executed again).

`PROJECT.json` lists every part with its status, and under `hazards` what can go
wrong here that tests would hardly reach, each with the property that would
notice it, or the reason why none does, and what the property leaves uncovered.

## 2. The modules

```
KernelObjects <- Threads <- Scheduler  --implements-->  MutexPromise
                                ^ MCScheduler, SchedulerProofs
GuestMemory   <- JitCache              --implements-->  Machine
                    ^ MCJitCache, JitCacheProofs <- JitMachineProofs
LockStep      <- RunLoop               --implements-->  LockStep
                    ^ RunLoopProofs
DeferredFlags <- RunLoopProofs
Registry                               --implements-->  RegistryPromise
AddressSpace, Files, Registry <- ResourcesProofs
DebugControl, ApiCalls <- ProcessorProofs
Windows, GdiHandles, Painting <- DesktopProofs
Audio, Sockets, ChildProcesses, ExceptionDispatch, Dlls <- ServicesProofs
ApiTables <- ApiCalls
Windows   <- Painting
MCJitCache, DeferredFlags, Faults, DebugControl, ApiCalls  <- MCProcessor
Windows, GdiHandles, Painting                              <- MCDesktop
AddressSpace, ChildProcesses, Registry, ExceptionDispatch, RunLoop,
Audio, Sockets, Files, Unwinder, Dlls                      <- MCServices
```

Where a component has a promise simple enough to state alone, it is an abstract
specification, and the promise is a property of the detailed one. A definition
whose name ends in an underscore and words (`Valid_FirstPage`) is a plausible
mistake in the definition after it, kept to show that the properties would
notice it; nothing uses it. History variables (`heard`, `owed`, `ever`, ...)
record what the guest or the host was told, so that properties can compare it
with what the state says; no guard reads them, except that a few answers
are consumed before the next call.

### 2.1 The scheduler

* `KernelObjects`: the object states of `sync.rs` and when they are signaled,
  acquired and released, for one handle and for several.
* `Threads`: the thread table. `state`, `suspendCount`, `handle` are fields of
  `Thread`; `call` is the wait the saved program counter stands on, since
  `block_and_switch` leaves the counter on the call and a woken thread executes
  it again. `Preempt` is the switch that `intercept` makes before an
  instruction; every other action is one instruction that is not preempted.
  `Picks` is `pick_next`: the first runnable thread in a circle from the current.
* `Scheduler`: both together with the guest's operations. A wait has four
  outcomes (`WaitInvalid`, `WaitGranted`, `WaitBlocks`, `WaitAlone`) in each of
  the dialects of the kernel32 thunks, the NT calls, the wineserver select call
  and a socket call that would block.
* `MutexPromise`: what a guest may rely on, with no objects, handles or
  schedules: grants of a mutex exclude every other thread.

Abstractions: events and timers are one kind; process objects are latches like
thread objects; `PulseEvent` is a reset, as in the code; the handles of one wait
differ; a finite timeout never expires while the thread is blocked, because the
code keeps no deadline.

### 2.2 The block compiler

* `GuestMemory`: bytes, rights and the three counters, as operators on a record.
* `JitCache`: `Jit::run` and what compiled code does. A block *is* the sequence
  of instructions it was compiled from, so a stale block can be told from a
  fresh one. `Enter` and `Dispatch` are the Rust side; `NativePlain` ..
  `NativeFault` the compiled side, one instruction or exit at a time; `StepPlain`
  .. `StepSwitch` what happens between two calls. Lines, epoch and generation
  wrap at small constants, the buffer holds `Capacity` instructions and the page
  table may confuse pages (`PageBit`), so that reuse happens within a few steps.
* `Machine`: the interpreter, one instruction per step, decoded from memory as
  it is. It shares no definition with the cache.
* `DeferredFlags`: how a block keeps operands instead of flags. Each `Programs`
  sequence is compiled instruction by instruction (`defer_pays` scans ahead,
  `overwriter_settles` decides who is settled first, stores spill), executed
  beside the interpreter's flags, and left at its end, at a fault or at a store
  into code. Operands have 4 bits, a low byte is 2.

An instruction of `JitCache` is one address long and registers are not kept, so
branches and store addresses are chosen from small sets. Reads through the
host-page table are left out.

* `ApiTables`, `ApiCalls`: the other way in and out of native code, the thunks of
  `api.rs`. `ApiTables` is `classify` and `argc` as tables: how many words each
  handler takes off the stack and reads, and how many its caller pushed.
  `ApiCalls` is the stack of one thread, word by word, under calls of thunks,
  the functions that thunks call in the guest (`invoke_callbacks`, `_initterm`,
  dialogs, TLS callbacks, DllMain) and the drivers they return to
  (`cb_advance`, `initterm_advance`). What a call does for the guest is left out.

### 2.3 The run loop and the debugger

* `LockStep`: `run_borrowed` with the interpreter alone: slice, refresh of the
  shared time page, step cap, break at a step, exceptions and their nesting.
* `RunLoop`: the same loop with chains. `EnterChain` takes the minimum of all
  that may pass, `ChainInsn` is one compiled instruction, `Executed` and
  `LeavesOne` account for them in bulk and `StepOne` is the interpreter's turn.
  The refinement counts the instructions of an unfinished chain as if they had
  been run one by one.
* `DebugControl`: the front end changes the sets under a lock and publishes
  filter by filter (`mutate`, `StoresBreaks`, `StoresWatches`, `Publishes`); the
  runner looks without the lock (`HeadLooks`, `is_break`), compiles blocks that
  end before the next armed address (`Ends`), links them and runs them. A load
  or store of a watched word goes back to the interpreter (`Refuses`). `owed` is
  what was armed for good when the runner last looked.

Left out of `RunLoop`: the credit a sleep adds to the virtual clock and the wall
clock. Left out of `DebugControl`: watch kinds and snapshots.

### 2.4 Memory, children, exceptions

* `AddressSpace`: `vm_allocs` beside the mapped regions, and what changes them:
  VirtualAlloc, Free, Protect, Query and their NT calls, section views, and the
  stacks and TEBs of threads, with refusals of the host and WoW64's low memory.
* `ChildProcesses`: instances of the emulator as a stack, since a resume runs the
  child to its end inside the call; handles, duplicates and what they report.
* `ExceptionDispatch`: search and unwind over a stack of frames, with handlers
  that decline, catch, clean up and resume the unwind.
* `Unwinder`: unwind data decoded slot by slot, epilogues simulated, one frame
  undone at a time. The guest beside it executes the code that the data
  describes (calls, pushes, saves, frame registers, chained fragments, tail
  calls, interrupts), and `callers` is what each caller will really find.
* `Faults`: instructions that fault and are started again. Each instruction is
  the sequence of its loads, stores and writes to registers and flags, in the
  order of its arm in `exec.rs`, `sse.rs`, `vex.rs`, `mmx.rs` or `x87.rs`;
  `interpret` runs it to its end or to the first access that a region does not
  allow. There `try_deliver` writes the registers that a CONTEXT carries below
  the stack pointer and enters the guest's dispatcher. Dispatcher and handler are
  external: they use volatile registers, may fault themselves, make a region
  accessible, and continue, raise the exception again, or give up. Values are
  terms over the instruction's operands, so two are equal only if they are
  whatever the instruction computes.

### 2.5 Windows

* `Windows`: window tree, showing, moving, destroying, capture, focus and
  activation; queues; host input with hit tests; retrievals; dialogs nobody
  answers; and the frames through which a call runs window procedures. A window
  procedure is any sequence of the guest's calls.
* `Painting` (over `Windows`): device contexts on windows and on bitmaps, the
  surfaces of top-level windows and what the host shows of them, while windows
  move and go. A pixel is who painted it last; one axis stands for both.
* `GdiHandles`: slots, the stack of free ones and the list of objects. A handle
  has no generation, so a stale one denotes its slot's next owner.

### 2.6 Services

* `RegistryPromise`, `Registry`: a map that ignores capitals, and the code that
  canonicalises every path against the spellings in the hive.
* `Files`: the host's tree as a function from paths, handles bound to files, both
  enumerations; `created` is what NtCreateFile was asked and what it answered.
* `Sockets`: endpoints over host connections numbered by arrival; a poll parks a
  connection in `pending`.
* `Audio`: streams over one host queue; `Refill` is the host's callback.
* `Dlls`: images, `load_plugin` through the imports, callbacks to `DllMain` one
  at a time (`invoke_callbacks`, `cb_advance`), and the exit. `load_plugin` is a
  recursive function of how deep loads may still nest, which is as deep as images
  still fit the arena: every nested load maps one.

## 3. What is checked

| Run | Instance | What it shows |
|---|---|---|
| `nt` | 3 threads, 4 handles, NT waits, a mutex and both kinds of events | exclusion (`PromiseKept`); deadlock reports are true; no satisfied wait sleeps for ever |
| `multi` | 2 threads, 3 handles, a name, mutexes and semaphores, waits over two handles, sockets | ownership is what the guest was told (`MutexAsGranted`); signals are conserved |
| `thunks` | 3 threads, suspension, kernel32 and select waits on thread handles | well-formed state; joins wake; the ended stay ended; a woken thread finds its wait satisfied; no ready thread starves |
| `jit_cache` | `cache`: 2 pages of 1 instruction, 2 modes, a buffer of 3 instructions, epoch and generation wrap at 3; `flags`; `faults` | a block entered from Rust is fresh and of the right mode (`EntersFresh`); the budget is never passed; links, map and lines are right after any reuse; `LeftAsInterpreted`; `RestartIsExact` |
| `jit_smc` | `cache`: a data page and 2 code pages that share a bit, stores into both; `debug`; `calls` | refines `Machine`; direct stores go to live, non-executable bytes; `NeverRunsPast`; `StackIsKept` |
| `desktop` | 2 threads, 2 windows (one a dialog), nested procedures; or 4 objects in 4 GDI slots; or 3 nested windows, 2 contexts and 2 paints | no click is lost, a call gets its own result, dialogs close before a quit; a slot has one owner; drawing stays inside (`PaintStaysInside`) and is shown (`PaintIsShown`) |
| `services` | the ten components of `MCServices` | below |

`MCProcessor`, `MCDesktop` and `MCServices` put components that share no state
into one run: the variable `focus` is chosen at the start and only that component
moves, so the states are the sum and not the product of theirs. What the
components of `jit_cache`, `jit_smc` and `services` show:

| `focus` | Instance | Property |
|---|---|---|
| `faults` | every instruction of `Exact`, with its operands, stack and strings in two regions of any rights | `RestartIsExact`: a repaired and restarted instruction does what it would have done at once |
| `debug` | a loop of 4 instructions, 2 addresses and 1 word, 2 changes | `NeverRunsPast`: no step is taken past what was armed when the runner last looked |
| `calls` | every function of the tables but `Unbalanced`, 2 guest functions active, lists of 2 callbacks | `StackIsKept`: functions and thunks find their arguments, and every active function what it left on its stack |
| `memory` | 12 pages, 4 blocks, 1 image, sizes 1 and 2, WoW64 and not | `BooksAgree`: every allocation and every living thread's block is one mapped region, and nothing else is mapped; `QueryTiles`: a guest that walks its memory with VirtualQuery meets every region once, at its first page; `ProtectKeepsToRange`: no page outside a protected range loses rights |
| `flags` | every sequence of 3 from 14 instructions, every setter of flags before one that reads none, a comparison before each of 16 conditions | `LeftAsInterpreted`: flags and result at every exit are the interpreter's |
| `children` | 2 children per process, depth 1, 4 handles | `ExitIsTold` through every handle, closed or duplicated in between |
| `registry` | 2 keys, 2 values, names under two capitals, old handles | `RegistryKeepsPromise` (refinement of `RegistryPromise`) |
| `exceptions` | 5 frames, 2 raises | `CleanupsRun`: from where a function is left to where it continues, each cleanup runs once |
| `loop` | slice 4, refresh 3, chains to 5, cap 10, breaks at 2 and 7 | `RunsInStep` (refinement of `LockStep`); `StopsExactly` |
| `audio` | 2 streams, buffers of 2, 2 staged frames, 3 sent | `PlaysTheTail` |
| `sockets` | 2 sockets, 2 connections, 1 byte | `AcceptedInOrder`, `ReadyMeansNow` |
| `files` | a file, a directory with one name in it; 2 files, 1 handle | `CreateIsTrue` |
| `unwinder` | six functions with every kind of prologue, an interrupt at any instruction, with and without error code | `UnwindFindsCallers` |
| `dlls` | 3 DLLs, one imported by both others, 2 threads, 2 references | `NotifiedInOrder` |

Five runs show a disagreement between the code and what its documents say;
each checks one property and fails:

| Run | What the counterexample shows |
|---|---|
| `alone` | a wait that cannot block, for nobody else can run, reports success on a mutex another thread owns |
| `jit_host` | a write between two calls to a block that is only reached by a link: the chain executes the stale copy |
| `win_threads` | two threads inside window procedures: the frames are one stack, and a call returns the other call's result |
| `nested_raise` | a handler calls code that raises and catches an exception of its own: the dispatch that called the handler is gone |
| `inexact_faults` | a push whose store faults has moved the stack pointer already: repaired and continued, it pushes a second time, further down |

The passing runs state what the code does keep, and their constants name what
they leave to the guest's good behaviour:

* `HostStores`: in `jit_cache` and `jit_smc` the interpreter and the OS layer do
  not overwrite a block that only links reach (`jit_host` shows why), no
  compiled store straddles two pages and pages that were executable stay so.
* `TwiceEnded = FALSE`: no thread is terminated twice; otherwise the second
  termination unmaps what was allocated there since, and `BooksAgree` fails.
* `FreesViews = FALSE`: views go to UnmapViewOfSection.
* `SwitchesInCallbacks = FALSE` in `desktop`, see `win_threads`.
* `HandlersRaise = FALSE` in `services`, see `nested_raise`.
* `Forms <- Exact` in `jit_cache`: the sixteen instructions of `Inexact` are left
  to `inexact_faults`. Each of them fails on its own: push, pusha, pushf, call and
  push of memory move the stack pointer before the store; pop to memory and popa
  after the first access; adc and rcl change the carry they read; xadd and cmpxchg
  the register they store or compare; repeated stos, movs and lods move their
  pointers and keep the count; `int 3` in its two-byte form is passed twice.
* `UnsavedUse = {}`: handlers leave alone what no CONTEXT of the emulator
  carries: the x87 state, MXCSR and the upper halves of the ymm registers.
* `Unbalanced <- MCUnbalanced` in `jit_smc`: the functions whose number of
  arguments in `ApiTables` is not what their prototype says (`CallsAssumption`
  holds of every other function); each of them alone
  breaks `StackIsKept` in 32-bit code, where the thunk leaves the stack too high
  or too low. For all others the cleanup is exact, as the repository's
  `README.md` asks.
* `LoadsAfterFree = FALSE`: nothing is loaded after a free; otherwise a module
  that is loaded again keeps its place in the order of images, before the
  modules it now needs, and `NotifiedInOrder` fails. It fails too where two DLLs
  import each other, for then one is attached before the other; `MCImports` has
  no cycle.
* `StaleLoads = FALSE`: a relaxed load sees the newest store, as on x86. The
  generation and the filters of `core/src/debug.rs` are loaded `Relaxed`; with
  `StaleLoads = TRUE`, the order of a weak host, the runner may take the new
  generation and still the old filter, and `NeverRunsPast` fails.

**Bounds.** Constants commented as bounds cap counters in guards. Three threads
are enough for the current one, one to wake and one to be passed over; a slice
of 2 instructions has a first and a last; two links, two lines and two blocks
per buffer make every slot be used again; slice 4, refresh 3 and chains of 5 have
no common divisor, so every event meets every position in a chain; four blocks of
memory are an allocation, a view and the two or three of a thread; two windows
are one that covers the other; two staged frames overflow at the third; two
connections are one parked and one behind it; three DLLs are the least with an
import shared; a block of 2 and a budget of 3 make a chain link, run out
and come back within the loop of `debug`; three regions, two of them of any
rights, put each access of an instruction on either side of a fault, and two
nested handlers are one that is interrupted and one that interrupts.

**Deadlock** is checked in the scheduler and processor runs. The scheduler's end
states stutter explicitly (`Ended`), and so do the instances beside the compiler
(`Stops`), which end with their program; the compiler itself may not stop.
`desktop`, `services`, `nested_raise` and `inexact_faults` turn it off: there
guests exit, programs end, and counters of calls run out.

**Fairness.** `nt` and `thunks` assume `WF_vars(Next)` for `SatisfiedWakes` and `ReadyRuns`. The run loop executes the
next guest instruction as long as the process runs and nothing else competes for
the host thread, so weak fairness of the whole next-state relation is what the
code gives; which instruction comes next is the guest's choice and gets none.
`ReadyRuns` then rests on the slice alone. The services promise nothing in time:
a peer, a front end, the host's callback or a guest may stay away for ever.

## 4. What is proved

TLAPS checks these for every value of the constants that satisfies the named
assumptions:

| Theorem | Says | Argument |
|---|---|---|
| `SchedulerProofs!TypeCorrect` | `Spec => []TypeOK` | by action; `TypeOK` is inductive |
| `SchedulerProofs!WokenThreadsProceed` | `Spec => WokenIsSatisfied` | only `Activate` takes a blocked thread up, and `Picks` looks at its wait after the latch of an ending thread is set |
| `SchedulerProofs!EndedThreadsStayEnded` | where no thread ends through the NT call, `Spec => TerminatedIsFinal` | `CurrentRuns`: while the guest runs, the current thread is in state Running, so the steps that write its state write no ended thread's, and `Picks` finds none |
| `SchedulerProofs!JoinersWake` | `Spec => []JoinWakes` | `LatchesTold`: a thread's own handle denotes its latch or nothing, and once the thread has ended the latch is set |
| `SchedulerProofs!DeadlocksAreReal` | `Spec => []DeadlockIsReal` | `OnlyCurrentRuns`: nobody but the current thread is running, so `Picks` has looked at all that could |
| `SchedulerProofs!OwnersLetGo` | `Spec => OwnershipMovesThroughFree` (too plain an instance to be worth a run) | `UnusedMissing`: a handle not given out has no object, so an object created or duplicated overwrites no owner |
| `SchedulerProofs!MutexCorrect` | with NT waits only, `Spec => []MutexAsGranted` | `MutexInv`: the new handle an action uses is one nobody was told anything about (`FreshHandles`), so creating or duplicating cannot contradict a grant |
| `SchedulerProofs!PromiseCorrect` | with NT waits only, `Spec => PromiseKept` | each grant finds the mutex free or its own, by `MutexAsGranted`; releases, creations and duplicates map to `Release` and `Appear` |
| `SchedulerProofs!SignalsAreConserved` | with NT waits only, `Spec => []SignalsConserved` | what a release adds and a granted wait takes is added to and taken from both accounts; wait-all takes each of its objects once, for they differ |
| `JitCacheProofs!CacheIsCoherent` | `Spec => []CacheCoherent` | `CacheInv`, below |
| `JitCacheProofs!LinksAreLive` | `Spec => []LinksLive` | `LinksRight`: a link of the present epoch leads from the exit it was made for to the block at the address that exit computes |
| `JitCacheProofs!BudgetIsKept` | `Spec => []BudgetCeiling` | `InBlock`: what the block that runs has left fits the budget charged for it |
| `JitCacheProofs!HostPagesAreCurrent` | `Spec => []TlbIsCurrent` | `TlbInv`: an entry is of the layout it was filled under, and the layout changes with each change of pages |
| `JitCacheProofs!EntersAreFresh` | where nothing is remapped, `Spec => EntersFresh` | `FreshInv`: a block whose two page generations have not moved holds what memory holds |
| `JitMachineProofs!CompiledRunsAsInterpreted` | with `Sparing`, `Spec => RunsAsInterpreted` | one lemma per action: a compiled instruction is a step of `Machine`, everything else a stutter, by `MachineInv` |
| `JitMachineProofs!NativeCodeIsFresh` | with `Sparing`, `Spec => []NativeIsFresh` | `MachineInv`: every live link leads to a block that memory still holds, or the chain under way has hit compiled code and follows no link any more; the running block holds from the program counter on |
| `RunLoopProofs!LoopInvariant` | `CSpec => []Inv` | a chain keeps to its budget, and the budget ends before each event (`WithinBudget`); what a turn still owes the interpreter is allowed (`Outstanding`) |
| `RunLoopProofs!CompiledRunsInStep` | `CSpec => RunsInStep` | one lemma per action: it is a step of the twin or none; accounting is a stutter because the refinement counted its instructions already |
| `RunLoopProofs!CapIsExact` | `CSpec => []StopsExactly` | `CapInv`: neither what is counted nor what is outstanding passes the cap |
| `RunLoopProofs!FlagsAreInterpreted` | `FlagsSpec => []LeftAsInterpreted` | `FlagsInv`, below: what the kept operands derive to is the interpreter's flags after each instruction |
| `ResourcesProofs!BooksCorrect` | without `TwiceEnded`, `VmSpec => []BooksAgree` | strengthened by: regions are disjoint, so are the owners of memory, and threads own what they were given; each action then removes or adds the same block in both books |
| `ResourcesProofs!QueriesTile` | without `TwiceEnded`, `VmSpec => []QueryTiles` | pages and blocks of the two books are the same, so the answer at a page is its block or a hole that ends where the next block begins |
| `ResourcesProofs!RightsOutsideStay` | `VmSpec => ProtectKeepsToRange` | rights change by removal or insertion of whole regions (`FewerRegions`, `InsertedRegion`) except in protect, which splits at its two ends |
| `ProcessorProofs!NeverPastArmed` | without `StaleLoads`, for a program that is not empty, `DbgSpec => []NeverRunsPast` | `DebugInv`, below |
| `ResourcesProofs!NodesAreFiles` | `FsSpec => []FilesExist` | inductive; a rename moves nodes and makes none (`RenamedNodes`) |
| `ResourcesProofs!CreateTellsTheTruth` | `FsSpec => CreateIsTrue` | from `FilesExist`: each answer of NtCreateFile names one case of what stood at the path before the call |
| `ResourcesProofs!RegistryIsCorrect` | `RegSpec => RegistryKeepsPromise` | `RegInv`, below: the hive has one spelling for each path, so each call is the promise's call for the letters of what was asked |
| `ProcessorProofs!GuestStackIsKept` | `CallSpec => []StackIsKept` | `CallsInv`, below |
| `DesktopProofs!ClicksAreKept` | with `EveryProc`, `WinSpec => []ClicksLand` | `AllThere`: each number given out is the id of something that waits or is in the guest's hands; every step keeps the ids it finds (`StepKeeps`) |
| `DesktopProofs!HandlesReachCallers` | without `SwitchesInCallbacks`, `WinSpec => HandleReachesItsCaller` | `OwedRight`: only the running thread has calls under way, as many as there are frames, and each owes what its frame holds |
| `DesktopProofs!DialogsAreAsked` | `WinSpec => DialogsCloseFirst` | what a retrieval prepares is a retrieval (`PreparedRight`); where it finds nothing to hand out, `cancel_unattended_dialog` found no dialog that was not asked |
| `DesktopProofs!SlotsAreConserved` | `GdiSpec => []SlotsConserved` | the free stack has no slot twice and none in use or above the mark; a delete that finds its slot free pushes nothing |
| `DesktopProofs!PaintReachesItsWindow` | `PaintSpec => PaintStaysInside` | `PaintInv`, below: what a context's bounds leave of a surface is within what it was made with |
| `DesktopProofs!DrawingsAreShown` | `PaintSpec => []PaintIsShown` | the pixels of a context that was let go are those the host got, until somebody paints over them |
| `ServicesProofs!EndsAreTold` | `ProcSpec => []ExitIsTold` | `ProcInv`: the handles of different children differ, a handle a record still has is open, and the child an instance waits for has a record and has not ended |
| `ServicesProofs!ArrivalsInOrder` | `SktSpec => []AcceptedInOrder` | a connection belongs to one socket, as what it is connected to or in its line, and is newer than all it took before |
| `ServicesProofs!ReadinessHolds` | `SktSpec => []ReadyMeansNow` | only an open socket is promised something, a datagram's wire never ends, and what could make a promised call block (a receive, an accept, a closing) withdraws the promise |
| `ServicesProofs!TailIsPlayed` | `ASpec => []PlaysTheTail` | the queue holds frames that were released and is empty where the host has none |
| `ServicesProofs!CleanupsRunOnce` | without `HandlersRaise`, `ExcSpec => CleanupsRun` | `ExcInv`: the stack is functions with handlers above; between dispatches each function is settled, a search changes none, an unwind has cleaned what it passed and settled what lies below its target |
| `ServicesProofs!DispatchesAreKept` | without `HandlersRaise`, `ExcSpec => []DispatchIsKept` | `ExcInv`: the dispatch of the running handler is the innermost, and its handler is the top of the stack |
| `ServicesProofs!DllsAreToldInOrder` | where the imports nest (`ImportsNest`) and without `LoadsAfterFree`, `DllSpec => []NotifiedInOrder` | `DllInv`, below |

**The compiler's cache.** `CacheInv` is one invariant for four properties,
because none of them is inductive alone: that a lookup line is right depends on
the block map, that a link is right on the epoch counter and on the blocks that
are still in the buffer, and what runs now was reached through either. Its parts
are `BlocksRight` (each block has its exits, its slots and its pages marked),
`MapRight`, `LinesRight`, `LinksRight`, `InBlock` (the position in the running
block), `PendingRight` (the slot to be patched at the next dispatch belongs to
the exit that was just taken) and `TlbInv`. Freshness needs more than the code
guarantees on its own, so the assumptions of the last theorems name it: `Sparing`
says that no page is mapped again or loses its rights (`Remappable = {}`), that a
compiled store is one unit wide (a store that straddles two pages is noticed in
the first only) and that the interpreter and the OS layer write no executable
page; `jit_host` is the counterexample without it. `jit_smc` checks the same
refinement with a page that is freed, allocated again and made executable, which
`Sparing` excludes.

**The flags kept as operands.** `FlagsInv` says that while a block runs, the flags
that its registers derive to (`emit_flags`) are those the interpreter has, and
that flags are still outstanding only where the scan pays: the next instruction
is one that reads and writes no flag, or overwrites them all and settles nothing
first (`NextIsPlain`, `StillPays`). `AddFlags` and `SubFlags` show that the host's
overflow, which is that the exact signed result does not fit, is that of `alu.rs`,
which compares highest bits, at every width. One lemma per class of
instruction (`AluRight`, `IncDecRight`, `ImulRight`, `ShiftRight`, `OthersRight`)
says that its lowering, deferred or not, keeps what the interpreter would have
(`Kept`), and one per exit that the block leaves it. `two` is a recursive function
because no prover here knows a fact about `^`; that it doubles at each step is
proved by the least number at which no such function would exist (`DoublesExist`).
`DeferredFlagsAssumption` is about the widths, and says of the programs what
decoding gives: jumps store nothing and a condition has four bits.

**The debugger.** `DebugInv` follows an armed address from the lock it is stored
under to the instruction it stops: a filter that was published is never behind
what the runner owes (`FiltersRight`), blocks of the present generation have no
instruction at an address that was published (`CacheRight`), links lead to blocks that are
not empty (`BlocksRight`), and wherever the runner is about to execute, somebody
looked at that address since the sets were last published: the head of the loop,
or the end of the chain that declined it (`RunnerRight`). A chain whose helpers
pass watched words by was started when there were none. The invariant needs that
the runner takes no notice of a change in the middle of a chain, which is what
`is_break` and `debug_generation_check` promise and no more.

**The guest's stack.** `CallsInv` describes the whole stack by the functions that
are active (`AllKept`): each has its return address and its locals, and between
two of them lies the call of one thunk. Which lists of calls are open is said by
the frames, and a frame belongs to the function whose thunk pushed it, by the
level in its return address (`Level`): so each driver that a function returns to
belongs to one list, and the lists nest as the functions do (`Chained`,
`FramesRight`). What no function called (the callbacks before a thread's start,
and those before the process ends) has a level e of its own, 0 or where the
guest called exit. `AtRip` then says for each place the guest can be at how high
the stack is. `CallsAssumption` is what the tables of `api.rs` owe the argument:
for each import, the words a thunk takes are those its prototype has, and it
reads no more; TLC evaluates it over all the tables in `jit_smc`.

**Assumptions.** `DebugControlAssumption` says that jumps stay within the program
and that a filter has at least one bit for an address; `StaleLoads` is excluded
because TLC finds the address passed. `NtWaitsOnly` is an assumption because the run `alone` shows the
theorems false without it, and `TwiceEnded` because TLC finds the loss.
`EndedThreadsStayEnded` excludes the NT calls because `nt_terminate_thread` of the
last thread that can run returns to the guest: the thread ended itself and goes
on. `thunks` checks it where the theorem proves it, with kernel32 and select.

**The services.** The child processes of an instance are a function from the
handle they were created with, so that what a child's end changes can be said by
handle: `Ended` signals the open handles of its record, and the other records
have none of them, for the handles of one child are its key and the number after
it. A socket's line (what was polled in, then what the host holds back) is
ordered above the last connection taken; this survives each step because a new
connection has the next number and every step that moves one takes it from the
front. Both invariants are about every element of a sequence or function that
one step changes in one place.

**Exception dispatch.** `ExcInv` has three regimes. Between dispatches each
function is `Settled`: its cleanups have not run, or they ran for an unwind that
landed on it and that it has yet to resume, and nothing between it and that
unwind's target belongs to another. A search walks over settled functions whose
own unwinds are over (`Searching`); an unwind has cleaned all it passed
(`Unwinding`), and below a function it has yet to clean nothing was cleaned, down
to its target. `FirstStopIs` says where the walk stops, by a greatest element;
`PumpRight` takes it from there through the three ends of `pump_dispatch`: it
calls the handler, lands, or leaves the program. `HandlersRaise` is excluded
because `nested_raise` shows the dispatch lost.

**DLLs.** `DllInv` says that no image stands before one it is bound to and that
bases differ (`Tables`), and what the calls to DllMain have got to, in five
regimes: none (`Resting`), those of a load, to the images behind the one that is
called, in their order (`Attaching`), to a new thread (`Telling`), of an image let
go (`Freeing`), and of the exit, to some of the images before the one that is
called, backwards (`Leaving`). That a load appends images in such an order is
about any depth of imports: `LoadPluginGrows` says of `load_plugin` at every depth
that it only adds images, each behind what it is bound to (`Grown`), and one lemma
per part (`BegunRight`, `ImportsGrow`, `EnlistedRight`) carries that from a depth
to the next. It needs `ImportsNest`, a rank in which each DLL comes after what it
imports: then nothing that is imported is still loading itself, and has its image.
The imports of real DLLs may have cycles, of which the theorem says nothing.

**The desktop.** The windows are a function from their handles, and a newer
window has a higher one, so that the newest under a point is a greatest element
and the hit test needs no recursive operator. `WinInv` says that handles are
numbers up to `MaxWindow`, that everything that waits is a sequence, and that a
frame carries a hit test or none. The ids of what waits are a set (`Where`), and
one lemma per action says that the step loses none of them: `RetrievalKeeps` for
the actions that empty the channel and hand something out, `PushRight`,
`ReseatRight` and `PopRight` for those that change the stack of frames.
`ClicksAreKept` assumes `EveryProc`, a procedure for each class, because a
mouse message for a window without one is written into the caller's buffer and
overwritten (section 5); `HandlesReachCallers` assumes that no slice ends inside
a procedure, because `win_threads` shows what happens otherwise.

**Painting.** `PaintInv` says which surfaces there are (one for a window that
lies in no other, as wide as it is, and the bitmap), that every pixel was painted
by a context that was made or by an erased window, and that what a context's
bounds leave of its window's surface is within what a click could have reached
when it was made (`ContextRight`). Windows move and go meanwhile, but none is put
into another: so a window whose owner is still there had that owner before
(`OwnersRemain`), and what was drawn is still where the context was made for. What lies
above a window (its owner, its origin, its chain, its visible bounds) is
defined along parents, which are older: `FollowsExists` and `FollowsAgree` show
that such a function exists and that two agree, by the least number at which they
would not, and one lemma for each definition (`OwnerUp`, `OriginUp`, `ChainUp`,
`RectDown`) gives its equation, from which `RectIsSeen` derives that the visible
bounds are the pixels a click lands on. The theorems start from any `Tree` of
windows, each newer than what it lies in, as creation makes them; `desktop`
starts from one of three.

**The registry.** `RegInv` says that the keys of the hive fit each other (`Fits`:
two keys that agree in letters up to a component agree there in capitals too),
that no two names of one key's values differ in capitals only, that everything is
finite, and that an open handle's path is one the promise knows. A canonical path
fits the hive and has the letters it was given (`CanonicalIs`): it is found
component by component, and each is spelled as the keys below the last one spell
it. So it is the only key with those letters, or there is none (`KeyOnce`), and
what the code finds by spelling the promise finds by letters: whether a key is
there (`KeyThere`), its subkeys, its values and how many there are. One lemma per
operation then says which step of `RegistryPromise` the call is; the hive it
leaves fits again because what it adds is canonical.

**Least elements instead of induction.** The library's induction theorems cannot
be instantiated here. `QueriesTile` needs the end of a hole, the least page above
it that is mapped: `WFMin` of `WellFoundedInduction`, applied to the order of the
naturals, gives it (`LowestExists`). The registry's canonical path follows its
recursive definition as far as it goes because there is no least step at which it
would not (`UpToAll`, `StepsExist`), and so do the powers of two. `ProcessorProofs`
finds the same way where a block ends, `DesktopProofs` the newest window
(`LargestExists`), and `ServicesProofs` the highest frame that stops a walk
(`GreatestExists`). A fact that each number hands to the next holds up to any
bound for want of a least exception (`UpToLast`): so `load_plugin` is what its
definition says at every depth, and the images after every import.

**With TLC alone.** Liveness (`SatisfiedWakes`, `ReadyRuns`) is out of the
provers' reach. `UnwindFindsCallers` and `RestartIsExact` are about data built by
folds and recursive functions (frames, sequences of what was executed), where what
is computed for every input needs induction.

## 5. Behaviour met while modelling

Not covered by a property, for no document promises otherwise:

* Threads and objects: a thread that ends while it owns a mutex leaves it owned;
  a finite timeout does not expire while anybody else can run; a negative
  release count lowers a semaphore.
* Memory: VirtualAlloc at an address taken by something outside the table
  answers success and maps nothing; a protection that starts on an image page
  changes the regions behind it but not their table entries.
* Compiled code: a store that ends in a page with blocks but begins in one
  without leaves links alive, and a page made non-executable goes on being
  executed until its block is looked up again.
* Instructions: a memory operand addressed from the program counter is read
  before the immediate byte behind it in several arms of `sse.rs` and `vex.rs`
  (0F 70, C2, C4, C5, C6): the address is one byte low. Scalar SSE arithmetic
  reads sixteen bytes, so it may fault at the end of a region.
* Windows: a mouse message for a window without a procedure is overwritten;
  PeekMessage may take WM_QUIT early; a stale GDI delete frees the slot's new owner.
* Exceptions and exits: handlers that unwind with the dispatcher's context start
  at their target and skip the cleanups between; an exit inside a callback skips
  the detaches.
* Unwinder: a jump from a fragment back into its function is taken for an
  epilogue; `backtrace` stops at direct recursion.
* Services: NtClose leaves registry handles in their table; a directory
  enumeration steps over an entry that did not fit; the shutdown flags of a
  socket outlive its connection; the second audio stream's open replaces the
  first's queue; reading a watched word for the debugger records a hit.

## 6. Not modelled, and why

What each instruction computes (64-bit data, beyond TLC; the repository's
`oracle` fuzzes it) is a third of the code: `cpu/src/sse.rs`, `vex.rs`, `x87.rs`,
`mmx.rs` and most of `exec.rs` and `compile.rs`; `Faults` models the order of its
accesses, not the values. Another third marshals arguments
and lays out answers: most of `os/src/api.rs` and `win32k.rs`, `gdi.rs`,
`wow64.rs`, `token.rs`, `nls.rs`, `unixlib.rs`. File formats (`loader`), process
set-up (`app`), pixels and host windows (`gui`), the command line and the test
tools have no state machine of their own. `PROJECT.json` gives status and reason
for each part.

What could still be added, most important first:

1. Proofs: `RunsAsInterpreted` for pages that are remapped.
2. The second stack of callbacks (`cb_stack`: atexit handlers, TLS callbacks,
   DllMain), preempted inside one, and `DllMain`s that load and free.
3. Sections as objects, with their files; asynchronous sends of sockets.
4. The delivery of hardware exceptions (`Faults`) joined with the frames of
   `ExceptionDispatch` and the compiled code of `JitCache`.
5. Pure operators against references over bounded inputs: export forwarders,
   relocation, shifts of `alu.rs`.
