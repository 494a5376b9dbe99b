# vladOS: a TLA+ verification project

vladOS is a small x86-64 kernel in Rust: kernel and user tasks under a
round-robin scheduler, processes with `waitpid`, file descriptors, a user heap,
an ELF loader, and one address space per process. This directory holds TLA+
models of it, the TLC configurations that check them on small instances, and
TLAPS proofs for every size of the tables.

Contents: 1 the system, 2 the modules, 3 the runs, 4 bounds, 5 fairness,
6 proofs, 7 where code and documents disagree, 8 what is not modelled, 9 what
could come next.

## 1. The system

The kernel runs on one core. Code of the scheduler runs inside
`interrupts::without_interrupts` or inside an interrupt gate, so one operation is
one atomic step. What interleaves is who takes the next step: the main context
(boot code and tests, which call `run()`), kernel tasks, user tasks, or an
interrupt. Loading a program and printing run with interrupts enabled and are
interleaved in finer steps.

| Part | Module | Behaviour that is hard to test |
|---|---|---|
| Task scheduler, process table, `waitpid` (`scheduler.rs`, `process.rs`, `task.rs`) | `Scheduler` | switches interleaved with exits and waits; parent and child ending in either order; a status pointer checked now and used later; a cached root that is stale; starvation; a `run()` that returns early |
| Descriptors and open files (`fd.rs`, `file.rs`, `sys_*_current`) | `Files`, `Descriptors` | either table full, failure half way through, slot reuse |
| Address spaces, user heap, frame allocator (`address_space.rs`, `process.rs`, `memory.rs`, `user.rs`) | `UserHeap` | growth that fails half way, rounding at page boundaries, loads and `brk` taking frames in turn |
| ELF loader and the writer of the test programs (`elf.rs`, `user.rs`, `build.rs`) | `ElfLoader` | overlapping rounded segments, 64-bit overflow, pages shared by data and zeros |
| Checked user memory (`user_memory.rs`, `syscall.rs`) | `UserMemory` | ranges that wrap, end at the top, or straddle an unmapped page; copies that stop half way |
| Context switch (`arch/x86_64/context.rs`, `gdt.rs`, `task.rs`) | `Contexts` | a frame overwritten on a stack that is used again, a wrong pop order, a stale `rsp0` |
| Spinlocks and interrupts (`memory.rs`, `allocator.rs`, `vga_buffer.rs`, `serial.rs`, `interrupts.rs`) | `KernelLocks` | an interrupt while a lock is held; a switch with an interrupt still in service |
| Text output (`vga_buffer.rs`, `serial.rs`) | `Console` | wrap, newline and scroll meeting at the last cell; a search over old bytes |

How they interact: a system call enters through an interrupt gate (`Contexts`)
with pointers that must be checked (`UserMemory`) and runs one scheduler method.
Ending a task marks its process a zombie, closes its descriptors, serves a
waiting parent by writing into the parent's memory, and switches to the next task
and its address space. The models share no variables; where one relies on
another, it says so: `Scheduler` takes it that a validated status pointer stays
writable while its process is blocked (`UserHeap`, `UserMemory`), `Files` that a
validated write cannot fault (`ValidatedCopiesFinish`), `UserHeap` what parsing
guarantees about an image (`ImageAssumption`, which is `HeapFollowsImage` in
`ElfLoader`), and all of them that a switch resumes what was saved (`Contexts`).

## 2. The modules

Operators named or commented as a mistake stand just before the definition they
vary. No specification uses them. Putting one in the place of the correct
definition makes TLC report a violation of the property it is paired with in
`PROJECT.json`, which shows that the property can fail. `MC...` modules hold
instances for TLC; a module without one is run directly.

### Scheduler

| Variable | Code |
|---|---|
| `tasks`, `ntasks` | `Scheduler.tasks`; index = `TaskId`; entries beyond `len()` are `Absent` |
| `procs`, `nextPid` | `ProcessTable`; pid 0 stands for `None` |
| `current`, `preemption`, `cached` | `current`, `preemption_enabled`, `current_level_4_frame` |
| `cr3`, `rsp0` | the hardware registers, each named by its owner |
| `mainIrq`, and `irq` of a task | the interrupt flag, inherited by a task from its creator |
| `panicked` | an `expect()` of the dispatch or exit path has failed |

Actions carry the names of the functions: `Spawn`, `SpawnUserProcess` (with and
without a parent), `Run`, `TimerInterrupt`, `Yield`, `ExitCurrent`,
`FailCurrentWithFault`, `FinishCurrentTask`, `SetTaskInitialArg`,
`SetPreemption`, `EnableInterrupts`. `waitpid_from_interrupt` is four actions,
one for each way it ends: `WaitPidFails` (the errors that some arguments give in
this state, since the next state depends on nothing else), `WaitPidCollects`,
`WaitPidNoHang`, `WaitPidBlocks`. Spawning that fails for want of room changes nothing and has no
action here (`Files` has the failure that must undo work).

Data is abstracted to what the properties tell apart. Of a trap frame the model
keeps the `waitpid` result and whether `rdi` is the kernel's argument. Of an
address space it keeps which status pointers are writable, which `SysBrk` may
change, and the wait status last written. Exit codes keep the cast from `u64` to
`i32`, with a word of `CodeModulus` values. The order of a child list is never
observed, so it is a set.

### Files and Descriptors

`files` is `OpenFileTable`, `fds` the `FdTable` of each process, `life` the phase
of the process, `ret` the last result. `Spawn` installs the three standard
descriptors and undoes them when the open-file table fills up; `Open` allocates
the open file first and gives it back when no descriptor is free. The early
returns of `open`, `read` and `write` are operators (`OpenError`, `ReadResult`,
`WriteResult`) with the checks in the order of the code. The actions range over
the results that some argument gives, since the next state depends on nothing
else. File contents and the copied bytes are left out. A `write` is all or
nothing: `sys_write_current` validates the whole range before the first chunk.
A `read` that faults in its second page may have written the first one: user
memory is not part of this model, the offset is.

`Descriptors` has no open-file table: each descriptor carries its own kind and
offset. `ImplementsDescriptors` maps `Files` to it by `Desc`. It says that
sharing and reuse of slots never show, and that `-ENFILE` and `-EMFILE` are
returned only when there is no room.

### UserHeap

`next` is the bump allocator's cursor, `tables` and `pages` the frames of each
address space, `heap` the `UserHeap` record (start, break, limit, mapped end).
A load is one step per critical section of the memory state: allocate a frame
(`held`), map it, with the table frames the mapping needs. Loads of several
processes and `brk` calls interleave. `SysBrk` is one step, with its checks in
the order of the code and the rollback that unmaps the pages of a growth that
fails. Frames are never given back, neither by an unmap nor by an exit, as in the
code; running out is reachable at every point.

### ElfLoader

A file is a record of the fields that `parse_elf` looks at. Every check has its
place and its error. After that `load_user_elf` goes segment by segment and page
chunk by page chunk: map, copy, zero. `WellFormed` is a declarative definition of
what may be loaded; `ParserIsExact` compares the two. Files also come from the
`elf()` writer of `build.rs`, which is modelled with its layout of headers,
padding and data, so that writer and reader are checked together.

### UserMemory

One call of `write`, `read`, `open` or `waitpid` from the register to the bytes:
`VirtAddr::new` with sign extension, the range check, the walk over pages, the
copy loops in page pieces and in chunks. Each user page is unmapped, read-only or
writable. Frames are in reverse order, so that a copy that ignores a page boundary
moves the wrong bytes.

### Contexts

Memory is the kernel stacks, word by word. An interrupt pushes the CPU's five
words and fifteen registers; the handler uses more words below; the pops and
`iretq` read them back. First frames of kernel and user tasks, the main context
of `run()`, `rsp0`, and the result that `waitpid` writes into a saved frame are
there. Each context expects at its next instruction the values it had (`expect`).

### KernelLocks

A context runs a stream of instructions: take and release a lock, `cli`, restore,
switch, end of interrupt, `iret`. Handlers are pushed in front of the stream of
the context they interrupt. A taken lock makes the CPU spin, so with one core a
lock held by a suspended context would never come free. Kernel tasks load programs
only while preemption is off, as all in the repository do and
`docs/code_walkthrough/address_spaces.md:62` asks; `set_preemption_enabled` is
public and nothing enforces it.

### Console

The VGA writer with its cells, and the serial `OutputBuffer`. The ghosts `text`
and `sent` are all that was written. `ScreenShowsTail` compares the screen with a
layout of the whole text that knows nothing of cursors and scrolling: a line
begins after a newline and at every byte that follows a full line (`Breaks`), the
line of a byte is the number of breaks up to it, and its column the distance from
the last newline modulo the width. `BufferIsExact` does the same for the buffer and
`contains`.

## 3. The runs

| Run | Module, configuration | States | What it shows |
|---|---|---|---|
| `scheduler` | `Scheduler`, `Scheduler.cfg` | 320,822 | the invariants, among them the inductive one of the proofs; no step wakes a waiter without its status, loses an exit status, returns from `run()` early, or reuses a pid |
| `scheduler_live` | `Scheduler`, `SchedulerLive.cfg` | 85,472 | every Ready task gets the CPU; `run()` returns with everything ended, blocked parents included |
| `files` | `MCFiles`, `Files.cfg` | 86,969 | reference counts, privacy, offsets, no trace of failed calls; `Files` implements `Descriptors` |
| `user_heap` | `MCUserHeap`, `UserHeap.cfg` | 115,275 | break, mapped end and page tables stay in step, errors are true, no frame is in two places, a failed `brk` leaves no trace, mapped pages keep their frames |
| `elf_loader` | `MCElfLoader`, `ElfLoader.cfg` | 33,560 | the parser is exact, accepted files load, memory is the file's image, the heap follows it, what `build.rs` writes is accepted |
| `user_memory` | `MCUserMemory`, `UserMemory.cfg` | 113,170 | validation is exact, validated copies finish, exactly the range moves |
| `contexts` | `MCContexts`, `Contexts.cfg` | 49,336 | registers, stack words and saved frames survive every switch |
| `kernel_locks` | `MCKernelLocks`, `KernelLocks.cfg` | 41,424 | nobody is suspended with a lock or finds one taken, every interrupt is ended, interrupts come back |
| `console` | `Console`, `Console.cfg` | 88,725 | the screen shows the end of the text, the buffer the beginning, a search never finds old bytes |
| `scheduler_parentless` | `Scheduler`, `SchedulerParentless.cfg` | violated | section 7 |
| `scheduler_argument` | `Scheduler`, `SchedulerArgument.cfg` | violated | section 7 |
| `user_memory_pointers` | `MCUserMemory`, `UserMemoryPointers.cfg` | violated | section 7 |

The type invariant of a module is part of one property of its run. Deadlock is
checked where the system goes on for ever (`Scheduler`, `Contexts`,
`KernelLocks`, `Console`). `Files` stops when every process has ended,
`UserHeap` when frames and processes are used up, `ElfLoader` and `UserMemory`
when the load or the call is over.

## 4. Bounds

- `Scheduler`: `MaxTasks = 3`, `MaxProcesses = 3` is the smallest size with a
  grandparent, a parent and a child, with a waiter whose child itself waits, and
  with a third task to be switched to. Both table limits are reached. In the
  kernel they are 8 and 16; the proofs cover all values. `Ptrs`: one address that
  `brk` makes writable or not, and the null pointer (which is all the liveness run
  has). `ExitCodes = {6}`, `CodeModulus = 4`: 6 loses its high bit and becomes -2,
  so truncation and sign both happen.
- `Files`: `MaxOpenFiles = 4`, `MaxFds = 3`: each process fills its descriptors, a
  second process fails half way through its standard descriptors or starts after
  some are closed, and both tables can be full. The kernel has 32 and 16; the
  proofs cover all values. `MaxLen = 2` with a file of one byte: reads end before,
  at and beyond the end.
- `UserHeap`: pages of two bytes, so every alignment of a break occurs, two table
  spans, so that the heap may need a new table or not; 14 frames, which run out
  during loads and during growth, but suffice for two processes in other orders.
- `ElfLoader`: pages of four bytes, a window of four pages, words below 64: sums
  overflow, segments touch, overlap and fill the window.
- `UserMemory`: four user pages of two bytes in all 81 protections; pointers and
  lengths at every limit and some that wrap.
- `Contexts`: stacks of 26 words, one kernel task, a process and its child; the
  code's stacks are far larger, and an overflow of them is not the question here.
- `KernelLocks`: two tasks of each kind besides main.
- `Console`: a screen of two by two and five bytes of text scroll at least once;
  a buffer of three overflows; writes of up to two bytes (`MaxChunk`) are cut in the
  middle by it.
- Symmetry is used for the processes of `Files` and `UserHeap` and the tasks of
  `KernelLocks`; these runs check no liveness.

## 5. Fairness

Only `LiveSpec` of `Scheduler` has fairness: weak fairness of `TimerInterrupt`,
since the PIT ticks periodically by itself. `NoStarvation` is conditional on
`PreemptionStaysOn`, since a kernel task may disable preemption and a task
created with interrupts off keeps them off. `RunCompletes` assumes `ProgramsEnd`:
a program that gets the CPU again and again ends. Nothing is assumed of a blocked
task.

## 6. Proofs

### Scheduler

The theorems hold for any numbers of tasks, processes, pointers and exit codes
that satisfy the `ASSUME`s of `Scheduler` (table sizes positive, null not a
pointer, codes natural).

`SchedulerSafe` proves `Spec => []SchedulerInv`. `TypeCorrect`,
`KernelNeverPanics`, `WaitersAreServed`, `NobodyIsStranded`,
`TablesStayConsistent`, `FamiliesStayConsistent` and `RightAddressSpace` are read
off it. `RunReturnsWhenAllEnded`, `WaitersWakeWithResult`, `StatusesAreKept` and
`EndsAreFinal` are the action properties `MainResumesWhenAllEnded`,
`WokenWaiterHasResult`, `ExitStatusNotLost` and `NothingComesBack`.

None of the properties is inductive alone. The argument goes round like this:

- That a dispatched task has its process (`NoKernelPanic`) needs
  `TasksAndProcessesAgree`: only the process of a task that has ended is reaped.
- That agreement survives an exit needs `FamilyConsistent`: what is reaped with a
  parent is exactly its zombie children.
- That the parent's waiter is found and can be served needs
  `WaiterWillBeServed`: it is the only one, and its pointer is still valid
  because only its own process can call `brk`, and it is blocked.
- That blocking never strands the system (`NoTaskStranded`) needs all of these
  and `NumberedInOrder`. A child has a larger pid than its parent, so the
  blocked process with the largest pid waits for a process that is not blocked
  (`NoWaitCycle`). Its task is Ready, and the round-robin search finds it
  (`NextReadyFound`). Hence the `restore_main` branch of `waitpid` is never taken.

`SchedulerProofs` has first the lemmas on searching, dispatching and the table
operations and the end of a task with and without a waiter, then one lemma per
remaining action and the theorems, and last the three action properties. Most actions touch
neither a blocked nor an ended task (`Resting`) and keep every process in its
state, which is enough. The exceptions are a spawn, a `waitpid` that collects, and
an exit. On an exit `WaiterWillBeServed` makes the path through `complete_wait`
one without errors (`WakeEffect`, `WaitEnds`), so the waiter that wakes has the pid and the
status.

### Files

`FilesProofs` is about any set of processes, any numbers of slots and
descriptors (at least three of these, for the standard ones) and any files.

`FilesSafe` proves `Spec => []FilesInv`. The invariant is `Fit(files, fds)`: every
descriptor in use names an open file, every open file is named by exactly one
descriptor and has one reference, its offset is within the file and its access
mode follows from its kind. `RefsMatchDescriptors` is not inductive: it allows two
descriptors of one file with a count of two, and then nothing keeps the offset of
one process from another. That every count is one is a fact about this kernel,
which has `inc_ref` but no `dup` and no `fork`.

`CountsAreRight`, `FilesAreNotShared` and `ReadsStayInBounds` are read off
`FilesInv`; `FailuresLeaveNoTrace` is the action property
`FailureChangesNothing`. Two steps are not obvious. A spawn works on copies of the
tables in three stages (`StageOK`, `InstallStdioKeepsStage`): each stage fits
together with the tables of all other processes, and a failing one closes what the
earlier ones opened and gives back exactly the tables it started from. The end of
a process releases as many references of a file as the process has descriptors of
it (`CloseAllEffect`), which is one (`CountIsOne`).

Its second part proves `FilesImplementDescriptors`, that is `Spec =>
ImplementsDescriptors`: each step of the two tables is a step of `Descriptors` or
leaves the descriptors as they were. There is one lemma per action. `Descriptors`
has no table of open files, only a bound on the descriptors in use, so the main
fact is that the free slots are what is left of that bound (`RoomIsCounted`):
descriptors in use and occupied slots are in bijection by `Fit`. From it follow
that `open` fails in both specifications in the same states, and that a spawn
succeeds exactly when three slots are free (`NewWithStdioCounts`).

### UserHeap

The theorems of `UserHeapProofs` hold for any page size, table span, layout, images, number of frames
and set of processes that satisfy `LayoutAssumption`, `ImageAssumption` and
`SpanAssumption`. The last is used for `BrkErrorsStayTrue` only: the pages from
`USER_ELF_LOAD_START` to `USER_HEAP_LIMIT` lie under two level 1 tables, that of the
first page and that of the stack. In `user.rs:12-20` the window is 0x400000 to
0x700000 and the stack ends at 0x800000, and a table covers 0x200000 bytes.

`FramesStayPrivate` proves `Spec => []FramesArePrivate`. The property counts
places and frames, which no step can be checked against; `FrameInv` says the same
with quantifiers: no frame is twice in one address space (`UsedOnce`), none is in
two, and all are below `next`. A lemma per action shows that the frames it uses
are old ones of that process or at least `next`, and all different. The hard one
is `SysBrk`: page `q` and table `t` of one loop get the frames whose numbers count
what the loop took before them, so numbers of pages grow with the pages
(`PageFramesDiffer`), those of tables with the tables (`TableFramesDiffer`), and a
page and a table never meet (`PageAndTableFramesDiffer`) because a table is first
needed by a page that already has its frame. `FramesCounted` goes back to the
counted form by a bijection between places and frames.

`HeapStaysMapped` proves `Spec => []HeapIsMapped`, and `FailedBrkLeavesHeap` and
`PagesKeepTheirFrames` are the action properties `FailedBrkKeepsHeap` and
`MappedPagesSurvive`. `HeapIsMapped` speaks of running processes only, so
`HeapInv` adds what is true of a process before it runs: no page of the heap is
mapped or on the loader's list (`ImageLayout`, from the layout), the heap starts on
a page boundary above zero, and a loader with a frame in hand has a page for it.
`AlignUpRounds` is the fact about rounding that everything rests on: the pages
below the rounded break are the pages below the break. `BrkOutcomes` lists the
three ways a `brk` can end; a failed one is the first, because the pages it would
unmap are all mapped (`ShrinkIsMapped`).

`BrkErrorsStayTrue` proves `Spec => []BrkErrorsAreTrue`. The part that is not a fact
about one call is that growing needs no page table: otherwise `-ENOMEM` could be
returned with enough frames for the pages. `TableInv` says why. Every image has a
page just below its heap and every process the top page of its stack; either the
loader has still to map such a page, or the tables on the way to it exist
(`Anchored`), and tables are never taken away (`Keeps`). When the process runs, the
loader has nothing left to do. A page of the heap is under the table of the stack, or
by `SpanAssumption` under that of `LoadStart`, and then the page below the heap,
which lies between the two, is under it too.

### ElfLoader

The theorems of `ElfLoaderProofs` hold for any page size, load window, stack and
word size that satisfy `ElfLayoutAssumption`, and for any set of files that
satisfies `ElfFileAssumption`: every field is a word (in the code a `u64` or
narrower) and there are finitely many program headers. Nothing is assumed of the
fields' values. `BuiltProgramsAlwaysLoad` alone uses `ProgramAssumption`, which says
what the programs of `build.rs:115-758` have in common: aligned segments in the load
window that do not overlap and leave a page for the heap, no more data than memory,
and an executable segment with the entry point.

`ParserAcceptsWellFormedFiles` proves `Spec => []ParserIsExact`. It is a fact about
operators (`ParseAccepts`): the first error of a list of checks is none exactly
when no check fails (`FirstErrorIs`); a checked sum is a word or the overflow mark
(`Sum64`), and below the end of the load window it is the true sum; a rounded
range lies in the window exactly when the range does, because the window ends on a
page boundary (`SegmentPlace`); and two rounded ranges overlap exactly when they
share a page (`OverlapIsSharing`), so comparing every segment with the earlier ones
finds every pair.

The other three are read off the inductive invariant `LoadInv`. What is true at
the end says nothing about the middle of a load, so the invariant follows the
progress: the segments mapped so far (`Mapped`) have their pages and protections
and no other page is mapped, the bytes copied so far (`Written`) are those of the
file and all others are zero, and the file that is being loaded is well formed.
`MapStep` needs that segments share no page, `CopyStep` and `ZeroStep` that the
bytes of a segment lie in its pages (`SegmentTranslates`) and that a chunk ends
before the page does (`ChunkFits`), `StackStep` that the stack is above the load
window (`StackAbove`). `AcceptedFilesAlwaysLoad` is the part about errors,
`LoadedImageIsExact` the part about pages and bytes. `HeapStartsAboveImage`
connects this module with `UserHeap`: what `ImageAssumption` says there of an image
is what the loader produces here. The step from one to the other is that the
greatest end of a segment, rounded up, is the end of the last page of the image
(`HeapBoundary`).

`BuiltProgramsAlwaysLoad` proves `Spec => []BuiltProgramsLoad`: writer and reader
agree. Where `elf()` puts the data of a segment is a recursive function of the
segments before it (`FileEnd`). The provers have no induction rule for it, so the
lemmas argue by a least counterexample, which the well-foundedness of the natural
numbers supplies: that there is a function with these equations (`EndsExist`), that
its values are natural numbers (`EndsAreNumbers`), and that they grow
(`EndsInOrder`). Hence the data of different segments lies in different parts of the
file and inside it (`DataInOrder`), each byte is where its header says
(`BytesOfData`), and the file is well formed (`BuiltIsWellFormed`), so that
`ParseAccepts` and `LoadInv` apply. `BuiltInv` adds that no later step refuses it.

### UserMemory

The theorems of `UserMemoryProofs` hold for any page, word and chunk size, any
layout of the user half, any injective placement of frames and any pointers and
lengths that fit in a word (`UserMemoryAssumption`).

`ValidationAcceptsUsableRanges` proves `Spec => []ValidationIsExact`. The walk looks
at the first byte of the range and then at the first byte of every further page; a
page has one protection, so this decides about all bytes, and the check for overflow
before it makes the range one that does not wrap.

`CopiesMoveTheirRange` (`Spec => []TransferIsExact`) and
`ValidatedCopiesAlwaysFinish` (the action property `ValidatedCopiesFinish`) rest on
`MemoryInv`, which says where a copy is: of `write`, what was sent and what is in
the buffer are together the range from `start` on; of `read` and `waitpid`, the
first `done` bytes hold what they should and physical memory differs nowhere else;
and a range that was validated is still usable when it is copied, because nothing
changes the page table during a call. That a store destroys no byte
stored before needs that different addresses have different physical bytes, which
follows from frames being different.

### KernelLocks

The theorems of `KernelLocksProofs` hold for any sets of kernel and user tasks.
`NoLockIsHeldAcrossSwitches`, `LocksAreAlwaysFree`, `InterruptsAreEnded` and
`InterruptsAlwaysComeBack` are the four invariants of the module; all are read off
`LockInv`.

The difficulty is that the state holds code, and a property of the next
instruction must be known of all instructions before. `LockInv` says of every
context's code that it is the rest of well shaped code (`Shape` says which
instruction may follow which: after a lock comes its unlock, or for the interrupt
controller the end of interrupt and then the unlock) that either runs with
interrupts off up to the restore, or is about to turn them off, or is a load by a
task or main without preemption. At most one handler is on top (`Runs`), and the
locks held are exactly those the running context has still to
release (`Accounts`). From this a switch, which occurs only in a handler or with
interrupts off after all releases, finds no lock taken; a handler that interrupts a
load uses none of the locks of loading (`Light`); and the end of an interrupt in
service is in the code of the handler on top (`InService`). One lemma per
instruction shows that it keeps the shape, and one per operation and handler that
its code has it.

### Contexts

The theorems of `ContextsProofs` hold for any sets of kernel and user tasks, any
parents, and any stacks with room for a frame with an error code, an aligned entry,
what a kernel context keeps (`MaxDepth`) and what a handler uses (`HandlerDepth`);
this is `ContextsAssumption`. That stacks are large enough is an assumption about the
code, not a result. `RegistersSurviveTheorem`, `StacksSurviveTheorem`,
`FramesAreSavedTheorem` and `UserEntryStackTheorem` are the four invariants of the
module, all read off `ContextsInv`.

None is inductive alone. That registers survive needs the saved frame to be whole;
that it stays whole needs the stacks of different contexts to be apart, the stack
pointer of a kernel context to be on its own stack, and `rsp0` to be the top of the
stack of the task in user mode. `ContextsInv` says of a memory what every context
will find in it (`Settled`), one stack at a time (`Fits`): words that are kept, and
for a task that is not running a whole frame at its saved stack pointer. While a task
runs, main's seven words are where `run()` left them (`MainReady`). The proof follows
a handler through its stages. Entering changes the interrupted stack only, and leaves
there a frame of that context; a patch of `rax` or `rdi` changes the same word in the
frame and in what is expected; leaving takes one frame off one stack. The orders of
pushes, of the struct and of pops are compared once (`PushesAreFrame`,
`PopsAreFrame`, `MainPushesReversed`).

### Console

The theorems of `ConsoleProofs` hold for any height, width and capacity that are not
zero, any printable bytes, and any text and writes.

`BufferIsExactTheorem` follows from `BufferInv`: the first `len` bytes are those
sent, and only a full buffer has fewer than were sent. The second part is what
`push_bytes` needs to append after a cut.

`ScreenShowsTailTheorem` proves `Spec => []ScreenShowsTail`. The reference definition
speaks of the whole text and the code of one byte. `ScreenInv` is stated for an
arbitrary text and writer (`Writes`), so that the lemmas can be about a text and the
text with one byte more. A byte appended leaves newlines, breaks, lines and columns
of the bytes before it as they were (`OffsetsStay`, `LongerBreaks`, `LongerLines`),
and makes one line more exactly when it is a newline or follows a full line, which is
when the writer starts a row (`WrappedCursor`, `NextColumn`). Scrolling moves every
byte and the count of scrolled lines together (`NewLineShows`). The invariant adds to
the property that no byte of the text is at or after the cursor (`Precede`), so that a
byte written overwrites none.

### Only model-checked

- Liveness, `NoStarvation` and `RunCompletes`, which is beyond the prover (fairness
  and `ENABLED`).
- The three properties of section 7, which are false.

Every other property of a run has a theorem.

## 7. Where code and documents disagree

- `ChildOfExitedIsParentless`: `docs/code_walkthrough/process_lifecycle.md:58`
  says that a child of an exited parent is parentless. `can_create`
  (`process.rs:240`) accepts a zombie as the parent of a new child, which then
  has a dead parent. `FamilyConsistent` shows that the table stays consistent
  nevertheless.
- `ArgumentOnlyBeforeFirstRun`: the comment at `task.rs:205` says that saved
  registers are patched only before the first run or during a blocked system
  call. `set_task_initial_arg` (`scheduler.rs:779`) tests only for `Ready`, so
  it can overwrite `rdi` of a task that was preempted.
- `BadPointersReturn`: `docs/code_walkthrough/user_memory_and_write.md:88` says
  that a bad pointer returns `-EFAULT`. `dispatch` (`syscall.rs:100`) converts the
  register with `VirtAddr::new`, which panics on a value that is not canonical,
  before anything is validated.

## 8. What is not modelled

- IDT, GDT, PIC and PIT set-up, and the boot sequence with its demo: straight-line
  code that runs once.
- Fatal handlers (double fault, kernel faults): they do not return.
- The kernel heap: one mapping loop at boot; the allocator is the
  `linked_list_allocator` crate. Its lock is in `KernelLocks`.
- The four-level page walk is the `x86_64` crate's. `UserHeap` counts the frames
  of page tables, with one level of spans; elsewhere a page table is a function
  from pages to frames.
- Port I/O of the serial line and the keyboard controller.
- The assembly bodies of the test programs. `ElfLoader` has the files they are
  packed in.
- Nested calls of `run()` from a task: no code in the repository makes them.
- File system calls issued by kernel tasks: they have no process and change no
  table.
- `scheduler::copy_to_user`, a helper of the tests, and the read-only queries.
- Formatting of messages.

## 9. What could come next

1. `Scheduler` and `Files` composed, so that an exit closes descriptors in the
   step that wakes the parent. Both are single atomic steps in the code, so the
   composition would add no interleaving.
