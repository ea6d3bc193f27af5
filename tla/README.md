# A verification of the FantomOS kernel

FantomOS is a small 32-bit x86 kernel: a GRUB-loaded higher-half image with an
interrupt layer, a frame allocator, paging, a heap break, a virtual file system
over a tar ram disk, a keyboard and a text screen, and user processes under a
round-robin scheduler with 17 system calls.  This directory holds TLA+ models of
its core, TLC configurations that check them and TLAPS proofs about them.

Paths are relative to `src/packages/` unless they start with `ramdisk/`.

## 1. The system

| Component | State it keeps | Operations | Talks to |
|---|---|---|---|
| processes (`modules/processes/Process.c`) | the pcbs: id, state, parent, page directory, top of user/kernel stack; `curr_PID`; `kprocess` | createUserProcess, createChild, kill, makeForeground, blockProcess, fSwitch, contextSwitch, setTSS | scheduler, paging, VFS, heap |
| scheduler (`Scheduler_RR.c`) | `process_list`, `currentProcess`, `tick`, `Scheduler_running` | PIT_handler, addProcess, removeProcess, nextProcess, getCurrent | linked list, contextSwitch |
| interrupt path (`modules/interrupts/aIDT.s`, `IDT.c`, `Faults.c`) | the debug register DR0 as a mailbox for the frame to return to; `handlers[]` | idt_common, IDT_handle, addISR, addIRQ | every handler, PIC |
| system calls (`modules/userspace/Syscall.c`) | - | Syscall_handle through `Syscall_map` | everything |
| keyboard (`modules/drivers/Keyboard.c`) | a ring of 128 keys with two pointers and a count; `blocking`; shift | kb_handler, bufferWrite, bufferRead, getInput | scheduler, blockProcess |
| linked list (`modules/data_structs/LinkedList.c`) | nodes with two links, front, end, items | create, destroy, addNode, removeNode, getNodeByIndex, getNodeByData | heap |
| frame allocator (`modules/physmem_hybrid`, `core/data_structs`) | a stack of low free frames, a bitmap of all others | init, allocate, free | boot information |
| frame allocator (`modules/physmem_bitmap`) | a bitmap | init, allocate, free | not loaded by `Manager.c` |
| paging (`modules/virtmem_paging`) | page directories and tables, CR3, temporary slots | createDir, cpyDir, mapPage, unmapPage, virt2Phys, mapToCurrent | frame allocator |
| heap break (`modules/heapmem_sbrk/HeapMem_SBRK.c`) | `kheap_top`, each process's `heap.top` | KSBRK, SBRK | paging, dlmalloc |
| VFS (`modules/vfs`) | the list of mounted devices | mount, unmount, open, read, getFileAtIndex | linked list, ram disk |
| ram disk (`modules/ramdisk`) | the tar archive and its node list | scanTar, readFile, nextHeader | VFS |
| screen (`modules/drivers/VGA.c`) | cursor, colour, frame buffer | putChar, putStr, cls, scroll | - |
| clock, PIC, PIT, PS/2, serial, GDT, debug | device registers | port I/O | - |
| boot (`core/boot`, `core/MODULES`) | the module table | kmain, addModules, loadModule, panic, halt | everything |
| general-purpose allocator (`modules/heapmem_sbrk/malloc.c`) | chunks in use, bins, dv, top | dlmalloc, dlcalloc, dlfree | heap break |
| user programs (`ramdisk/apps`, `ramdisk/libs`) | their own memory | shell, echo, test; gets, strtok, the system-call stubs | system calls |

How they interact.  There is one CPU and no lock.  Interrupt and system-call
gates clear IF, so kernel code is atomic until it executes `sti`, and the only
kernel code that does is `Process_fSwitch` (and `halt_cpu` of the kernel
process).  That makes the points behind fSwitch, and everything getInput does
after it, the places where the kernel itself is preempted.  A context switch is
a conversation of three parties: contextSwitch saves the interrupted frame in
the pcb and leaves the next one in DR0, PIT_handler clears DR0 when there was no
switch, and idt_common takes the stack pointer from DR0 if it is not zero.

What is hard about it:

  - any interleaving of timer interrupts, software ticks (`int 32`), key
    interrupts and the system calls of several processes;
  - three places hold one fact (current process, TSS, CR3), and DR0 is a
    mailbox whose content is only good for one interrupt return;
  - `state` of a pcb is written by six functions, some of them for processes
    that are dead or waiting;
  - a process that killed itself keeps running until the next switch;
  - the keyboard ring is shared by interrupts and by all processes, without
    overflow test, and its count is updated non-atomically;
  - `tick` overflows, frame and address arithmetic truncates to 32 bits;
  - the kernel panics instead of returning errors, half way through operations.

What makes each component correct (the properties of section 4 state these):
the run queue holds each live process once and a switch always ends; a context
is resumed where it was interrupted, in its own address space and kernel stack;
the dead do not run and the waiting wait until released; nobody starves; keys
arrive in order, once, and do arrive; a frame has one owner; a page is mapped
when the kernel mapped it and only then, all directories share the kernel's half
and nothing else; blocks of the heap are disjoint and free ones joined; the
screen shows the line that is run; ls and view show what the archive holds.

## 2. Plan

In order of importance.

| Module | Models | Status |
|---|---|---|
| `Scheduling` | processes, scheduler, interrupt return path, userspace entry | done |
| `Recursion` | lemmas about recursive functions, which the proofs below use for loops | done |
| `KeyboardInput` | keyboard composed with `Scheduling`; implements it, delivers keys in order | done |
| `SchedulingProofs` | inductive invariants, safety and refinement of both | done |
| `FrameAllocator` <- `PhysMemHybrid`, `PhysMemHybridProofs` | abstract allocator, and stack + bitmap shown to implement it; proofs | done |
| `PhysMemInit` (`MCPhysMemInit`), `PhysMemInitProofs` | reading the multiboot memory map; ends in an initial state of `PhysMemHybrid`; proofs | done |
| `SequenceList` <- `LinkedList`, `LinkedListProofs` | pointer structure shown to implement a sequence; proof | done |
| `AddressSpaces` <- `Paging` | directories, tables, slots, processes' directories, both heap breaks; shown to implement disjoint address spaces | done |
| `PagingProofs` | what mapPage, cpyDir and their callers do to memory; the invariants and the refinement of `Paging` | done |
| `HeapBlocks` <- `HeapChunks`, `HeapChunksProofs` | malloc and free over the break, shown to keep the promise to callers; proofs | done |
| `Console`, `Storage`, `Shell` (`MCShell`), `ShellProofs` | screen, ram disk behind the VFS, the shell that composes them; proofs | done |

Every invariant, action property and refinement that the passing runs check is
also a theorem, some under a hypothesis that section 5 names; its end says what
is checked and not proved.

## 3. The modules and the code

### Scheduling

One action per operation; a system call is one action up to the `sti` in
fSwitch because it runs behind an interrupt gate.  `cpu` is the executing
context as a pair of process and program point, and every point named in the
module has interrupts enabled.  A trap frame is such a pair too: on whose stack
it lies and where its `iret` goes; registers and addresses are abstracted.

| TLA+ | code |
|---|---|
| `state`, `parent`, `stack` | `pcb_t.state`, `.parent`, `.userStack.top` (`.kernelStack.top` of kprocess) |
| `process_list`, `currentProcess`, `tick`, `curr_PID` | the variables of the same names |
| `DR0`, `tss`, `cr3` | the register, `tss_e.esp0`, the loaded directory |
| `panicked` | Kernel_panic: `hlt` with interrupts off, for ever |
| `killed`, `progress` | history variables: who was killed; the point each process has really reached |
| `TimerInterrupt` | hardware interrupt 32 through idt_common and PIT_handler |
| `ForcedSwitch` | the `int 32` of fSwitch, a tick like any other |
| `ContextSwitch` | Process_contextSwitch with its early return |
| `CreateChild`, `Kill`, `KillAgain`, `MakeForeground`, `BlockProcess` | the system calls; `KillAgain` is a second kill of one pcb, which ends in a page fault |
| `KeyWakes` | what kb_handler may do to a process (over-approximated here, exact in `KeyboardInput`) |
| `SyscallReturn` | the way back to user mode behind the `int 32` |
| `KernelHalt` | the kernel process's loop |

The pointer from a pcb to its parent outlives the parent, as in the code (pcbs
are never freed).  `Targets` are the pcbs a program can name: `suicide` passes
the caller's own, and createChild returned those of its children.

### KeyboardInput

Extends `Scheduling` by the ring.  getInput's first bufferRead runs inside the
interrupt gate and is one step; behind blockProcess each access to shared
memory (`*r`, load and store of `r`, load and store of `curr_elements`, the test
against `e`) is a step, with key and timer interrupts between any two.  A key is
a number no other key has, or NUL for the scan codes whose layout entry is 0.
Shift is abstracted: it selects the layout and nothing else.

`ImplementsScheduling` is the refinement `KSpec => Scheduling!Spec` under the
mapping `Seen`, which takes every point inside getInput's loop to "unblocked".
It is what makes the theorems about `Scheduling` statements about the composed
system, and shows that the over-approximation `KeyWakes` covers kb_handler.

### PhysMemHybrid and FrameAllocator

A frame is its number.  `bitmap` is the set of frames whose bit is set, `stack`
the stack, `held` a history variable: the frames the callers own.  Free takes a
frame of `held`, as VirtMem_unmapPage does.  `Init` is every state the
initialisation can leave.  FrameAllocator is what the two functions behind
core/interfaces/Memory.h do: frames that are free, frames that are held, and a
panic when none is free, where that header asks for NULL (`AllocateReturns`,
violated by `PhysMem_exhausted`).  The refinement mapping
takes for free what is on the stack or clear in the bitmap, so a frame that
Stack_push drops, or that gets into both structures, breaks a step.  With
`MaxStack` = 0 the module is allocate and free of PhysMem_Bitmap.c; the theorems
include that case.

### PhysMemInit

One action per iteration of the four loops of PhysMem_Hybrid_init, on byte
addresses that wrap at `Word`; `clear` holds also indexes behind the end of the
bitmap, since clearBit checks nothing.  The regions of a map have 64-bit
addresses and lengths.  `ReadyForAllocator` instantiates PhysMemHybrid and says
that the last state satisfies its `Init`: the two modules together cover the
life of the allocator.

### LinkedList and SequenceList

Nodes are cells of the heap.  calloc returns any cell that is not live; a freed
cell is overwritten with `Junk`, so every use of a freed node shows.  getNodeBy
and removeNode are separate functions in the code and always used together,
which is how the actions combine them.  `RemoveAbsent` is removeNode of NULL,
which reads address 0.  SequenceList records the call and what it returned, so
that a removal by data must take the first match, and one by index that index.

### Paging and AddressSpaces

Directories and tables are frames of a modelled memory, and every access goes
through the slot of the kernel's window that the code remaps for it (`ToCurrent`
is mapToCurrent, `Seen` the dereference of its result), since what is hard here
is which frame a slot shows at the moment.  Before `Paging_init` is over, frames
are read in place (4 MB pages), and only the low ones can be.

| TLA+ | code |
|---|---|
| `mem` | physical memory, as entries of present bit, frame and user bit |
| `MapPage`, `CreateDir`, `CpyDir`, `FreeDir` | the functions of VirtMem_Paging.c |
| `Paging_init` | VirtMem_Paging_init, with the loop over the window |
| `KernelMalloc` | KSBRK below any malloc of the kernel; `HeapDir` is the directory it picks |
| `Sbrk`, `SbrkNegative` | HeapMem_SBRK |
| `CreateUserProcess` | Process_createUserProcess: pcb, directory, image, stacks, frame |
| `SwitchTo`, `Kill` | what contextSwitch and Process_kill do to memory |

An operation that panics on its way leaves no state behind that anybody could
see.  When a user program's break is asked to move is the program's choice, also
that of one that has been killed and still runs.  Which frames the allocator
hands out is fixed: the lowest, as both its stack and its search do, and
allocation is all that happens, because nothing is ever freed.

`AddressSpaces` is the memory map of core/interfaces/Memory.h: one kernel half,
one user half per process, a frame of its own behind every page.  The mapping
reads the places off the directories as the processor would, the kernel's half
in the kernel's directory; `KernelShared` is what makes that the view of all.

### HeapChunks and HeapBlocks

malloc.c is third-party code, but what it does depends on this kernel's settings
(no mmap, a contiguous break, the default trim threshold) and every component
stands on it.  A chunk is an address and a size in units of 8 bytes; bins are a
set, as best fit needs only sizes; `dv` and `top` are the chunks of those names.
`FromBin`, `FromDv`, `FromTop`, `SysAlloc` are the steps of dlmalloc, and one
function of the code picks exactly one of them.  free joins a chunk with both
neighbours before it decides where the result goes.  `HeapBlocks` is the promise:
a block is as large as asked for, inside the heap, apart from all others, and
stays.

### Console, Storage and Shell

`Console` is the cursor and its row, with an unsigned column; `Storage` the walk
over the tar image and the list of files behind VFS_open and
VFS_getFileAtIndex; `Shell` the read-and-run loop with gets (one action per key),
strtok with its static position, the commands, and test.c as a child that clears
and writes the screen at any time.  readFile leaves the zero that RamDisk.c:90 puts
behind the bytes, outside of viewFile's buffer.  If the buffer fills its chunk of
the heap (`FillsChunk`, with the sizes of malloc.c), that zero clears the flags of
the next chunk, and dlfree finds them wrong and does not take the buffer.  What it
does then is `abort`, which ramdisk/libs/malloc.h:10 defines as `empty`, a function
of ramdisk/libs/syscall.c that does nothing; so viewFile returns and the shell goes
on, one block poorer (`LeaksBlock`).  The next chunk is the heap's top, from which
the buffer has just been cut; malloc keeps the size of top elsewhere, so nothing
else is harmed.  The two calls that write the prompt are one step, and the octal
digits of a header's size are a number.  What tar writes (`Tar`) is external.  A word
is a letter here: commands and file names are compared as a whole.  The variables
`line`, `plain`, `trailing` and `ran` are history: what a user believes to have
typed, and what was run.

## 4. Runs

| Run | Checks | Shows |
|---|---|---|
| `scheduling_safety` | `TypeOK`, `RunnableExists`, `ListHoldsLive`, `ContextKept`, `ContextCoherent`, `NoResurrection`, `BlockedWaits` | the safety of scheduling with the initial program and two more, before the tick counter wraps |
| `scheduling_liveness` | `BlockedHasWaker`, `EveryoneRuns` | for programs like those shipped, a blocked parent has a living child, and round robin starves nobody |
| `keyboard_read` | `KTypeOK`, `DeliveredInOrder`, `ImplementsScheduling`, `KeysReachReader` | keys come out in order, every key that is counted reaches the waiting program, and the composition implements `Scheduling` |
| `keyboard_lost` | `EveryKeyDelivered`: violated | `curr_elements--` loses a concurrent `++` |
| `physmem_alloc` | `OneOwner`, `ImplementsAllocator` | no frame has two owners or is lost |
| `physmem_init` | `PlainFreedIsRAM`, `InsideBitmap`, `ReadyForAllocator`, `PlainInitReturns` | what the initialisation frees and leaves: the first and the last below 4 GB, the others for large machines too |
| `linkedlist_sequence` | `WellLinked`, `ImplementsSequence` | the list is a sequence, its links stay consistent |
| `paging_spaces` | `PTypeOK`, `KernelShared`, `Isolation`, `HeapsBacked`, `FramesAccounted`, `PagesGiven`, `ImplementsSpaces` | address spaces share the kernel's half and nothing else, from power-on until memory is full |
| `paging_uncleared` | `PagesGiven`: violated | a new table is cleared in one entry, so pages appear that nobody mapped |
| `heap_chunks` | `HTypeOK`, `ChunksDisjoint`, `NothingLost`, `Coalesced`, `ImplementsBlocks`, `GrowsOnlyWhenNeeded` | malloc and free keep their promise and waste no memory |
| `shell_commands` | `STypeOK`, `CursorOnScreen`, `ParsedAsTyped`, `EchoMatches`, `ShowsFiles` | the line on the screen is the line that is run, and ls and view tell the truth |
| `shell_help` | `HelpIsTrue`: violated | strtok reads a line from where the last one ended |

Ten more configurations are kept beside the runs.  Each checks one property, which
TLC refutes, and is run by hand; section 6 says what it shows:

| configuration | module | property |
|---|---|---|
| `Scheduling_active` | `Scheduling` | `NewProcessActive` |
| `Scheduling_killed` | `Scheduling` | `KilledRunsNoUserCode` |
| `Scheduling_wrap` | `Scheduling` | `DR0OnlyOnSwitch` |
| `PhysMem_exhausted` | `PhysMemHybrid` | `AllocateReturns` |
| `PhysMemInit_beyond` | `MCPhysMemInit` | `FreedIsRAM` |
| `PhysMemInit_endless` | `MCPhysMemInit` | `InitReturns` |
| `PhysMemInit_lost` | `MCPhysMemInit` | `AllRAMFound` |
| `Heap_trim` | `HeapChunks` | `FreeReturns` |
| `Shell_view` | `MCShell` | `ViewIsExact` |
| `Shell_leak` | `MCShell` | `BlocksReleased` |

Bounds.  `MaxPid` = 3 gives the kernel process, the initial program and two
more processes, which may be siblings or parent and child: enough for a parent
that waits for one child while another runs, for a kill in the middle of the
list and for a rotation over blocked processes.  TLC does not reach a killed
parent with a blocked child's child at this size; the theorems cover it.
`EveryoneRuns` also holds without `ForegroundOnce`, at the bounds of the safety
run; that takes TLC twice as long and is not a run of its own.  `Ticks` is the
modulus of `tick`.  Only `tick % 3` matters, so 3 stands for the 2^32 - 1 ticks
before the wrap (500 days at 100 Hz) and 4 for a modulus that is 1 modulo 3, as
2^32 is: the wrap is then four ticks away.  `ContextKept` is a property of the
first kind, and is false in the second: `Scheduling_wrap` shows why.  The
keyboard runs have one user process, a ring of 2 keys (128 in the code) and up to
3 keys, so that the ring fills, wraps and is overrun, and one of them may be NUL;
a ring of 4 in `keyboard_lost` shows that the loss needs no overrun.

The allocator has a stack of 3 and 6 frames, so that there are frames for the
stack only, frame 3 that starts on the stack and returns to the bitmap, and
frames for the bitmap only; every set of free frames is an initial state.
PhysMemInit scales 4 KB pages to 4, 4 GB to 64, bytes to 3 bits, which keeps the
kernel and the stack as large as one page for each bit of a byte.  Its maps are
those of a PC: a region below the kernel, a firmware area, memory behind the
kernel of any length including odd ones and the largest a counter of `Word` values
can reach, a hole that is reported or not, and memory behind `Word`: less than below
the hole, as much, more, and a whole `Word` of it.  All runs of the module have all
of these maps.  `PlainFreedIsRAM` and `PlainInitReturns` speak of those below `Word`
(`PlainMap`), since for the others they fail, as `PhysMemInit_beyond` and
`PhysMemInit_endless` show; `InsideBitmap` and `ReadyForAllocator` hold for all.
Regions that start inside a page are left out.  The list runs
with 4 cells and 2 data values: all four cases of removeNode, equal data, and
reuse of freed cells in every order.

Paging has directories of 6 entries, one for each region of the memory map and
the one that maps the directory itself, so a region is one table and all are
present.  Two processes with images of one or two pages, two pages of user heap
and three of the kernel's, in 27 frames: both processes can be created, grown and
killed, every grown page is a call of mapPage with and without a table, and
memory does run out.  `FirstFrees` lets the allocator begin behind the
kernel's image at two places; with 5, the frames below 4 MB end before the
initialisation does, and it panics.  `Leftover` is an empty frame in
`paging_spaces` and a present entry in `paging_uncleared`, the only difference.

The heap has pages of 10 units and room for two, requests of 2 (the smallest
chunk), 3 and 6: chunks of one unit more than asked for, small and large ones,
splits with and without a rest, growth from an empty top and from one in use, the
limit, and the trim, whose threshold is one page and the foot (2 MB in the code).

The shell's row has 6 columns and its screen 2 rows, so that lines wrap and the
screen scrolls; a line has up to 6 keys with Enter, over a buffer that is never
cleared, and two archives with an empty file, texts that fill their last block
and texts that do not, and two files of one name.  `ParsedAsTyped` leaves out
what follows a line with a space behind its second word (`shell_help` has it),
`EchoMatches` lines that reach the end of the row, tabs, and lines a child has
written into.  `ShowsFiles` says exactly what view prints: behind a text that fills
its last block that is the first character of the next file's name too, which
`ViewIsExact` does not allow.  `Shell_leak` has two files of its own, with 11
characters, the fewest that fill a chunk, and with 10.

`ForegroundOnce` restricts programs to what shell, echo and test do:
makeForeground first, nothing but reads and children afterwards.  Safety is
checked without it.  Runs switch deadlock checking off, since a panic stops the
machine by design.

Fairness.  `EveryoneRuns` assumes only that the timer keeps ticking
(`WF(TimerInterrupt)`): the PIT is programmed in periodic mode and every modelled
point has IF = 1.  The keyboard runs add strong fairness of the steps of the
process itself: it owns the CPU again and again (that is what `EveryoneRuns`
says), and a quantum of three ticks lasts many instructions.  No fairness is
assumed of keys.  `InitReturns` assumes that the boot code keeps running: it is
alone, with interrupts off.  The other modules state safety only: their
operations are calls that return, and nobody waits in them.

## 5. Proofs

`SchedulingProofs` proves, for every `MaxPid`, `Ticks`,
`ForegroundOnce` and set of further points in getInput, under
`SchedulingAssumption` only:

  - `TypeCorrect`, `ListCorrect`, `SwitchTerminates`: `TypeOK`, `ListHoldsLive`,
    `RunnableExists`;
  - `ContextIsCoherent`: CR3 and TSS are those of the current process;
  - `NoKilledProcessResumes`, `BlockedParentsWait`: two action properties;
  - `NoLostWakeup`: `BlockedHasWaker`;
  - `ContextsAreKept`: `ContextKept`, if the counter wraps at a multiple of three
    (`NoWrap`); the hypothesis is needed, as `Scheduling_wrap` shows.

The argument.  `ListHoldsLive` and the type invariant are not inductive: a
switch needs a process to switch to.  `IInv` adds that the kernel process is
alive, never blocked (it is nobody's parent in the sense of makeForeground,
which tests `id > 0`, and runs nothing but its halt loop) and hence always in
the list and runnable; that identifiers below `curr_PID` are exactly those of
created processes; that a saved frame lies on the stack of the process it is
saved for, and that of the kernel process is in its halt loop (so it makes no
system call); and that code before makeForeground runs only in live processes.
Lemmas `RotatedList`, `WithoutNode` and `AppendedList` say what the list
operations do to the set of elements, and `NextExists` that the switch loop
ends.  TLC checks `IInv` too, at the bounds of the safety run.  The context and wake-up
theorems each add one conjunct to `IInv`.

The second part of `SchedulingProofs`, about `KeyboardInput`, proves for every
number of processes (and of readers), size of the ring and number of keys, under
`NoWrap`:

  - `KeyboardImplementsScheduling`: `ImplementsScheduling`, a refinement theorem;
  - `KeyboardKeepsScheduling`: `ListHoldsLive`, `RunnableExists` and
    `ContextKept`, where the last says of getInput's loop that an interrupted
    process continues at the point it had reached;
  - `KeyboardTypeCorrect` and `KeysDeliveredInOrder`: `KTypeOK` and
    `DeliveredInOrder`, under `ReadsApart`;
  - `OneProgramReadsInOrder`: the same for one program, without that hypothesis.

The argument.  `StepOfKeyboard` sorts the steps: each is one of `Scheduling`, or
touches the ring only, or is a `LoopStep` between points of getInput's loop.  The
lemmas of the first part take `IInv` and the context invariant across the
first, `LoopKeeps` across the last.  `KInv` adds that getInput never notes the
kernel process, so that what kb_handler wakes is a `KeyWakes`.  For the refinement
`SeenNext` maps each action (with `SeenInterrupt` for the switch and `SeenGoto`
for the rest) and `SeenLoop` maps a step inside the loop to a stutter, which is
where the context invariant, and so `NoWrap`, is needed.

The order of keys is about one reader among many processes.  `ReadsApart` is a
restriction of the behaviours, not of the constants: no process takes a key while
another is interrupted between two accesses of bufferRead.  The shipped programs
satisfy it but for the time between createChild and makeForeground (the hazard at
Keyboard.c:69), and a single program always does, since the kernel process reads
nothing (`AloneReadsApart`).  Any number of processes may wait for keys meanwhile,
and kb_handler, the timer and the switches strike anywhere.  `RingFits` asks that
the count of keys can count the ring: 128 keys in 16 bits.

The argument.  Between two calls of bufferRead the reader is at one of the program
points of `ReadPoints`, or nobody is; `Stage` is that point.  `RingInv` says at
each stage where r is and what the reader has loaded (`Place`); what the count is
relative to the number of unread keys, one ahead of it from the store of r to the
store of the count, and less by the lost increments, which is why it may fall
short but not run over (`Counts`); that the slots from r on hold the unread keys
as typed (`Filled`); and that what was received, with the key in the reader's
hands, are the keys in front of those (`Given`).  The last two hold until the ring
is overrun.  It is inductive together with the invariant of the scheduler, which
says that the process continues where it was interrupted: one lemma per program
line (`RingFetched`, `RingLoadedR`, ...), one for the whole call behind the
interrupt gate (`RingCalled`), one for each kind of interrupt, and `RingUntouched`
for everything else.  `KeysIs` and `KeysOfNext` say what the recursive function
`Keys` (the typed keys that are no NUL) does with a prefix of its argument.
TLC has checked `RingInv` with one process and with two.

`PhysMemHybridProofs` proves, for every number of frames and size of the stack:

  - `OwnersAreUnique`: `OneOwner`;
  - `HybridImplementsAllocator`: `ImplementsAllocator`, a refinement theorem.

The argument.  The refinement needs that Stack_push never drops a frame.  The
invariant `IInv` says that frames on the stack are distinct, have their bit set
and lie in 1 .. MaxStack (`StackSound`), and that held frames are in neither
structure.  A frame that is given back to the stack is below MaxStack and not on
it, so by the pigeonhole principle the stack has room: lemma `RoomForFrame`.
`PushedStack` and `PoppedStack` say what a push and a pop do to the set of
frames on the stack.

`HeapChunksProofs` proves, for every page size, limit, foot, trim threshold and
set of requests that `HeapAssumption` admits:

  - `ChunksTypeCorrect`: `HTypeOK`, with the minimal size of every chunk;
  - `ChunksNeverOverlap`: `ChunksDisjoint`;
  - `HeapKeepsItsPromise`: `ImplementsBlocks`, a refinement theorem.

The argument.  `HInv`, the conjunction of the first two, is inductive.  Cutting a
chunk is covered by `Pieces` and `CutOff` (both parts lie inside the chunk, and
what was apart from the chunk is apart from them), growth by `GrowthCovers` (the
pages asked for hold the request and the foot), free by `JoinedTouchesNothing`:
what a chunk is joined with were its neighbours, so nothing else lies in between.
The refinement then only needs that a new block is apart from those in use, which
`ChunksDisjoint` says, and `ApartShareNothing` turns intervals into sets of
addresses.

And, under the same assumption:

  - `NoMemoryIsLost`: `NothingLost`;
  - `FreeChunksAreJoined`: `Coalesced`;
  - `BreakMovesWhenNeeded`: `GrowsOnlyWhenNeeded`.

The argument.  `WInv` adds to `HInv` that there is nothing at all while top is
empty (`Untouched`); with it the first two are inductive together.  The four ways
of malloc become two, a free chunk that serves and the low end of top
(`BinServes`, `DvServes`, `TopServes`); for free, `Neighbours` says that there is at
most one piece to join on each side, and that the joined chunk has their outer
borders.  For the third, `NothingIsLargeEnough`: the bins that a request looks at
miss no chunk that is large enough, because a set of chunks has a smallest one.

`PagingProofs` proves, for every width of directories and
tables, size of memory, first frame of the allocator, number of processes, set of
programs and limit of either heap that `PagingAssumption` admits:

  - `PTypeOKHolds`, `KernelSharedHolds`, `IsolationHolds`, `HeapsBackedHolds`,
    `FramesAccountedHolds`, `PagesGivenHolds`: the invariants of `paging_spaces`;
  - `SpacesImplemented`: `ImplementsSpaces`, a refinement theorem;
  - `FramesUnsharedHolds` and `MappingsAreKept`: what `AddressSpaces` promises the
    rest of the kernel, said of the page tables.  No frame is behind two pages and
    none behind a page is free; a mapping, once made, stays as it is.

All of them under one hypothesis, `CleanMemory`: what an unused frame holds does
not look like present entries.  `paging_uncleared` shows that it cannot be left
out, because mapPage clears one entry of a new table.  With it `PagesGiven` holds,
which that run refutes without it: nothing but the leftovers of a frame gives a
program a page it did not ask for.  `PagingAssumption` also asks for memory at
least as large as the window (4 MB): with less, Paging_init maps frames that do
not exist.

The argument.  None of the invariants is inductive, and no two of them together:
what mapPage writes where depends on what the slots of the window show, the slots
are entries of a table that is itself a frame, and each access writes them again.
The first part of the module therefore gives every frame one role (`MInv`): below the
allocator, free, loose (allocated, mapped nowhere), a directory, the window's
table, the table or page x of the kernel's heap, the table of entry e of directory
d, or page x of it.  It says both directions, that what an entry points at has the
role that belongs to the entry, and that a frame with a role is pointed at from
there; so no frame has two places and none is lost.  `MState` hides the roles.
The lemmas go up from the single write: `ToCurrentIs` (after a remap the slot
shows the frame, and only the slot has changed), `GivenPageIs` (what mapPage
changes, when neither the window's table nor the current directory's own two
entries are in its way), `PlacedKeeps` (it keeps the roles, with the new ones),
`FreshPage`, and from there the heaps (`GrownKeeps`), a copied directory
(`CpyDirKeeps`), a process as a whole (`ProcessMade`) and the initialisation,
where with 4 MB pages there is no window yet (`PagingBegins`).  `PagingInv` joins
`MState` for the directories of `Paging` with the breaks; `Good` is what each action
is shown to establish: the invariant again, and a step of `AddressSpaces`.

`PhysMemInitProofs` proves, for every page size, stack, kernel, size of a byte and
of the address space, and any set of memory maps, of which the plain ones
(`PlainMap`) are spoken of:

  - `FreedFramesAreRAM`: `PlainFreedIsRAM`;
  - `BitsStayInside`: `InsideBitmap` for every plain map;
  - `HandsOverToAllocator`: `ReadyForAllocator` for every plain map, if the kernel
    and the stack are large (`StructuresAreLarge`).

A map is plain if its available regions begin at a page below 4 GB, are shorter than
that by a page, and one at address 0 ends before the kernel does; there may be any
number of regions, in any order, of any length, with or without reserved ones
between them, and they may overlap.  That is the map of a PC with less than 4 GB, and the
small, the holed and the full machines of `physmem_init` are plain.  `StructuresAreLarge` asks
for 8 pages, and the kernel begins at page 256; without it the bitmap, whose size is
rounded down to bytes, could lack the bits of frames that the stack is filled with.
Together with `OwnersAreUnique` and `HybridImplementsAllocator`, whose initial states
`HandsOverToAllocator` reaches, the theorems cover the frame allocator from boot on.

The argument.  That a frame found is memory behind the structures follows from one
iteration of the loop (`FoundPage`): it compares the address with the length of the
region, which is less than the region's end by a page or more, or by nothing and
then the region is low memory.  That the bitmap has bits for all of them needs a
count.  The bitmap is as large as all regions together, so `InitInv` has the sums of
their lengths, one for each prefix of the map, and says that the frames counted so
far would fit in the prefix read so far even if those below the structures' end came
first (`Within`).  The frames below the kernel are what keeps the count away from the
end of the bitmap.  The stack is filled from that count downwards and descends from it
(`Descends`), so when it is full the loop has reached frame 1 (`FillStackStacks`):
only then is everything below the start on the stack, as `PhysMemHybrid` expects.

`LinkedListProofs` proves, for any finite set of cells and any data:

  - `ListWellLinked`: `WellLinked`;
  - `ListImplementsSequence`: `ImplementsSequence`, a refinement theorem.

The argument.  The invariant `LInv` says that there is a way, a sequence of
different cells with NULL behind it, whose nodes are the live cells and along
which front, end and both links lead (`Listing`).  `WalkIs` shows that a loop over
the links takes the nodes of the way one by one, and `BackIsWay` that the way back
is one too.  An addition appends a cell; `CutNode` shows that the four cases of
removeNode do one and the same thing to a way, leave a node out, and `CutLists`
that the links lead along what is left.  `AppendIs` and `RemoveIs` translate that
into the operations on sequences, and `ByData` says that the search finds the
first of equal elements.

The loops of the code are recursive functions in the modules.  In `Recursion`,
`RunExists` gives such a function its values one by one and `UpTo` the induction
over them, both from the smallest element of a set of numbers; the proofs about
paging, the initialisation of the allocator, the keyboard, the list and the shell
rest on them.

`ShellProofs` proves, for every size of the screen, archive, set of words and
number of keys that the assumptions of the three modules admit:

  - `TypeCorrect`: `STypeOK`;
  - `CursorStaysOnScreen`: `CursorOnScreen`;
  - `LineIsParsed`: `ParsedAsTyped`;
  - `EchoIsLine`: `EchoMatches`;
  - `FilesAreShown`: `ShowsFiles`, if the archive holds text files (`TextFiles`).

The assumptions: the prompt fits into a row, a column into an unsigned int
(`VGA_WIDTH`), no word is a control character, and an archive is a sequence of
files whose names are not empty.  `TextFiles` asks that no file holds a NUL, where
view ends, and that none has the name of the ram disk itself, `C/`, which VFS_open
would find first; without either, `ShowsFiles` is false.

The argument.  `Inv` is inductive and has four parts.  `Structure` is the types,
with what they depend on: a line is as long as the index of gets says and no
longer than the keys typed, so that the last byte of the buffer is never written
and stays NUL, without which strtok would run out of it; and every child, started
or behind its cls, stands for an Enter.  `Typed` says that the buffer holds the
line while it is typed, and ends behind it once it is run.  `Disk` says that the
list of files is what the walk over the archive gives.  `OnScreen` says that the
cursor is on the screen and its row a row.  `ParsedAsTyped` needs one more,
`Unparsed`: strtok begins at the front of the next line, unless there was a space
behind a second word.  TLC has checked all of these with five keys.

From there the proofs are about functions.  The screen: `PutCharIs` covers every
character, `WrittenIs`, `KeyEchoes` and `BackspaceEchoes` say what a key does to
the row.  The archive: `FlattenRuns` shows where the elements of joined sequences
are (`LaidOut`), `ImageIs` where each file's header and text are in the image,
`HeadersAre` and `CountIs` that the walk, which reads only sizes, finds each header
and stops behind the last; so the list of files is the archive (`AllFilesAre`),
readFile its text (`ByteIs`), and `OutputShows` what ls and view make of that.  The
line: `StrtokIs` says what one call of strtok does to the buffer, `FoundIs` what it
finds in a line, and `Understands` puts two calls together, for lines without a
word, with one and with more, where a word that is alone is the parameter too
unless a space follows (`UnderstoodNone`, `UnderstoodOne`, `UnderstoodMore`).

Only model-checked:

  - what eventually happens, `EveryoneRuns`, `KeysReachReader` and `PlainInitReturns`:
    liveness under fairness is outside of what the prover can do;
  - `InsideBitmap` and `ReadyForAllocator` for memory beyond 4 GB, whose addresses
    lose their upper half: `physmem_init` has such maps, the theorems leave them
    out;
  - the violated properties, which are counterexamples and need no proof.

## 6. Findings

`keyboard_lost`, `paging_uncleared` and `shell_help` are runs that must be violated;
the others are configurations of section 4 that are run by hand, with the same
result.  Each quotes here, and the runs in `findings` of PROJECT.json, the line of
the repository that says otherwise.

Processes and keyboard:

  - `Scheduling_active`: Process.c:238 makes the process that is left ACTIVE, not
    the one that is entered, although the comment on line 237 says "Change Address
    Space and Set New State".  The state BLOCKED that blockProcess set is lost in
    the same way, and it is this that ends the wait in getInput.
  - `Scheduling_killed`: Process_kill ends with a tick, and two ticks of three do
    not switch, so a killed process goes back to user code, in spite of "killme ->
    kills current app" (ramdisk/apps/shell.c:62).
  - `Scheduling_wrap`: at the wrap of `tick` two consecutive ticks call the
    scheduler, and the second may return through the frame of the first
    (aIDT.s:117).
  - `keyboard_lost`: Keyboard.c:67 loses a concurrent increment of the count.

Memory:

  - `PhysMemInit_beyond`, `PhysMemInit_endless`: PhysMem_Hybrid.c:100 keeps 32 bits of a
    region's 64-bit address, and line 101 compares 32 bits with its length.  A region
    behind 4 GB makes the loop free the hole below, which is not memory; a length of
    4 GB is never reached.
  - `PhysMemInit_lost`: the same loop ends at the length of a region instead of its end;
    "See what's free in MultiBoot Header" (line 91) is not what it finds.
  - `PhysMem_exhausted`: PhysMem_allocate panics where Memory.h:49 promises NULL.
  - `paging_uncleared`: a new page table is cleared in one entry
    (VirtMem_Paging.c:204); "Maps a page to a given dir" (line 186).
  - `Heap_trim`: when top exceeds the trim threshold (2 MB), dlfree asks the break to
    shrink, and HeapMem_SBRK.c:55 and :96, tests that end in a semicolon, panic at
    every negative request.

Shell:

  - `shell_help`: strtok's position outlives its string (ramdisk/libs/string.c:7);
    after "a ls " and Enter, ls does nothing.
  - `Shell_view`: viewFile reads a byte more than the file has (shell.c:99), and
    prints it if the text fills its last block: the first character of the next name.
  - `Shell_leak`: readFile writes a zero behind what it was asked for (RamDisk.c:90);
    for files of 11, 19, 27, ... characters it destroys the flags of the next chunk,
    and dlfree (shell.c:105) does not release the buffer.

In the models, with no promise of the repository that they break: the frame lost at
`VirtMem_Paging.c:303` (it is the one frame `FramesAccounted` excepts), the
memory of killed processes, which `FramesAccounted` counts as taken for ever
because freeDir is a comment, the panic of a second kill (`KillAgain`), a backspace
in column 0 that goes to the next line, the block that view of a missing file leaves
(`ramdisk/apps/shell.c:92`, `LeaksBlock`), and `exec` and `view` without a
parameter, which dereference NULL and end in a page fault (`Faults`).

Met while reading and not modelled: two processes foreground at once, two readers
of one ring, mount identifiers that repeat after an unmount (`VFS.c:18`), the missing
upper limit of the user heap (`HeapMem_SBRK.c:81`), an end of interrupt for
software interrupts (`IDT.c:117`), the clock's registers read one by one
(`RTC.c:43`).

## 7. Not modelled

  - Device registers and port I/O (PIC, PIT, PS/2, serial, clock), GDT and IDT
    tables, the content of registers, the translation buffer: nothing here keeps
    state that another component reads.
  - Formatting, logging, wording and colours of what is printed.
  - unmapPage, virt2Phys, VFS_unmount, a second VFS_mount, getFileSize: no code
    that runs calls them (unmapPage only behind the panic of a negative break).
  - gets beyond its buffer: a backspace too many, or 128 keys without Enter.  What
    is overwritten is up to the compiler.
  - echo.c, a loop over gets and putStr that adds no state; in `Scheduling` and
    `KeyboardInput` it is among the programs that make any system call.
  - In malloc.c: the lists and trees of the bins (which chunk of several equal
    ones is taken is left open), mmap, locks, footers, mspaces, realloc, memalign,
    bulk allocation, statistics and their checks.  None of it is compiled in or
    called.
  - `src/src` and `src/include`, which are copies of `packages/` with flattened
    include paths, and `ramdisk/libs/malloc.c`, which differs from the kernel's in
    what it includes only; what is shown of the original holds of the copies.

Counted in lines, the three copies of malloc.c and of malloc.h and the generated
tree are four fifths of the repository, and most of malloc.c is options this build
switches off.  The share of all lines that the modules translate is small for that
reason; of the kernel's own code in `packages/`, every component that keeps state
has a module.
