# GuideOS in TLA+

GuideOS is a small x86-64 kernel: two boot loaders, a kernel that sets up
paging, allocators, interrupts, a console and a scheduler, and a shell that
runs as a kernel process.  This directory holds TLA+ models of it, the TLC
configurations that check them on small instances, and TLAPS proofs for every
instance of the properties of the locks, the ring buffer, the scheduler, the
console, the shell and its screen, the trap frames, the kernel stacks, the
linked queues, the page allocator, the heap, the boot loaders and the boot of
the kernel.

`PROJECT.json` lists the components, the runs, the source lines of each
definition, the hazards the properties are about, and the theorems.

## The system and the modules

| Part of the code | Modules |
|---|---|
| boot loaders (`stage1_bootloader`, `stage2_bootloader`) | `Loader` |
| from `kentry` to the first `sti` (`bsp_init.s`, `kmain.c`, `vm.c`, `boot_alloc.c`, `lapic.c`, ...) | `Boot` |
| the two together, from the BIOS to the first interrupt | `PowerOn`, `MCPowerOn` |
| interrupt nesting, panic (`cpu.c`, `helpers.c`) | `Cpu` |
| spin locks (`spinlock.c`, `cpu.c`, `system.c`) | `Spinlock`, abstract `LockSpec`, `SpinlockRefines` |
| scheduler and processes (`sched.c`, `proc.c`) | `Sched` |
| traps, system calls, console input composed with the scheduler (`interrupt.c`, `syscall.c`, `console.c`, `uart.c`) | `Kernel`, `MCKernel` |
| words on the stack (`vector.s`, `trap.s`, `swtch.s`, `proc.c`) | `TrapFrame` |
| ring buffer (`fifo.c`) | `SpscFifo`, abstract `BoundedFifo` |
| linked list (`queue.c`) | `Deque`, abstract `DequeSpec` |
| page allocator (`page_alloc.c`) | `PageAlloc`, abstract `PageSpec` |
| kernel heap (`kmalloc.c`) | `Kmalloc` |
| shell and text screen (`kshell.c`, `console.c`) | `KShell`, `Terminal`, `MCKShell` |
| string functions (`string.c`) | `Strings` |
| formatted output (`kprintf.c`) | `Kprintf`, which extends `Strings`; `MCKprintf` |

How the parts fit together: interrupts and system calls enter through
`handle_interrupt`, whose tail calls `sched_yield` when the current process is
not RUNNING.  `console_getc` sleeps in the scheduler with `console_read_lock`;
the serial interrupt fills the ring buffer under the same lock and wakes the
sleepers.  All of them use `acquire` and `release`, which nest the disabling of
interrupts in per-CPU counters that the scheduler must save and restore across
a switch.  `Kernel` composes these; the other modules look at one data
structure each, at the grain where it can go wrong.

The grains differ on purpose.  `Kernel` treats `acquire` as two steps (entering
with interrupts off; taking the lock) and `release` as one, the ring buffer and
the queues as sequences.  That this is enough is what the finer modules show:
`Spinlock` has one memory access per step and implements `LockSpec`,
`SpscFifo` has one access per step and implements `BoundedFifo`, `Deque` has
the nodes and links and implements the sequences of `DequeSpec`.

### Correspondence, module by module

* **Cpu** has, per CPU, the interrupt flag (`ints`), `int_disable_layer`
  (`layer`), `int_enabled`, the lock it spins for and the panic it stopped
  with; per lock its owner.  `PushIntDisable`, `PopIntDisable`,
  `AcquireEnter`, `AcquireTake` and `Release` are the functions of the same
  names, with their assertions as panics.
* **Sched** has threads (processes, idle processes, the scheduler's own stack
  of each CPU).  `pc[t]` is a label in the kernel's code, `ret[t]` the trap
  frames below it.  `Pick` and `Back` are the two halves of the loop in
  `sched_start` around `sched_ctxsw`; `SwitchOut` and `SwitchedIn` the two
  halves of `sched_switch_out`; `Yield`, `SleepUnlock`, `SleepSwitch`,
  `SleepBack`, `SleepRelease`, `Wakeup` the rest.  The local `intena` lives on
  the process's stack, so it is a variable of the thread.
* **Kernel** adds the local APIC (`irr`, `isr`), the UART's receiver (`rx`), the
  ring buffer, and history variables: the n-th character typed is the number n,
  `got` is what `console_getc` returned.  Shells loop over `console_getc` and
  may echo; workers compute for ever and make any system call.
  `handle_interrupt` is `Deliver`/`Syscall`/`Spurious`, a handler, and
  `HandlerTail`; `int 0x80` goes through a trap gate and leaves interrupts on.
* **Spinlock** runs `acquire`, `release`, `holding`, `disable_interrupt` one
  read or write at a time on several CPUs, with interrupts that take locks of
  their own at any point where the flag allows it.
* **TrapFrame** has the registers of the CPU and the words of each stack.
  Vectors push an error code (or not), a number and the registers; `iretq` pops
  them; `swtch.s` saves the callee-saved registers; a new process starts on the
  frame that `proc_kern_init` and `sched_create_kproc` lay out.  `int 0x80` is a
  trap gate and leaves interrupts on, so the stubs of `vector.s` and the code of
  `trap.s` are modelled an instruction at a time (`Place` counts instructions
  behind a label), and `Raise` may come between any two of them, in the compiled
  handler, and in `sched_start` before it has the lock.  Exceptions are raised by
  programs only.  `trapped` records what each trap interrupted: place, flag,
  registers and stack.
* **SpscFifo**, **Deque**, **PageAlloc**, **Kmalloc**, **Strings** follow the C
  functions of their files; function names are action or operator names.
  Calls that run under one lock from start to end are one step.
* **KShell** models `ksh_read_line` a key at a time, `ksh_split_line` and the
  commands; **Terminal** is `cga_putchar` and what the serial line shows.
* **Loader** counts memory in sectors of 512 bytes; the BIOS, the disk and the
  keyboard controller are external and answer in any way they may.  The loader
  does not wait for the controller after the byte that opens the A20 gate:
  `ControllerDone` is the assumption that it is done before the disk is used, as
  the loader first sets the video mode and prints a text.
* **Boot** follows `kmain` call by call; devices, and the LAPIC with its own
  error interrupt, may raise interrupts at any time.  Physical memory is in pages and maps are numbers of GiB mapped.
  **PowerOn** runs `Loader`, then `Boot` when what the loader jumps to is the
  kernel.
* **Kprintf** follows `_vsnprintf` a directive at a time: flags, width,
  precision and length are read in turn, the argument is converted to the type
  the length names, and `_ntoa_format` adds zeros, prefix and sign to its
  bounded buffer (`Zeros`, `Hash`, `Sign`) before `_out_rev` pads and prints.
  `Emit` is the output function: none, `putchar`, or the caller's buffer.
  Integer types keep a width, a small one.

## Runs

Each run is one question.  `loader_failure` shows a disagreement between the
code and what it says of itself; the others find no error.

| Run | Shows | Instance |
|---|---|---|
| `kernel` | ten invariants and an action property of the composed kernel | 1 CPU, 2 shells, 1 worker, buffer of 2 slots, 2 characters; 441,154 states |
| `kernel_live` | a ready process gets the CPU (`ReadyRuns`); every character typed is read (`TypedIsRead`) | 1 shell, 1 worker, buffer of 3 slots, 2 characters; 54,602 states |
| `spinlock` | mutual exclusion, exact `holding`, flags, refinement of `LockSpec` | 2 CPUs, 2 locks; 682,816 states |
| `spsc_fifo` | no slot race, refinement of a bounded FIFO | 3 slots, 2 byte values |
| `deque` | links stay well formed, refinement of sequences | 2 queues, 4 nodes, 2 items; 296,235 states |
| `page_alloc` | bitmap parity, page accounting, refinement of `PageSpec` | 10 pages, orders 0 to 2, start not aligned; 49,376 states |
| `kmalloc` | tiling, merging, order of the free list, no needless failure | 3 pages of 7 bytes, 3 blocks held; 1,048,553 states |
| `kshell` | screen and line agree, words, stores in bounds | screen of 3 by 4, line of 6, 3 arguments |
| `library` | string functions and `kprintf` against what C says of their names | 5 bytes of memory, machine words of 2, integers of 3 to 8 bits; 897,028 states |
| `power_on` | the whole kernel is in place when it is entered; everything is set up before it is used | the kernel's real sizes, three image ends; sectors scaled down by eight; 4,398 states |
| `loader_failure` | violation: a failed read is not reported | as `power_on`, with fewer sectors |
| `trap_frame` | frames, flags, registers and stacks survive nested traps and switches | a process and the idle process, a trap with and one without error code, the timer, the LAPIC's error, `rsp` aligned and not; 1,340,811 states |

### Bounds

`MaxBytes` bounds the characters typed, `MaxUsed` the heap blocks held, the
`Nodes`, `Pages` and page ranges the memory.  They are chosen so that the cases
of the code occur: the ring buffer of `kernel` overflows with the second
character, so both sides of the full test are reached; two shells sleep at once,
so the wakeup removes several nodes; pages of 7 bytes with headers of 1 split
into up to three blocks and have a size that a fresh page cannot serve; ten
pages starting at 1 have blocks of every order, a range that starts unaligned,
and an end in the middle of the largest block; a line of 6 characters reaches
both bounds of the shell and wraps a screen of 3 columns twice; the wrap
constants of `Strings` and `Loader` stand for 2^64 and 2^32 with the property
that a decrement of zero is far beyond the memory.

`Kprintf` tries one directive, alone or after a plain character.  Its `Values`
are 0, 10, and the smallest value and -1 of the int and long types.  The buffer
of `_ntoa_format` has 5 places, so a long in binary or octal, a wide field or a
long precision fills it.  The caller's buffer has 4, so texts end before, at and
after its end, and counts from 0 up are tried.  All combinations of flags and
lengths are tried with `printf`, some with `snprintf`.

The loader's layout in `power_on` has the proportions of the real one: eight
chunks, stage 2 just below them, the kernel's place at the address with only one
bit set, so that a closed A20 gate folds it to zero.

`CHECK_DEADLOCK FALSE` appears where the program really stops: at a panic, a
halt, an undefined store or the end of a call (`deque`, `kmalloc`, `kshell`,
`library`, `power_on`, `loader_failure`, `trap_frame`), and in `spinlock`, where
CPUs that take two locks in opposite orders wait for each other, as the code
lets its callers do.

### Fairness

`FairSpec` of `Kernel` is used by `kernel_live`.  A CPU with interrupts
off keeps executing (weak fairness of its steps).  The timer keeps ticking
(`lapic_init` makes it periodic).  An interrupt stays latched in the local APIC
until it is delivered, so one that can be delivered again and again is (strong
fairness).  Code that runs with interrupts on makes progress between two ticks,
since the period is far longer than a handler (strong fairness of the steps of
each thread at each depth of traps).  Nothing is assumed of a worker between two
system calls, nor of the idle process: `ReadyRuns` is about them.

## Proofs

All theorems are proved for every value of the constants under the named
assumptions of the modules that declare them, which TLC evaluates in the runs:
distinctness of the model values, sizes that are not zero, and for the boot the
layout the code relies on (below).  A step is proved by Zenon unless it names
another prover.

* **SpinlockProofs**: `IInv` relates, for each place in `acquire`, `release`
  and `holding`, the lock word, the owner field, the nesting count and the
  frames of interrupted code.  Mutual exclusion is not inductive by itself: the
  owner field lags behind the lock word on both sides, and `holding` reads the
  two at different times, so the invariant says which of them a CPU may have
  seen.  From it follows the refinement of `LockSpec`, the atomic locks that the
  kernel model is built on: `cli` is the step that enters `acquire`, the winning
  exchange the one that takes the lock, the store that clears `locked` the one
  that releases it, and every other step is a stutter under the mapping of
  `SpinlockRefines`.  Any number of CPUs and locks.
* **ConsoleProofs**, first part, the ring buffer: `IInv` says that the index an operation has read is still
  right or errs on the safe side (the writer may see a `read` that is too old,
  the reader a `write` that is too old), and that the slots between the indices
  hold bytes.  From it follow the absence of races and the refinement of
  `BoundedFifo`, with the sequence of queued bytes as refinement mapping, for
  every buffer size.
  Second part, the shell and its screen: `ShellInv` says that the cursor is on a
  text row with only blanks from it on (`Screen`), that the cells before it hold
  the prompt and the line as far as they have not scrolled off (`Shows`), and
  that what is run is the split of the line.  `ScreenShowsLine` alone is not
  inductive: a scroll must clear the row it opens also while a command prints, and
  an erasure across the start of a row must find what was typed there.
  `CgaIs` gives the cell by cell effect of `cga_putchar`, `PutsScreen` and
  `EchoKeeps` carry `Screen` through a whole text, `PositionsAre` shows that the
  loop of `ksh_split_line` goes from the start of a word to the start of the
  next.  These are inductions over the text, by the least index at which the
  claim would fail (`Steps`).  Any screen of three rows or more, any limits of the
  line and of the list of words, any letters.
* **KernelProofs**: `IInv` says, for each label, which locks a CPU there holds
  or awaits and whether interrupts may be on (`LockInv`, `FlagInv`); where each
  CPU runs (`PlaceInv`); what the trap frames of a thread may be (`ThreadInv`);
  and that the two queues, the CPUs and `mpmain` partition the processes
  (`QueueInv`).  It is proved first for the steps inside a thread, then for
  those that switch threads or move processes.  Any number of CPUs, processes,
  characters and buffer slots.
  `WakeInv` strengthens `NoLostWakeup` by the window in which the reader has
  decided to sleep and is not yet queued; together with `IInv` it is inductive.
  `NoLostEdge` and `InOrder` are inductive relative to `IInv`.
  `DepthInv` strengthens `StackBounded`.  Two traps deep a thread is in an
  interrupt handler with interrupts off, and what the nesting counters will
  restore is "off" too: on the CPU (`int_enabled`) from taking `sched.lock` in
  the yield of the tail to releasing it, and in `intena` while the thread is
  switched out.  Without the last part a process that comes back could turn
  interrupts on inside the handler.
* **DequeProofs**: `WellLinked` is inductive as it stands.  Every action is
  proved by what it does to one queue: the order of its nodes is extended, loses
  its first or loses the one behind the iterator, and the nodes of the other
  queues, which are apart, keep their cells.  The deletion behind an iterator
  has the cases of the code: first node, last node, one in the middle, the only
  one.  From it follows the refinement: seen through `Contents` and `Cursor`,
  each action is one of `DequeSpec` or a stutter.  Any number of queues, nodes
  and items.
* **KmallocProofs**: `HeapInv` says that the blocks on the free list are apart,
  do not touch and are sorted (`Heap`), that they are apart from the blocks held
  and dropped, that all of them together cover the pages taken, and that the
  last call kept `SmallNeverFails`.  Tiling cannot be proved without merging: a
  block that is cut off, or a page that is added, stays apart from its
  neighbours only because `AddBlock` joins blocks that touch.  The lemmas on
  `MergeWithFront`, `MergeWithBack`, `Insert` and `FindFit` say what each does to
  a list with the property `Heap` and to the bytes it covers.  Any sizes of page,
  header and smallest block with one block to a page at least, any pages.
* **PageAllocProofs**: the theorems have the hypothesis `Cleared`, that the
  bitmaps start at zero (see "What the checks found").  `Inv` says that every bit
  is the parity of its two buddies, that the lists have no repetitions, that the
  blocks listed and held are aligned, apart and make up what was fed, and that
  below the largest order two buddies are never both on a list (`Merged`).  The
  last is in no property and everything rests on it: with it a set bit means
  that the buddy is on the list, so the panic is out of reach and the pages of
  the merged block are free; and since the blocks are as large as they can be, a
  request that finds no list to take from is one for which no aligned run of
  pages is free, as `PageSpec` demands.  `FreeBlockIs` and `FreedSound` say what
  `s_free_block` does up to the order where merging stops; `SplitHolds` that each
  half freed on the way down merges with nothing.  The walk down is
  an induction over the orders, by the least one at which it would fail
  (`Climb`).  Any largest order, any range of pages.
* **TrapFrameProofs**: `Inv` describes every stack from the bottom up: the stack
  a trap interrupted with the processor's frame on it (`Base`), and on that, for
  each instruction of the way in and out, what has been pushed or is still to be
  popped and which registers already hold the program's values (`Spot`, with a
  case for each part of the code: `InEnter` and `InReturn` count the pushes and
  the pops).  Where a trap interrupts a trap, the stack, the place and the
  registers that the second recorded satisfy the same description for the first
  (`Live`), and the place is one where interrupts may be on (`Open`), which bounds
  the nesting.  `Parked` says that the stack of a process that is switched out
  ends in the registers and the return address that `sched_ctxsw` will pop.  All
  this is needed since what iretq brings back lies on a stack, possibly below
  another frame, while handlers write to that stack (`tf->rax`), other processes
  run, and half of the registers may be restored when an interrupt comes.  Any
  processes, any set of vectors.
* **PowerOnProofs**: `LoadInv` follows address line 20 through the keyboard
  controller (`Line20`) and says which sectors are in memory at each place of
  the loop and the copy (`Moved`).  `BootInv` says, for each call of `kmain`,
  which maps exist and what is reached through them (`Mapped`), where the blocks
  of the boot allocator lie and how much room is left for those to come
  (`Allocated`), and what has been initialised (`Prepared`).
  `LoaderAssumption` is the layout of the loaders (the kernel is a whole number
  of chunks, stage 2 lies below what it loads, that below 1 MB);
  `BootAssumption` says that the kernel, its page tables and the bitmaps fit in
  the zone of the boot allocator, and that zone in the first GiB, which `kentry`
  maps.  Any number of sectors, any kernel end, any bitmaps.

The inductive invariants `HeapInv`, `BootInv`, `LoadInv`, `ShellInv` and the two
called `Inv` were also model-checked on the instances of the runs, or smaller ones.

The least element of a set of numbers (`Least` in `KmallocProofs`,
`PageAllocProofs` and `ConsoleProofs`), which `Min` in the model stands for, comes from the library's
theorems on well-founded relations.

Only model-checked:

* the liveness properties: fairness and `ENABLED` are out of the prover's reach;
* `WritesExact` and `ResultsExact` of `Strings`, `PrintsExact` of `Kprintf`.

## What the checks found

`load_sector` of stage 2 loses the carry flag of a failed disk read in
`add sp, 4`; the error message of its caller is unreachable, and the kernel is
entered with what was loaded so far (`loader_failure`).

Noted while modelling, and part of the models:

* The comment at `console.c:24` describes locks that the code does not use:
  reading takes `console_read_lock`, not `console_lock`, and there is no
  `console_fifo_write_lock`.  The locking the code does is sound
  (`SharedGuarded`).
* `pgalloc_init` (`page_alloc.c:55`) relies on the memory of the bitmaps being
  zero.  On memory that is not, the first frees stop at "has buddy but can't
  find it???".  `page_alloc` therefore sets the constant `Cleared`, and the
  theorems assume it; an emulator's memory is zero.
* `lapic_init` lets the LAPIC's error interrupt through (`lapic.c:90`, vector 51)
  and `handle_interrupt` has no case for it: should the LAPIC detect an error, the
  kernel stops with "unhandled 51".  `InterruptsAreExpected` names it among the
  interrupts that may be waiting at the first `sti`.
* A panic before `lapic_init` (`lapic.c:67`) and `cpu_bsp_init` cannot print:
  printing takes a lock, and a lock asks for the current CPU.  These are the
  "silent" ends of `Boot`.
* The terminator of a full line and the argument array of the shell are written
  past their ends (`InBounds` says that nothing else is).
* `strncpy` does not stop when the source fills the destination (`WritesExact`
  says that no other function does so).
* `kprintf` differs from C for a negative precision, for zeros by precision in a
  left-justified field, for numbers longer than its buffer, and for `#` in the
  cases `Ordinary` lists; `PrintsExact` holds it to C everywhere else.
* `dequeue_push_front` on an empty queue never returns; nodes removed through an
  iterator are not freed unless they were the only one.
* `kmalloc` takes a page and still refuses sizes within `MIN_BLOCK_SIZE` of a
  page, except the largest; `krealloc` does not look at a failed allocation.

## Not modelled

* Words below `rsp`.  The build (`kernel/CMakeLists.txt`) does not say
  `-mno-red-zone`, and interrupts are taken on the stack that is in use, so what a
  compiled leaf function keeps below `rsp` would be overwritten by the
  processor's frame.  Whether there are such words is the compiler's choice;
  `TrapIsTransparent` is about the words up to `rsp`.
* `kmalloc`'s panic without memory, behind `dequeue_push_back`, in the composed
  kernel, and there the vectors without a case: `NoKernelPanic` is about the
  assertions of the scheduler and of the locks, and the console buffer.
* More than one running CPU in the composed kernel.  The code starts only the
  boot CPU (`ncpu` is 1).  `sched_sleep` and `sched_wakeup` take
  `console_read_lock` and `sched.lock` in opposite orders, which is harmless on
  one CPU with interrupts off.  The proofs of safety hold for several.
* Floating-point conversions of `kprintf.c`, which the build leaves out, and
  `sprintf_`, which is `snprintf_` without a bound.
* User mode: no code enters it; `tss_setup` is never called.
* `systick.c`: an atomic counter; `spin_sleep` has no caller.
* `instructions.h`, `multiboot.s`, the linker scripts and `gen_vector.py`:
  single instructions, constants and build inputs.
* The transmitter of the UART is taken to become ready; a character that arrives
  between `uart_init` and `ioapic_unmask` is not modelled, since what becomes of
  its edge depends on the device.
* Memory ordering weaker than sequential consistency: x86 keeps the order of the
  stores and of the loads involved, and the lock uses an exchange.
