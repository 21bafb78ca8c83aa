# A formal model of ConiferOS

TLA+ modules that model the kernel in `src/src/` and the part of
`src/user_programs/` that talks to it, TLC configurations that check them on
small instances, and proofs that the TLAPS proof system checks for every value
of the constants. `PROJECT.json` is the index: which lines each definition
models, which run checks which property, the hazards looked at, and the findings.

## The system

ConiferOS is a 32-bit kernel for one processor. Scheduling is cooperative: a
process runs until it makes a system call that switches tasks, or traps. The
kernel's handlers are reached through interrupt gates (`idt.c:64`) and run with
interrupts off, so each handler is one step for the others.
The keyboard interrupt comes between any two instructions of a process.

| Part | State | Modules |
|---|---|---|
| Kernel heap (`memory/heap`) | table with one byte per 4096-byte block | HeapOps, Heap, HeapCall |
| Paging (`memory/paging`) | two-level page tables of each task | Paging, in Exec |
| Tasks and processes (`task`) | task list, process table, `current_task` | Tasks |
| Loading and arguments (`task`, `isr80h/process.c`) | memory of a process, argument block | Exec |
| User memory (`task/process.c`) | allocations and writable pages of a process | UserMem |
| Interrupts, system calls, context switch (`idt`, `isr80h`, `task.asm`) | registers, kernel stack, saved registers | Context |
| Keyboard (`keyboard`) | circular buffer per process | Keyboard, KeyQueue |
| File system (`fs`, `fs/fat`, `fs/pparser.c`) | descriptor table, volume | Files, Fat16, PathParser |
| Disk (`disk`) | stream position | DiskStream |
| ELF loader (`loader/formats`) | loaded file | ElfFile, in Files and Exec |
| Terminal (`print`) | cursor, frame buffer | Terminal, in Console |
| Shell, user library (`user_programs`) | line buffer, tokens | Console, Stdlib |
| GDT and TSS, boot loader, port I/O | none that changes | not modelled |

The parts interact through the heap, which the kernel and all processes share;
through `current_task` and `current_process`, which every system call and the
keyboard interrupt read; and through loading, which uses the file system, the
ELF loader, the heap, paging and the task list and can fail in each. A key goes
from the interrupt handler through a buffer, a system call and the user
library's loop to the shell, and back through another system call to the screen.

What is hard here: long sequences of allocations and frees; a load that fails
half way; the heap running out; processes that run on after they were
terminated; interrupts between any two steps; three address spaces in one
system call; and sizes and positions at sector, cluster and page boundaries.
The hazards are listed, each at its line, in `PROJECT.json`.

## Modules

Mutants, operators with a plausible bug that TLC must catch, stand next to the
definition they change. Definitions have the names of the functions they model.

**HeapOps** gives what the functions of `heap.c` compute, as operators on a
table. An entry is the set of flags of its byte. Memory below the table is a set
`high` of indices whose byte has bit 7 set, because `kfree(NULL)` starts there.
`BootSignature` is the byte 0x55 of the boot sector, which lies right below the
table in memory and has bit 7 clear.

**Heap** adds clients: `live[b]` is the length of the allocation somebody holds
at block `b`. Clients free what they hold, or NULL. **HeapCall** runs the scan,
marking and freeing loops one iteration per step, from every well-formed table,
and relates the result to HeapOps, which is written without loops, and to what
the comments of `heap.c` promise.

**Tasks** models the task list with its pointers, the process table, loading
with each of its ways to fail, execve, exit, exceptions and the string copy of
print. A process and its task are one identifier. Its memory is three blocks:
`struct` (struct process and argument block), `image` (executable, stack, user
allocations) and `task` (struct task and page tables). `mode` records that the
kernel panicked, or went on with a pointer to no structure (`wild_process`,
`wild_task`), after which nothing is claimed. `StrayBlocks` are the blocks that
`free_page_tables` frees by its wrong address computation.

**UserMem** models the malloc and free system calls with the pages they make
writable, process termination, and the kernel's own use of the heap. As the
handlers do, it takes any size, 0 included, and calls of processes that were
terminated, which Tasks shows to be scheduled again. Two history variables
record what becomes of this: `stale` has the slots whose memory a termination
has given back, since `process_free` leaves the pointers where they are, and
`stray` the slots whose pointer was given to kfree although they hold nothing
and the block is in use by then. A stray free releases memory of others. The
properties hold, after any sequence of calls, up to the first one.

**Keyboard** models the interrupt handler, the buffers and get_key; **KeyQueue**
is the abstract specification, a FIFO queue per process. `unread` is a history
variable: what was typed and not returned.

**DiskStream**, **PathParser** and **Fat16** are the functions of the disk
stream, the path parser and the FAT16 driver as operators on a disk; loops and
recursion are recursive functions. A disk maps positions to cells; a header, a
directory entry, a table entry or a byte of a file takes one cell, so sectors
and clusters have a few cells and every read can start, end or cross at a
boundary. Names are sequences of characters with the padding of the on-disk
fields, since the conversion of names is one of the things that can go wrong.
Operators return the heap allocations that the call leaves behind. **ElfFile**
has the checks and the program headers of an ELF file.

**Files** is the state machine over them: the table of open files, the calls of
`file.c`, and the loading of an executable with its error paths. A volume is a
disk together with the files it was formatted with; the properties compare what
the code returns with those files. `last` is the call and its result.

**Paging** has the page tables as functions; an address is a machine word, so the
tables cover every address. **Exec** puts a program into
memory: image, stack and argument block are written to physical memory and
mapped, `_start` reads its arguments through the page tables, and execve copies
strings from the caller through a page that it maps for the time of the copy. A
character, a pointer and an int take one cell. An execve is several steps, one
for each string. The heap hands out consecutive pages.

**Terminal** is `print.c`, **Stdlib** the string and number functions of the
user library. **Console** composes Keyboard and Terminal with the shell: prompt,
readline with echo and editing, the splitting of the command, execve of echo or
of a program that prints a number, and the return to the shell. `out` has the
bytes of the buffer; `past` records that the byte after it was written, which the
terminator of a full line does.

**Context** models the processor's registers on the way into the kernel and
back: the frame on the kernel stack as a sequence of words read by position, as
`struct interrupt_frame` reads it; the saved registers of a task, read by offset
as `task.asm` does; page tables and segments; dispatch and result of system
calls; exceptions with and without an error code; the interrupt controller,
which delivers nothing until the last interrupt is acknowledged. Its lines are
those of the master controller, IRQ 0 to 7, which is the one that `kernel.asm`
programs and that `interrupt_handler` acknowledges; a line of the slave would
stay in service. A register's
value is its name and a number, so a value in the wrong register is noticed.

## Runs

| Run | Checks | Bounds |
|---|---|---|
| `heap` | the table encodes what clients hold; allocations are disjoint; only allocating and freeing change the table | 7 blocks; sizes of 0, 1, 2 and 3 blocks and one that wraps |
| `heap_call` | malloc's loops take the first run that fits, or fail and change nothing; free's loop clears what HeapOps says | every well-formed table of 5 entries |
| `tasks` | list, table and running task are consistent; a failed execve returns to its caller | 4 processes, 3 slots, 12 blocks |
| `keyboard` | buffers hold the unread characters; KeyQueue is implemented | 2 processes, 3-slot buffers, at most 3 unread |
| `user_mem` | writable pages are the held ones; isolation; no block lost | 2 processes, 2 slots, 4 blocks; user allocations of 0 and 2 blocks, the kernel's of 1; at most one slot that holds nothing (`MaxEmpty`) |
| `files` | open, read and load return what the volume holds; allocations balance; a load closes its file; other open files stay as they are | 5 volumes, 3-cell sectors, 2-sector clusters, 2 descriptors, 15 paths |
| `exec` | main gets the arguments passed to execve; the program is where it expects itself; a task writes to its own pages only; execve leaves the page tables alone | 3 tasks, pages of 12 cells, 2 arguments of 2 characters and vectors that exceed this, 1 malloc |
| `console` | the line is the keys as edited; the screen shows it; the tokens are the words of the line; numbers print in decimal; Enter ends the line | 5 keys of 4 kinds, 3-character lines, 3 rows of 5 columns, 6-bit ints |
| `context` | registers survive system calls, interrupts and switches; page tables and segments are right; results reach their caller; interrupts are served | 2 tasks, 2 interrupt lines, 5 command numbers |

The bounds let the interesting cases happen: the heap fragments and fills, pids
are used again after a termination, buffers wrap and fill, slots run out. In
`files`, reads start and end at every offset of a sector and cluster, one file
has two clusters that are not neighbours, directories nest, and one volume has
deleted entries, full name fields and double names. In `exec`, two segments share
a page, one needs more memory than its file, the heap passes the page of the
arguments, and a task passes on arguments it was given. In `console`, keys come
between any two steps, lines and buffers fill and the screen overflows. In
`user_mem`, TLC does not go on from a state after a stray free, of which nothing
is claimed, or with more than `MaxEmpty` slots that have a pointer and hold
nothing; with one, malloc(0), a free by a process that had ended and a second
exit all happen, and the proofs have no such bound. In
`context`, both tasks run, end, and are resumed in every order.

Fairness. `console` assumes that the running process is not held up for ever
(weak fairness of the shell's and of the child's step): the processor executes
nothing else, and every interrupt returns to it. `context` assumes that the
kernel's code runs on (weak fairness) and that each line is delivered when it is
raised and deliverable again and again (strong fairness): with fixed priorities
this needs the higher line not to be raised without pause, and the timer ticks
18 times a second. The other runs check safety only.

Deadlock is checked in `console` and `context`. The models of calls (`files`,
`exec`) may stop, after a null dereference or when a bound is reached.

Runs that TLC refutes. Each states what a comment says and the code does not do;
`findings` has the quotation.

| Run | Property | What happens |
|---|---|---|
| `tasks_loaded_memory` | LoadedKeepsMemory | a terminated process stays in the task list, although `process.h` says it is unlinked, and its second termination frees another process's memory |
| `files_chain` | FreadReadsChain | the entry of the allocation table is overwritten by a return value, so no read gets past the first cluster |
| `exec_args` | ArgvIsUserArgv | the page of the kernel's copy can be mapped over the arguments that are copied |

Cases in which a comment and the code differ and a property of a passing run
would cover both: the property is stated for what they agree on, and its comment
names the rest.

| Comment | Code | Property |
|---|---|---|
| `heap.c:75`, "enough room for total_blocks blocks", "< 0 on failure" | a request longer than the free run that ends the heap is given that run | MallocMeetsSpec |
| `process.h:138`, process_terminate "unlinks it from the schedulable process list" | the task stays in the list | ListWellFormed |
| `process.c:495`, after a free the process cannot write through ptr | with two slots for one pointer, after malloc(0), the pages stay writable | WritableIsHeld |
| `file.h:172`, a short count at the end of the file | fread does not look at the size | FreadMeetsVolume |
| `elf_file.h:28`, "the end of this range has a lower address than the base" | the end is the higher address | LoadMeetsVolume |
| `coniferos.h:27`, "max is the max length of the out buffer" | the terminator of a full line is written after the buffer | ConsoleTypeOK |
| `string.h:61`, "zero or more nonempty tokens" | two spaces in a row, and one at the end, make an empty token | TokensSplitLine |

More behaviours are in the models without a property of their own: a second
termination clears the table slot of a process with the same pid; the error of
`task_new` passes `task < 0`; after a keyboard buffer overflow get_key returns 0
with characters waiting; a free or an exit of a terminated process releases
blocks of others; a size near 2^32 is given no blocks; a scan code outside the
scan set types its error code; a divide error continues in kernel mode; an
exception with an error code leaves shifted registers, with which the ended task
faults when it is resumed. Where a property of a passing run leaves a case out,
its comment says so and the hazard's note names the case.

## Proofs

All theorems hold for every value of the constants that satisfies the named
assumptions of the modules (`HeapAssumption`, `ClientAssumption`,
`CallAssumption`, `UserMemAssumption`, `TasksAssumption`, `KeyboardAssumption`,
`ContextAssumption`, `PagingAssumption`, `ExecAssumption`): positive sizes,
requests that fit a size_t, and constants of the right type. What two of them
say beyond this, and the hypotheses that some theorems have, are named below.
TLC checked the inductive invariants of Context and Exec, which say more than the
properties of their runs, on the instances of these runs before they were proved.

* **HeapOpsProofs** has the lemmas on the heap table that the other heap proofs
  share: when a table encodes a set of allocations, what marking and freeing do
  to it, and that two allocations over one block would need different IS_FIRST
  flags.
* **HeapProofs**: type correctness, `TableEncodesLive`, `LiveDisjoint`,
  `TableChangesWithLive`. The inductive invariant adds to `TableEncodesLive` that
  the boot signature's bit 7 stays clear; without it `kfree(NULL)` could walk
  into the table.
* **HeapCallProofs**: `MallocMeetsSpec`, `FreeMeetsSpec`, with one loop invariant
  per loop. The invariant has the exact result of the loops (`MallocComputes`),
  the short run at the end of the heap included: it is what Heap and UserMem take
  a call to do in one step (`MallocAsInHeap`), and `MallocMeetsSpec` follows.
* **UserMemProofs**: type correctness, `WritableIsHeld`, `Isolation`,
  `TakenIsHeld`. The three invariants say who holds a block, and the state does
  not record how long an allocation is; the inductive invariant says that some
  assignment of lengths exists that the table encodes and in which each
  allocation belongs to the kernel or to one slot of one process. That the pages
  made writable are the blocks taken is `PagesAreBlocks`: the paging code and the
  heap round a size up in different ways and agree, for sizes that do not wrap.
  The theorems have no hypothesis on sizes or on who calls: slots that hold
  nothing, after malloc(0) or a termination, own no pages and no blocks, and
  freeing their pointer changes the table only if the block is in use, which is
  what `stray` records.
* **TasksProofs**: type correctness, `ListWellFormed`, `CurrentAgrees`,
  `TableMatchesPids`, `FailedExecveReturns`. The inductive invariant has, for
  `ListWellFormed`, that the pointers spell the list of all the processes loaded
  so far (`ListIsHistory`), as the code leaves it: a failed load removes the task
  it has just appended, which is the last one, so the branch of
  `task_list_remove` that leaves `next->prev` stale is never taken.
* **KeyboardProofs**: `BufferHoldsUnread` and the refinement of KeyQueue, if
  `MaxUnread <= KEYBOARD_BUFFER_SIZE`, that is, while no buffer overflows.
* **ContextProofs**: type correctness, `RightTables`, `ResumesAsLeft`,
  `SyscallAnswers`, `InterruptIsTransparent`. The inductive invariant adds what
  the kernel stack holds at each point, namely the frame of the one entry in
  progress, word by word (`Stacked`); who runs on which page tables, segments and
  flags (`Modes`); that the structure of a task that does not run holds the
  registers it was left with (`Saved`); and that the command being served is the
  one the frame shows (`Calls`). The lemmas before it relate the three layouts of
  the registers, on the stack by pushad, in `struct interrupt_frame` and in
  `struct registers`. `ContextAssumption` has the command numbers below
  MAX_ISR80H_COMMANDS, as the code registers them. The invariant was also checked
  with three tasks.
* **ExecProofs**: `WritesOwnPages` and the action property `CallKeepsTables`, for
  any programs, page size, table sizes and addresses. `TablesIn(P)` is the set of
  page tables through which only pages of P can be written; each function of the
  paging code and of the loader is shown to stay in it, up to
  `process_map_task_memory`, which needs the pages of the image, of the stack and
  of the arguments. The inductive invariant is that every task has such tables
  for its own pages, that the heap has given these out, and that no page was
  given to two tasks. It also says that memory holds numbers: the number of
  arguments that execve reads from the caller's stack moves the heap, and page
  numbers would mean nothing otherwise. `CallKeepsTables` holds because the entry
  that `copy_string_from_user_task` puts back is the one it replaced
  (`SetBack`), whichever page the heap gave it. The loops of the code are
  recursive functions in the model; `SetInduction` and `Loop` derive what is
  needed about them from the well-foundedness of the numbers. `ExecAssumption`
  has, as config.h has, a stack that does not begin below address 0, an argument
  block that fits into a page, aligned addresses, and names short enough for the
  stack they are pushed to.

The types of HeapCall and Keyboard are part of the invariants proved there, so
the runs `heap_call` and `keyboard` do not check them again.

Only model-checked:

* `EnterEndsLine` and `InterruptsAreServed` are liveness properties under
  fairness, which the prover does not handle.
* Files with the driver and the loader, and Console. Their properties compare
  what recursive functions of DiskStream, PathParser, Fat16, Terminal and Stdlib
  compute with a reference, for every input; this needs induction over data.
* `MainSeesArgs` of Exec is about strings that are found by a recursive function
  through three address spaces. `ProgramIsInPlace` and `TypeOK` depend on how the
  addresses of image, stack, arguments and heap lie to each other and on the heap
  staying below the end of the address space; the instance fixes both and
  `ExecAssumption` does not.

## Not modelled, and the limits of the models

* The GDT and TSS are constant tables; Context has the selectors they yield. The
  boot loader runs before the kernel and reads a fixed number of sectors. Port
  I/O is single instructions. The kernel's smoke tests, the Rust example and the
  user test programs change nothing that the rest depends on.
* Without a caller: `keyboard_backspace`, `decrement_tail`, `pparser_free`,
  `load_process_stack_memory_with_args`, the section header accessors of the ELF
  parser.
* In Tasks, one block stands for all buffers of an execve, and the case that
  `kmalloc` of the argument array itself fails, whose result execve does not
  test, is left out. Blocks have one size; fragmentation is in Heap and UserMem.
* In Heap, bytes past the end of the table are not tracked when an allocation
  reaches past it; HeapCall records which they are.
* In Keyboard, the processes exist from the start and switches are arbitrary.
* In Files, allocation fails only for the driver's descriptor (`memory`); disk
  errors do not happen, as `disk_read_sector` reports none. Writing is not
  implemented by the code. The copies of the file in elf_file_init and in a
  failed flat load are counted, not placed.
* In Exec, nothing is freed and no task ends; Tasks has that side. A malloc may
  map its page over the arguments, after main has been called with them. Argument
  vectors of 128 entries or more, which leave execve's array unwritten, are not
  made. `free_page_tables` is only in Tasks.
* In Console, the buffers do not overflow, malloc succeeds, arguments arrive as
  they were passed (Exec), the user's strings hold no `%`, and only the shell runs
  programs.
* In Context, memory is not modelled: a stack item is named by the task and the
  stack pointer it is fetched with. The kernel itself raises no exception before
  the first task runs.

## Plan

Proofs: `ProgramIsInPlace`, with an assumption on how the addresses of a program
are arranged; `OpenFilesKeep` and `LoadClosesFile` of Files, which do not depend
on what the driver computes.
