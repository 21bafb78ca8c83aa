-------------------------------- MODULE Exec --------------------------------
(***************************************************************************)
(* How a program gets its memory and its arguments: the execve system call *)
(* (src/src/isr80h/process.c), the copies between address spaces           *)
(* (src/src/task/task.c), the mapping of image, stack and arguments        *)
(* (src/src/task/process.c) and the start of the program                   *)
(* (src/user_programs/stdlib/src/start.asm).                               *)
(*                                                                         *)
(* Memory is a function from physical addresses to cells; a character, a   *)
(* pointer and an integer take one cell each, and a cell that was never    *)
(* written holds 0.  The heap hands out whole pages, one after the other,  *)
(* from any page on that earlier calls may have left it at; pages that are *)
(* given back are not handed out again here.  The kernel's own page tables *)
(* map every address to itself.                                            *)
(***************************************************************************)
EXTENDS Paging, ElfFile, FiniteSets

CONSTANTS
    Programs,           \* the files, by name: [format, file, phdrs]
    Missing,            \* the name of no file
    Shell,              \* the program the kernel starts
    HeapPages,          \* the pages that the heap may begin at
    ArgLists,           \* the argument vectors that programs make
    MAX_FILE_PATH_CHARS, MAX_CMMD_ARG_LEN, MAX_NUM_ARGS,
    TASK_STACK_VIRT_ADDR, TASK_STACK_SIZE, TASK_LOAD_VIRTUAL_ADDRESS,
    COMMAND_LINE_ARG_VIRTUAL_ADDR,
    MaxTasks,           \* bound: tasks that are loaded
    MaxMallocs,         \* bound: calls of malloc by a task
    HeapLimit           \* bound: the heap page up to which programs make calls

\* A file and its program headers.
Program ==
    [format : {"BINARY", "ELF"}, file : Seq(Nat),
     phdrs  : Seq([p_offset : Nat, p_vaddr : Nat, p_filesz : Nat, p_memsz : Nat,
                   write : BOOLEAN])]

ASSUME ExecAssumption ==
    /\ {MAX_FILE_PATH_CHARS, MAX_CMMD_ARG_LEN, MAX_NUM_ARGS, TASK_STACK_VIRT_ADDR,
        TASK_STACK_SIZE, TASK_LOAD_VIRTUAL_ADDRESS, COMMAND_LINE_ARG_VIRTUAL_ADDR} \subseteq Nat
    /\ HeapPages \subseteq Nat
    /\ \A name \in DOMAIN Programs : Programs[name] \in Program
    /\ Shell \in DOMAIN Programs
    /\ \A args \in ArgLists : args \in Seq(Seq(Nat))
    /\ TASK_STACK_SIZE <= TASK_STACK_VIRT_ADDR
    /\ \A name \in DOMAIN Programs \cup {Missing} :
         name \in Seq(Nat) /\ Len(name) + 6 <= TASK_STACK_SIZE
    /\ MAX_CMMD_ARG_LEN * MAX_NUM_ARGS + MAX_NUM_ARGS <= PAGING_PAGE_SIZE
    /\ MAX_CMMD_ARG_LEN < PAGING_PAGE_SIZE /\ MAX_FILE_PATH_CHARS < PAGING_PAGE_SIZE
    /\ \A args \in ArgLists : Len(args) * MAX_CMMD_ARG_LEN < PAGING_PAGE_SIZE
    /\ \A a \in {TASK_STACK_VIRT_ADDR, TASK_STACK_SIZE, TASK_LOAD_VIRTUAL_ADDRESS,
                 COMMAND_LINE_ARG_VIRTUAL_ADDR} : paging_is_aligned(a)

VARIABLES
    mem,        \* physical memory
    heap,       \* the next free page of the heap
    tasks,      \* the tasks in the order they were loaded; the last one runs
    call        \* the system call in progress, or NoCall

vars == <<mem, heap, tasks, call>>

NoCall  == [step |-> "none"]
User    == {"present", "user"}
UserRW  == {"present", "user", "write"}
current == Len(tasks)

\* What is read at a virtual address, and the string there.
Load(m, pgd, virt) ==
    LET addr == paging_get_physical_address(pgd, virt)
    IN  IF addr \in DOMAIN m THEN m[addr] ELSE 0

String(m, pgd, virt) ==
    LET chars[v \in Nat] ==
          LET c == Load(m, pgd, v) IN IF c = 0 THEN <<>> ELSE <<c>> \o chars[v + 1]
    IN  chars[virt]

\* m with the cells of s from the physical address addr on.
Write(m, addr, s) ==
    LET written == addr..(addr + Len(s) - 1)
    IN  [a \in DOMAIN m \cup written |-> IF a \in written THEN s[a - addr + 1] ELSE m[a]]

\* m with the cells of s from the virtual address virt on.
Store(m, pgd, virt, s) ==
    LET stored[n \in 0..Len(s)] ==
          IF n = 0 THEN m
          ELSE Write(stored[n - 1], paging_get_physical_address(pgd, virt + n - 1), <<s[n]>>)
    IN  stored[Len(s)]

strcpy(m, addr, s) == Write(m, addr, Append(s, 0))

\* The string at a virtual address, or its first max characters.
strncpy(m, pgd, virt, max) ==
    LET char(i) == Load(m, pgd, virt + i - 1)
        len     == CHOOSE n \in 0..max : /\ \A i \in 1..n : char(i) # 0
                                         /\ n < max => char(n + 1) = 0
    IN  [i \in 1..len |-> char(i)]

-----------------------------------------------------------------------------
(* Loading a program.                                                      *)

translate_arg_block_addr_to_userspace_addr(addr, arg_block) ==
    IF addr < arg_block THEN 0 ELSE COMMAND_LINE_ARG_VIRTUAL_ADDR + (addr - arg_block)

\* The pointers come first, then the strings, stride cells apart.
LoadArgs(m, arg_block, argv, stride) ==
    LET loaded[i \in 0..Len(argv)] ==
          LET s == arg_block + MAX_NUM_ARGS + (i - 1) * stride
          IN  IF i = 0 THEN m
              ELSE Write(strcpy(loaded[i - 1], s, argv[i]), arg_block + i - 1,
                         <<translate_arg_block_addr_to_userspace_addr(s, arg_block)>>)
    IN  loaded[Len(argv)]

\* Mutant: no room for the terminator of the longest argument.
load_arg_block_Tight(m, arg_block, argv) == LoadArgs(m, arg_block, argv, MAX_CMMD_ARG_LEN - 1)

load_arg_block(m, arg_block, argv) == LoadArgs(m, arg_block, argv, MAX_CMMD_ARG_LEN)

\* argc goes into the last cell of the stack and argv into the one below.
put_argv_argc_in_stack_mem(m, stack, argc, argv) ==
    Write(m, stack + TASK_STACK_SIZE - 2, <<argv, argc>>)

process_map_task_binary(pgd, image, size) ==
    paging_create_mapping(pgd, TASK_LOAD_VIRTUAL_ADDRESS, image,
                          paging_align_address(image + size), UserRW)

\* A segment is mapped from the page its data begins in up to the end of its
\* size in memory.
process_map_segment(pgd, image, phdr) ==
    LET phys == elf_file_get_segment_phys_addr(image, phdr)
    IN  paging_create_mapping(pgd, paging_align_to_lower_page(phdr.p_vaddr),
          paging_align_to_lower_page(phys), paging_align_address(phys + phdr.p_memsz),
          IF phdr.write THEN UserRW ELSE User)

\* Every program header is mapped; the first that cannot be ends the loop.
process_map_task_elf(pgd, image, phdrs) ==
    LET mapped[i \in 0..Len(phdrs)] ==
          IF i = 0 THEN [ok |-> TRUE, pgd |-> pgd]
          ELSE IF ~mapped[i - 1].ok THEN mapped[i - 1]
          ELSE process_map_segment(mapped[i - 1].pgd, image, phdrs[i])
    IN  mapped[Len(phdrs)]

ArgBlockSize == MAX_CMMD_ARG_LEN * MAX_NUM_ARGS + MAX_NUM_ARGS

\* The stack, the arguments and the image.
process_map_task_memory(pgd, stack, arg_block, image, program) ==
    LET stacked == paging_create_mapping(pgd, TASK_STACK_VIRT_ADDR - TASK_STACK_SIZE, stack,
                     paging_align_address(stack + TASK_STACK_SIZE), UserRW)
        args    == paging_create_mapping(stacked.pgd, COMMAND_LINE_ARG_VIRTUAL_ADDR, arg_block,
                     paging_align_address(arg_block + ArgBlockSize), UserRW)
    IN  CASE ~stacked.ok -> stacked
          [] stacked.ok /\ ~args.ok -> args
          [] stacked.ok /\ args.ok /\ program.format = "ELF" ->
               process_map_task_elf(args.pgd, image, program.phdrs)
          [] stacked.ok /\ args.ok /\ program.format = "BINARY" ->
               process_map_task_binary(args.pgd, image, Len(program.file))

\* The pages of size cells from addr on.
Pages(addr, size) == addr \div PAGING_PAGE_SIZE .. (addr + size - 1) \div PAGING_PAGE_SIZE

\* A program becomes a task that runs from now on.  The heap gives a page for
\* the process structure, the image, the stack, the argument block, and a page
\* for the task and its tables.  own and mallocs are the pages the task was
\* given, passed what its caller passed to it, moved whether a string was in
\* the way of its own copy, seen what main is called with.
process_load_for_slot(name, argv, passed, moved) ==
    LET program   == Programs[name]
        image     == (heap + 1) * PAGING_PAGE_SIZE
        stack     == paging_align_address(image + Len(program.file))
        arg_block == stack + TASK_STACK_SIZE
        mapped    == process_map_task_memory(init_page_tables(User), stack, arg_block,
                                             image, program)
    IN  /\ mapped.ok
        /\ mem' = load_arg_block(
                    put_argv_argc_in_stack_mem(Write(mem, image, program.file), stack,
                                               Len(argv), COMMAND_LINE_ARG_VIRTUAL_ADDR),
                    arg_block, argv)
        /\ heap' = arg_block \div PAGING_PAGE_SIZE + 2
        /\ tasks' = Append(tasks,
             [pgd |-> mapped.pgd, esp |-> TASK_STACK_VIRT_ADDR - 2, program |-> name,
              own |-> Pages(image, Len(program.file)) \cup Pages(stack, TASK_STACK_SIZE)
                        \cup Pages(arg_block, ArgBlockSize),
              mallocs |-> {}, passed |-> passed, moved |-> moved, seen |-> NoCall])

Init ==
    /\ mem = <<>>
    /\ heap \in HeapPages
    /\ tasks = <<>>
    /\ call = NoCall

\* kernel_main starts the shell, without arguments.
process_load ==
    /\ tasks = <<>>
    /\ process_load_for_slot(Shell, <<>>, <<>>, FALSE)
    /\ UNCHANGED call

-----------------------------------------------------------------------------
(* The program that runs.                                                  *)

\* _start passes argc and argv, which it takes from its stack, to main.
_start ==
    LET t    == tasks[current]
        argv == Load(mem, t.pgd, t.esp)
        argc == Load(mem, t.pgd, t.esp + 1)
    IN  /\ tasks # <<>>
        /\ t.seen = NoCall
        /\ tasks' = [tasks EXCEPT ![current].seen =
             [step |-> "main", argc |-> argc, argv |-> argv,
              args |-> [i \in 1..argc |-> String(mem, t.pgd, Load(mem, t.pgd, argv + i - 1))]]]
        /\ UNCHANGED <<mem, heap, call>>

\* The program runs, and there is room in the heap for what it asks for.
InMain ==
    /\ tasks # <<>> /\ call = NoCall
    /\ tasks[current].seen # NoCall
    /\ heap <= HeapLimit

\* malloc of a page gives a page of the heap and maps it to itself.
process_malloc_syscall_handler ==
    LET t == tasks[current]
        p == heap * PAGING_PAGE_SIZE
    IN  /\ InMain
        /\ Cardinality(t.mallocs) < MaxMallocs
        /\ heap' = heap + 1
        /\ tasks' = [tasks EXCEPT
             ![current].pgd     = paging_create_mapping(t.pgd, p, p,
                                    paging_align_address(p + PAGING_PAGE_SIZE), UserRW).pgd,
             ![current].mallocs = @ \cup {heap}]
        /\ UNCHANGED <<mem, call>>

\* execve pushes filename, argv and argc; the name itself is further down.
Frame(t) == t.esp - 3

\* The stack of a program that calls execve, over the memory m.
CallsExecve(m, name, argc, argv) ==
    LET t    == tasks[current]
        file == Frame(t) - Len(name) - 1
        m2   == Store(Store(m, t.pgd, file, Append(name, 0)), t.pgd, Frame(t), <<argc, argv, file>>)
    IN  /\ mem' = m2
        /\ call' = [step   |-> "filename",
                    passed |-> [i \in 1..argc |->
                                  String(m2, t.pgd, Load(m2, t.pgd, argv + i - 1))]]
        /\ UNCHANGED <<heap, tasks>>

\* execve with the arguments that the program got itself.
PassesArgsOn(name) ==
    /\ InMain /\ current < MaxTasks
    /\ CallsExecve(mem, name, tasks[current].seen.argc, tasks[current].seen.argv)

\* A page of malloc, if the program has one, or else the lowest of the stack.
Places ==
    LET given == tasks[current].mallocs
    IN  IF given = {} THEN {TASK_STACK_VIRT_ADDR - TASK_STACK_SIZE}
        ELSE {p * PAGING_PAGE_SIZE : p \in given}

\* m with an argument vector at place, the pointers first and then the strings,
\* one after the other.
ArgVector(m, pgd, args, place) ==
    LET filled[i \in 0..Len(args)] ==
          IF i = 0 THEN [m |-> m, free |-> place + Len(args)]
          ELSE LET acc == filled[i - 1]
               IN  [m    |-> Store(Store(acc.m, pgd, place + i - 1, <<acc.free>>),
                                   pgd, acc.free, Append(args[i], 0)),
                    free |-> acc.free + Len(args[i]) + 1]
    IN  filled[Len(args)].m

\* execve with an argument vector that the program makes at place.
MakesArgs(name, args, place) ==
    /\ InMain /\ current < MaxTasks
    /\ CallsExecve(ArgVector(mem, tasks[current].pgd, args, place), name, Len(args), place)

-----------------------------------------------------------------------------
(* The system call.                                                        *)

\* The outcome of copy_string_from_user_task: a page of the heap is mapped to
\* itself in the tables of the task, for the time of the copy and over
\* whatever was there.  The page is not given back and not read again.
CopyString(pgd, virt, max) ==
    LET tmp    == heap * PAGING_PAGE_SIZE
        mapped == paging_map_range(pgd, tmp, tmp, 1, UserRW).pgd
    IN  [string |-> strncpy(mem, mapped, virt, max),
         pgd    |-> paging_set(mapped, tmp, paging_get_pte(pgd, tmp)).pgd,
         moved  |-> paging_align_to_lower_page(virt) = tmp]

\* Mutant: the page stays mapped.
copy_string_from_user_task_StaysMapped(pgd, virt, max) ==
    LET tmp == heap * PAGING_PAGE_SIZE
    IN  [CopyString(pgd, virt, max) EXCEPT !.pgd = paging_map_range(pgd, tmp, tmp, 1, UserRW).pgd]

copy_string_from_user_task(pgd, virt, max) == CopyString(pgd, virt, max)

task_get_stack_item(t, index) == Load(mem, t.pgd, Frame(t) + index)

\* The arguments of the call and the name of the file.
isr80h_command_6_execve ==
    LET t    == tasks[current]
        copy == copy_string_from_user_task(t.pgd, task_get_stack_item(t, 2), MAX_FILE_PATH_CHARS)
    IN  /\ call.step = "filename"
        /\ heap' = heap + 1
        /\ tasks' = [tasks EXCEPT ![current].pgd = copy.pgd]
        /\ call' = [step   |-> "pointers", passed |-> call.passed, file |-> copy.string,
                    argc   |-> task_get_stack_item(t, 0),
                    argv   |-> task_get_stack_item(t, 1),
                    moved  |-> copy.moved]
        /\ UNCHANGED mem

\* The pointers, to the kernel stack: the place is not aligned to a page, so
\* nothing is remapped and the kernel stack is reached over the direct mapping.
\* Vectors that copy_argv_pointers_from_user_task refuses are not made.
\* Then the kernel allocates the vector and the strings.
copy_argv_pointers_from_user_task ==
    /\ call.step = "pointers"
    /\ call' = [step |-> "strings", passed |-> call.passed, file |-> call.file,
                ptrs |-> [i \in 1..call.argc |->
                            Load(mem, tasks[current].pgd, call.argv + i - 1)],
                strs |-> <<>>, moved |-> call.moved]
    /\ heap' = heap + 1 + call.argc
    /\ UNCHANGED <<mem, tasks>>

\* The next string.
CopiesString ==
    LET t    == tasks[current]
        copy == copy_string_from_user_task(t.pgd, call.ptrs[Len(call.strs) + 1], MAX_CMMD_ARG_LEN)
    IN  /\ call.step = "strings" /\ Len(call.strs) < Len(call.ptrs)
        /\ heap' = heap + 1
        /\ tasks' = [tasks EXCEPT ![current].pgd = copy.pgd]
        /\ call' = [call EXCEPT !.strs = Append(@, copy.string), !.moved = @ \/ copy.moved]
        /\ UNCHANGED mem

Copied == call.step = "strings" /\ Len(call.strs) = Len(call.ptrs)

process_load_with_args ==
    /\ Copied /\ call.file \in DOMAIN Programs
    /\ process_load_for_slot(call.file, call.strs, call.passed, call.moved)
    /\ call' = NoCall

\* The file cannot be read: the caller goes on, and the page of the process
\* structure stays taken.
LoadFails ==
    /\ Copied /\ call.file \notin DOMAIN Programs
    /\ heap' = heap + 1
    /\ call' = NoCall
    /\ UNCHANGED <<mem, tasks>>

Next ==
    \/ process_load
    \/ _start
    \/ process_malloc_syscall_handler
    \/ \E name \in DOMAIN Programs \cup {Missing} : PassesArgsOn(name)
    \/ \E name \in DOMAIN Programs, args \in ArgLists :
         tasks # <<>> /\ \E place \in Places : MakesArgs(name, args, place)
    \/ isr80h_command_6_execve
    \/ copy_argv_pointers_from_user_task
    \/ CopiesString
    \/ process_load_with_args
    \/ LoadFails

Spec == Init /\ [][Next]_vars

-----------------------------------------------------------------------------
(* Properties.                                                             *)

\* The entries of the page tables of a task, by page address.
Entry(t, p) == paging_get_pte(t.pgd, p)

\* Every entry maps to the address of a page, and memory that was written is
\* memory that the heap has given out.
TypeOK ==
    /\ \A i \in 1..Len(tasks), p \in PageAddresses : Entry(tasks[i], p).frame \in PageAddresses
    /\ DOMAIN mem \subseteq 0..(heap * PAGING_PAGE_SIZE - 1)
    /\ call.step \in {"none", "filename", "pointers", "strings"}

Fits(args) ==
    /\ Len(args) <= MAX_NUM_ARGS
    /\ \A i \in 1..Len(args) : Len(args[i]) < MAX_CMMD_ARG_LEN

\* main is called with the arguments that the caller of execve passed, across
\* three address spaces, as long as they fit into the argument block and no
\* page of the kernel's copy was mapped over them (copy_string_from_user_task,
\* load_arg_block, put_argv_argc_in_stack_mem, _start).
MainSeesArgs ==
    \A i \in 1..Len(tasks) :
      LET t == tasks[i]
      IN  t.seen # NoCall /\ Fits(t.passed) /\ ~t.moved
            => t.seen.args = t.passed /\ t.seen.argc = Len(t.passed)

\* The stronger claim of the comment in isr80h_command_6_execve: "argv is now
\* the equivalent of the user space argv".  Of arguments that fit, the strings
\* that the kernel has copied are the ones that the caller passed.
ArgvIsUserArgv ==
    Copied /\ Fits(call.passed) => call.strs = call.passed

\* The frames that a task may write to.
Writable(t) == {Entry(t, p).frame \div PAGING_PAGE_SIZE :
                  p \in {q \in PageAddresses : "write" \in Entry(t, q).flags}}

\* The segments of the program lie within its file.
WithinFile(program) ==
    program.format = "ELF" =>
      \A i \in 1..Len(program.phdrs) :
        program.phdrs[i].p_offset + program.phdrs[i].p_memsz <= Len(program.file)

\* A task can write to no page but the ones that were allocated for its image,
\* stack and arguments or given to it by malloc, and to no page of another
\* task, if its segments need no more memory than the file has
\* (process_map_task_memory, process_malloc_syscall_handler).
WritesOwnPages ==
    \A i \in 1..Len(tasks) :
      LET t == tasks[i]
      IN  WithinFile(Programs[t.program]) =>
            /\ Writable(t) \subseteq t.own \cup t.mallocs
            /\ \A j \in (1..Len(tasks)) \ {i} :
                 Writable(t) \cap (tasks[j].own \cup tasks[j].mallocs) = {}

\* A task that has not run yet finds every cell of its program where the
\* program expects it: the file at the load address, or each segment at its
\* virtual address (process_map_task_elf, process_map_task_binary).
ProgramIsInPlace ==
    \A i \in 1..Len(tasks) :
      LET t       == tasks[i]
          program == Programs[t.program]
          at(v)   == Load(mem, t.pgd, v)
      IN  t.seen = NoCall =>
            IF program.format = "ELF"
            THEN \A k \in 1..Len(program.phdrs) :
                   LET phdr == program.phdrs[k]
                   IN  \A j \in 0..(phdr.p_filesz - 1) :
                         at(phdr.p_vaddr + j) = program.file[phdr.p_offset + j + 1]
            ELSE \A j \in 1..Len(program.file) :
                   at(TASK_LOAD_VIRTUAL_ADDRESS + j - 1) = program.file[j]

\* A system call that copies from a task leaves the address space of the task,
\* and of every other one, as it found it (the entry that is put back at the
\* end of copy_string_from_user_task), whether or not the load succeeds.
CallKeepsTables ==
    [][call # NoCall => \A i \in 1..Len(tasks) : tasks'[i].pgd = tasks[i].pgd]_vars
=============================================================================
