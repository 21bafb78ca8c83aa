------------------------------- MODULE Context -------------------------------
(***************************************************************************)
(* Entering and leaving the kernel: the interrupt stubs (idt/idt.asm),     *)
(* their handlers and the table of system calls (idt/idt.c, isr80h/), the  *)
(* saved registers of a task and the switch to it (task/task.c,            *)
(* task/task.asm), and the interrupt controller as the code programs it.   *)
(*                                                                         *)
(* A value in a register is a tuple that begins with the name of the       *)
(* register it was made for, so that one restored to another register, or  *)
(* from another place of a frame, shows.  Tasks are numbered in the order  *)
(* of the task list.                                                       *)
(***************************************************************************)
EXTENDS Integers, Sequences, Functions

CONSTANTS
    MaxTasks,               \* bound: tasks that are loaded
    Values,                 \* what a program computes
    MAX_ISR80H_COMMANDS,
    CommandIds,             \* what a program has in eax at int 0x80
    Irqs,                   \* lines of the master interrupt controller, IRQ 0 to 7:
                            \* kernel.asm programs no other
    Keyboard                \* the line with a handler

ASSUME ContextAssumption ==
    /\ MaxTasks \in Nat \ {0} /\ Values \subseteq Nat
    /\ MAX_ISR80H_COMMANDS \in Nat /\ MAX_ISR80H_COMMANDS > 7
    /\ CommandIds \subseteq Int /\ Keyboard \in Irqs

Tasks  == 1..MaxTasks
KERNEL == 0                 \* the page tables of the kernel

VARIABLES
    at,         \* where the processor is
    cpu,        \* its registers; cr3: the page tables; seg: ds, es, fs and gs
    stack,      \* the kernel stack, top first
    registers,  \* task->registers
    loaded,     \* tasks in the task list
    ended,      \* terminated tasks
    current,    \* current_task
    raised,     \* interrupts that the controller has not delivered
    serving,    \* delivered ones that it has no acknowledgement for
    left,       \* history: registers of a task when it last was in user mode
    call        \* history: the last system call, while its task runs

vars == <<at, cpu, stack, registers, loaded, ended, current, raised, serving, left, call>>

\* pushad, lowest address first, and what the processor pushes before it.
Pushad    == <<"edi", "esi", "ebp", "unused_esp", "ebx", "edx", "ecx", "eax">>
IretFrame == <<"ip", "cs", "eflags", "esp", "ss">>

\* struct interrupt_frame and struct registers.
interrupt_frame == Pushad \o IretFrame
struct_registers == <<"edi", "esi", "ebp", "ebx", "edx", "ecx", "eax">> \o IretFrame

GeneralPurpose == Range(Pushad) \ {"unused_esp"}
Registers      == Range(struct_registers)

USER_CODE_SEGMENT == <<"cs", 3>>
USER_DATA_SEGMENT == <<"ss", 3>>
KernelSegments    == [cs |-> <<"cs", 0>>, ss |-> <<"ss", 0>>]
KERNEL_STACK_ADDR == <<"esp0">>
Eflags(v, enabled) == <<"eflags", v, enabled>>
InterruptsOn == cpu.reg["eflags"][3]
NoCall == [id |-> -1, task |-> KERNEL, esp |-> <<>>]

\* The registers of a program that has computed v.
UserRegisters(v) ==
    [r \in Registers |-> CASE r = "cs"     -> USER_CODE_SEGMENT
                           [] r = "ss"     -> USER_DATA_SEGMENT
                           [] r = "eflags" -> Eflags(v, TRUE)
                           [] OTHER        -> <<r, v>>]

\* What C code leaves in them.
Clobbered(reg) == [r \in Registers |-> IF r \in GeneralPurpose THEN <<"kernel">>
                                       ELSE IF r = "eflags" THEN Eflags(0, FALSE) ELSE reg[r]]

task_init == UserRegisters(0)

Init ==
    /\ at = "boot"
    /\ cpu = [reg |-> Clobbered([task_init EXCEPT !["cs"] = KernelSegments.cs,
                                                  !["ss"] = KernelSegments.ss,
                                                  !["esp"] = KERNEL_STACK_ADDR]),
              cr3 |-> KERNEL, seg |-> KernelSegments.ss]
    /\ stack = <<>>
    /\ registers = [t \in Tasks |-> task_init]
    /\ loaded = 1 /\ ended = {} /\ current = 1
    /\ raised = {} /\ serving = {}
    /\ left = [t \in Tasks |-> task_init] /\ call = NoCall

-----------------------------------------------------------------------------
(* Into the kernel and back.                                               *)

\* An interrupt in user mode: the processor pushes the return frame, and an
\* error code for some exceptions, on the kernel stack; the stub the rest.
Enter(reg, error) ==
    /\ stack' = [k \in DOMAIN Pushad |-> IF Pushad[k] = "unused_esp" THEN KERNEL_STACK_ADDR
                                         ELSE reg[Pushad[k]]]
                \o error \o [k \in DOMAIN IretFrame |-> reg[IretFrame[k]]]
    /\ cpu' = [cpu EXCEPT !.reg = [reg EXCEPT !["cs"] = KernelSegments.cs,
                                              !["ss"] = KernelSegments.ss,
                                              !["esp"] = KERNEL_STACK_ADDR,
                                              !["eflags"] = Eflags(@[2], FALSE)]]
    /\ left' = [left EXCEPT ![current] = reg]

\* A field of the struct interrupt_frame at the top of the stack.
Field(name) == stack[CHOOSE k \in DOMAIN interrupt_frame : interrupt_frame[k] = name]

\* Mutant: the stack pointer that pushad has pushed.
task_current_save_state_KernelEsp ==
    [registers EXCEPT ![current] =
       [r \in Registers |-> IF r = "esp" THEN Field("unused_esp") ELSE Field(r)]]

task_current_save_state ==
    [registers EXCEPT ![current] = [r \in Registers |-> Field(r)]]

swap_kernel_page_tables ==
    [reg |-> Clobbered(cpu.reg), cr3 |-> KERNEL, seg |-> KernelSegments.ss]

\* Mutant: ds, es, fs and gs stay those of the kernel.
swap_curr_task_page_tables_KeepsSegments == [cpu EXCEPT !.cr3 = current]

swap_curr_task_page_tables == [cpu EXCEPT !.cr3 = current, !.seg = USER_DATA_SEGMENT]

\* Mutant: the place of the stack pointer is not skipped.
popad_NoSkip ==
    [r \in GeneralPurpose |->
       LET k == CHOOSE j \in DOMAIN Pushad : Pushad[j] = r IN stack[IF k > 4 THEN k - 1 ELSE k]]

popad == [r \in GeneralPurpose |-> Field(r)]

\* The registers after iretd with this frame, the others being gp.
iretd(frame, gp) ==
    [r \in Registers |-> IF r \in GeneralPurpose THEN gp[r]
                         ELSE frame[CHOOSE k \in DOMAIN IretFrame : IretFrame[k] = r]]

\* The end of the stubs: back to the process with these general registers.
Leave(gp) ==
    /\ cpu' = [swap_curr_task_page_tables EXCEPT
                 !.reg = iretd(SubSeq(stack, Len(Pushad) + 1, Len(interrupt_frame)), gp)]
    /\ stack' = <<>>
    /\ at' = "user"

\* Loads by offset into struct registers, ebx last: it holds the address.
restore_general_purpose_registers(regs) ==
    LET offset == [edi |-> 0, esi |-> 4, ebp |-> 8, edx |-> 16, ecx |-> 20, eax |-> 24, ebx |-> 12]
    IN  [r \in GeneralPurpose |-> regs[struct_registers[offset[r] \div 4 + 1]]]

\* The kernel's flags, with interrupts on, and the rest from the structure.
task_enter_userland(regs, tables) ==
    LET frame == <<regs["ip"], regs["cs"], Eflags(cpu.reg["eflags"][2], TRUE), regs["esp"], regs["ss"]>>
    IN  [reg |-> iretd(frame, restore_general_purpose_registers(regs)),
         cr3 |-> tables, seg |-> regs["ss"]]

\* iretd faults in the kernel when cs and ss are not selectors.
task_exec(t) ==
    /\ current' = t
    /\ cpu' = task_enter_userland(registers[t], t)
    /\ stack' = <<>>
    /\ call' = NoCall
    /\ at' = IF registers[t]["cs"] = USER_CODE_SEGMENT /\ registers[t]["ss"] = USER_DATA_SEGMENT
             THEN "user" ELSE "fault"

\* Mutant: no way back to the head of the list.
task_get_next_NoWrap == current + 1

task_get_next == IF current = loaded THEN 1 ELSE current + 1

-----------------------------------------------------------------------------
(* The kernel's work.                                                      *)

kernel_main ==
    /\ at = "boot"
    /\ task_exec(1)
    /\ UNCHANGED <<registers, loaded, ended, raised, serving, left>>

\* isr80h_register_commands: the commands, by their numbers.
isr80h_commands ==
    [id \in 0..(MAX_ISR80H_COMMANDS - 1) |->
       CASE id = 0 -> "sum" [] id = 1 -> "print" [] id = 2 -> "get_key" [] id = 3 -> "put_char"
         [] id = 4 -> "malloc" [] id = 5 -> "free" [] id = 6 -> "execve" [] id = 7 -> "exit"
         [] OTHER -> "none"]

Command(id) == IF id \in DOMAIN isr80h_commands THEN isr80h_commands[id] ELSE "none"

\* The start of isr80h_handler.
isr80h_handler ==
    /\ at = "isr80h"
    /\ cpu' = swap_kernel_page_tables
    /\ registers' = task_current_save_state
    /\ at' = "command"
    /\ UNCHANGED <<stack, loaded, ended, current, raised, serving, left, call>>

\* task_get_stack_item: read with the tables of the task at its saved esp.
task_get_stack_item(t) == <<t, registers[t]["esp"]>>

\* What a command that returns to its caller returns: the sum of two stack
\* items, a key, an address, or nothing.
Returned(command, item) ==
    CASE command = "sum"     -> <<"sum">> \o item
      [] command = "get_key" -> <<"key">>
      [] command = "malloc"  -> <<"address">> \o item
      [] OTHER               -> <<"eax", 0>>

\* isr80h_handle_command; execve is here when the load fails.
isr80h_handle_command ==
    /\ at = "command"
    /\ Command(Field("eax")[2]) # "exit"
    /\ cpu' = [cpu EXCEPT !.reg["eax"] =
                 Returned(Command(Field("eax")[2]), task_get_stack_item(current))]
    /\ at' = "result"
    /\ UNCHANGED <<stack, registers, loaded, ended, current, raised, serving, left, call>>

isr80h_command_6_execve ==
    /\ at = "command"
    /\ Command(Field("eax")[2]) = "execve"
    /\ loaded < MaxTasks
    /\ loaded' = loaded + 1
    /\ task_exec(loaded + 1)
    /\ UNCHANGED <<registers, ended, raised, serving, left>>

\* isr80h_command_7_exit, and what the handler of exceptions does.
EndProcess ==
    /\ ended' = ended \cup {current}
    /\ task_exec(task_get_next)
    /\ left' = [left EXCEPT ![current] = task_init]
    /\ UNCHANGED <<registers, loaded, raised, serving>>

isr80h_command_7_exit ==
    at = "command" /\ Command(Field("eax")[2]) = "exit" /\ EndProcess

\* Mutant: popad has the last word on eax.
isr80h_wrapper_NoResult ==
    /\ at = "result"
    /\ Leave(popad)
    /\ UNCHANGED <<registers, loaded, ended, current, raised, serving, left, call>>

\* The end of isr80h_handler and of isr80h_wrapper: eax, with the result, is
\* kept in tmp_res over popad.
isr80h_wrapper ==
    /\ at = "result"
    /\ Leave([popad EXCEPT !["eax"] = cpu.reg["eax"]])
    /\ UNCHANGED <<registers, loaded, ended, current, raised, serving, left, call>>

\* interrupt_handler up to the registered handler: every exception has one,
\* of the interrupt lines the keyboard.
interrupt_handler ==
    /\ at \in {"irq", "exception"}
    /\ cpu' = swap_kernel_page_tables
    /\ registers' = IF at = "exception" \/ Keyboard \in serving THEN task_current_save_state
                    ELSE registers
    /\ at' = IF at = "irq" THEN "handled" ELSE "trapped"
    /\ UNCHANGED <<stack, loaded, ended, current, raised, serving, left, call>>

idt_handle_user_process_exception == at = "trapped" /\ EndProcess

\* Mutant: only a handler's interrupt is acknowledged.
Acknowledged_ByHandler == serving \ {Keyboard}

\* outb(0x20, 0x20) tells the master controller, whose lines Irqs are, that the
\* interrupt is over.  No write to the slave's port follows: one of its lines,
\* IRQ 8 to 15, would stay in service.
Acknowledged == {}

\* The end of interrupt_handler and of the stub.
interrupt_returns ==
    /\ at = "handled"
    /\ serving' = Acknowledged
    /\ Leave(popad)
    /\ UNCHANGED <<registers, loaded, ended, current, raised, left, call>>

-----------------------------------------------------------------------------
(* Programs and devices.                                                   *)

Computes(v) ==
    /\ at = "user"
    /\ cpu' = [cpu EXCEPT !.reg = UserRegisters(v)]
    /\ left' = [left EXCEPT ![current] = UserRegisters(v)]
    /\ call' = NoCall
    /\ UNCHANGED <<at, stack, registers, loaded, ended, current, raised, serving>>

\* int 0x80 with a command in eax.
Int80(id) ==
    /\ at = "user"
    /\ Enter([cpu.reg EXCEPT !["eax"] = <<"eax", id>>], <<>>)
    /\ at' = "isr80h"
    /\ call' = [id |-> id, task |-> current, esp |-> cpu.reg["esp"]]
    /\ UNCHANGED <<registers, loaded, ended, current, raised, serving>>

\* An exception other than the divide error; some push an error code.
Exception(error) ==
    /\ at = "user"
    /\ Enter(cpu.reg, error)
    /\ at' = "exception"
    /\ UNCHANGED <<registers, loaded, ended, current, raised, serving, call>>

\* Vector 0 leads to idt_zero itself, a C function that ends with ret: the
\* program goes on, in kernel mode and with interrupts off.
idt_zero ==
    /\ at = "user"
    /\ cpu' = [cpu EXCEPT !.reg = [Clobbered(@) EXCEPT !["cs"] = KernelSegments.cs,
                                                       !["ss"] = KernelSegments.ss,
                                                       !["esp"] = KERNEL_STACK_ADDR]]
    /\ stack' = <<cpu.reg["cs"], cpu.reg["eflags"], cpu.reg["esp"], cpu.reg["ss"]>>
    /\ left' = [left EXCEPT ![current] = cpu.reg]
    /\ at' = "ring0"
    /\ UNCHANGED <<registers, loaded, ended, current, raised, serving, call>>

Raise(q) ==
    /\ q \notin raised
    /\ raised' = raised \cup {q}
    /\ UNCHANGED <<at, cpu, stack, registers, loaded, ended, current, serving, left, call>>

\* The controller delivers nothing until the last one is acknowledged.
Deliver(q) ==
    /\ at = "user" /\ InterruptsOn
    /\ q \in raised /\ serving = {}
    /\ raised' = raised \ {q} /\ serving' = {q}
    /\ Enter(cpu.reg, <<>>)
    /\ at' = "irq"
    /\ UNCHANGED <<registers, loaded, ended, current, call>>

\* Nothing is claimed of what follows a fault in the kernel, or of a program
\* that runs in kernel mode.
Stopped == at \in {"fault", "ring0"} /\ UNCHANGED vars

KernelStep ==
    \/ kernel_main
    \/ isr80h_handler \/ isr80h_handle_command \/ isr80h_wrapper
    \/ isr80h_command_6_execve \/ isr80h_command_7_exit
    \/ interrupt_handler \/ interrupt_returns
    \/ idt_handle_user_process_exception

Next ==
    \/ KernelStep
    \/ \E v \in Values : Computes(v)
    \/ \E id \in CommandIds : Int80(id)
    \/ \E error \in {<<>>, <<<<"error">>>>} : Exception(error)
    \/ idt_zero
    \/ \E q \in Irqs : Raise(q) \/ Deliver(q)
    \/ Stopped

\* The kernel runs without interruption to its end; the processor takes an
\* interrupt between two instructions, and no line is raised so often that
\* another one never gets its turn (the timer ticks 18 times a second).
Spec ==
    /\ Init /\ [][Next]_vars
    /\ WF_vars(KernelStep)
    /\ \A q \in Irqs : SF_vars(Deliver(q))

-----------------------------------------------------------------------------
(* Properties.                                                             *)

\* Every variable has its type; the current task is in the list, and the
\* kernel stack holds what one entry has pushed.
TypeOK ==
    /\ at \in {"boot", "user", "isr80h", "command", "result", "irq", "exception", "handled",
               "trapped", "fault", "ring0"}
    /\ DOMAIN cpu.reg = Registers /\ cpu.cr3 \in Tasks \cup {KERNEL}
    /\ Len(stack) <= Len(interrupt_frame) + 1
    /\ loaded \in Tasks /\ current \in 1..loaded /\ ended \subseteq 1..loaded
    /\ raised \subseteq Irqs /\ serving \subseteq Irqs

\* A program runs with the page tables and segments of its own task, in ring 3
\* and with interrupts on; commands and handlers run with those of the kernel
\* and with interrupts off.
RightTables ==
    /\ at = "user" =>
         /\ cpu.cr3 = current /\ cpu.seg = USER_DATA_SEGMENT
         /\ cpu.reg["cs"] = USER_CODE_SEGMENT /\ cpu.reg["ss"] = USER_DATA_SEGMENT
         /\ InterruptsOn /\ serving = {}
    /\ at \in {"command", "result", "handled", "trapped"} =>
         cpu.cr3 = KERNEL /\ cpu.seg = KernelSegments.ss /\ ~InterruptsOn

\* A task that was left by a system call, an interrupt or the execve of another
\* one runs on, whenever that is, with the registers it was left with; only
\* eax, the result, and the flags, of which task_enter_userland takes the
\* kernel's, may differ.
ResumesAsLeft ==
    (at = "user" /\ current \notin ended) =>
      \A r \in Registers \ {"eax", "eflags"} : cpu.reg[r] = left[current][r]

\* An interrupt from a device leaves the program it interrupts all of its
\* registers, the flags included, and the processor.
InterruptIsTransparent ==
    [][at = "handled" /\ at' = "user" => cpu'.reg = left[current] /\ current' = current]_vars

\* A program finds in eax what its own system call has returned: computed from
\* its own stack, and 0 for a number that is not that of a command; also
\* when interrupts come before it looks.
SyscallAnswers ==
    (at = "user" /\ call.task = current /\ Command(call.id) \notin {"execve", "exit"}) =>
      cpu.reg["eax"] = Returned(Command(call.id), <<call.task, call.esp>>)

\* An interrupt of the master controller that is raised is delivered, whatever
\* programs do: the kernel comes back to a state with interrupts on and has
\* acknowledged the last one.  Not after idt_zero, nor when iretd is given no
\* selectors.
InterruptsAreServed ==
    \A q \in Irqs : q \in raised ~> (q \notin raised \/ at \in {"fault", "ring0"})
=============================================================================
