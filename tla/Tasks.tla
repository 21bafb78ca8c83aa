-------------------------------- MODULE Tasks --------------------------------
(***************************************************************************)
(* Processes and their tasks: the task list (task/task.c), the process     *)
(* table and loading (task/process.c), the execve, exit and print system   *)
(* calls (isr80h/) and CPU exceptions (idt/idt.c).  Scheduling is          *)
(* cooperative: a task runs until it calls execve or exit or traps, and    *)
(* the kernel handles each of these with interrupts off, in one step.      *)
(*                                                                         *)
(* A process and the one task it owns are one identifier.  Kernel heap     *)
(* memory is what its owners can tell apart: a process needs one block for *)
(* struct process and its argument block, one for the executable and the   *)
(* stack, one for struct task and the page tables.  kzalloc takes the      *)
(* lowest free block and fails when there is none.                         *)
(***************************************************************************)
EXTENDS Integers, Sequences, FiniteSets

CONSTANTS
  Tasks,         \* identifiers of processes
  NULL,
  MAX_PROCESSES,
  HeapBlocks,    \* blocks of the kernel heap, numbered from 1
  StrayBlocks    \* blocks at the addresses free_page_tables computes

ASSUME TasksAssumption ==
  /\ NULL \notin Tasks
  /\ MAX_PROCESSES \in Nat \ {0}
  /\ HeapBlocks \in Nat
  /\ StrayBlocks \subseteq 1 .. HeapBlocks

VARIABLES
  tl,               \* task_list_head, task_list_tail, current_task, and the
                    \* next and prev fields of every struct task
  current_process,
  processes,        \* the process table
  pid,              \* process->pid
  status,           \* "unused", "loaded", or "terminated"
  taken,            \* heap blocks that are taken
  block,            \* block[p]: the blocks process p was given
  mode,             \* "boot", "user", "panic", or "wild_process" or "wild_task":
                    \* the kernel went on with a pointer to no structure
  list              \* history: the tasks in the list, in order

vars == <<tl, current_process, processes, pid, status, taken, block, mode, list>>

Pids == 0 .. MAX_PROCESSES - 1
MaybeTask == Tasks \cup {NULL}
Mem == 1 .. HeapBlocks

\* The parts of a process that come from the heap.  process_free gives back
\* only "image": the executable, the stack and the process's allocations.
Parts == {"struct", "image", "task"}
NoBlocks == [x \in Parts |-> 0]

TypeOK ==
  /\ tl \in [head : MaybeTask, tail : MaybeTask, current : MaybeTask,
             next : [Tasks -> MaybeTask], prev : [Tasks -> MaybeTask]]
  /\ current_process \in MaybeTask
  /\ processes \in [Pids -> MaybeTask]
  /\ pid \in [Tasks -> Pids]
  /\ status \in [Tasks -> {"unused", "loaded", "terminated"}]
  /\ taken \subseteq Mem
  /\ block \in [Tasks -> [Parts -> Mem \cup {0}]]
  /\ mode \in {"boot", "user", "panic", "wild_process", "wild_task"}
  /\ list \in Seq(Tasks)

Init ==
  /\ tl = [head |-> NULL, tail |-> NULL, current |-> NULL,
           next |-> [t \in Tasks |-> NULL], prev |-> [t \in Tasks |-> NULL]]
  /\ current_process = NULL
  /\ processes = [i \in Pids |-> NULL]
  /\ pid = [t \in Tasks |-> 0]
  /\ status = [t \in Tasks |-> "unused"]
  /\ taken = {}
  /\ block = [t \in Tasks |-> NoBlocks]
  /\ mode = "boot"
  /\ list = <<>>

-----------------------------------------------------------------------------
(* The task list.                                                          *)

task_get_next(l) ==
  IF l.next[l.current] = NULL THEN l.head ELSE l.next[l.current]

\* Mutant: the new task does not point back.
task_new_NoPrev(l, t) ==
  LET c == [l EXCEPT !.next[t] = NULL, !.prev[t] = NULL] IN
  IF l.head = NULL
  THEN [c EXCEPT !.head = t, !.tail = t, !.current = t]
  ELSE [c EXCEPT !.next[l.tail] = t, !.tail = t]

\* task_init clears the structure; task_new appends it.
task_new(l, t) ==
  LET c == [l EXCEPT !.next[t] = NULL, !.prev[t] = NULL] IN
  IF l.head = NULL
  THEN [c EXCEPT !.head = t, !.tail = t, !.current = t]
  ELSE [c EXCEPT !.next[l.tail] = t, !.prev[t] = l.tail, !.tail = t]

\* The branch for a task in the middle leaves next->prev as it is.
Unlink(l, t) ==
  IF t = l.head /\ t = l.tail
  THEN [l EXCEPT !.head = NULL, !.tail = NULL, !.current = NULL]
  ELSE IF t = l.head
  THEN [l EXCEPT !.head = l.next[t], !.prev[l.next[t]] = NULL]
  ELSE IF t = l.tail
  THEN [l EXCEPT !.tail = l.prev[t], !.next[l.prev[t]] = NULL]
  ELSE [l EXCEPT !.next[l.prev[t]] = l.next[t]]

\* Mutant: the running task changes whatever task is removed.
task_list_remove_Advances(l, t) ==
  LET u == Unlink(l, t) IN
  IF u.current = NULL THEN u ELSE [u EXCEPT !.current = task_get_next(u)]

task_list_remove(l, t) ==
  LET u == Unlink(l, t) IN
  IF t = u.current THEN [u EXCEPT !.current = task_get_next(u)] ELSE u

-----------------------------------------------------------------------------
(* Loading a process.                                                      *)

kzalloc(m, b) == b \in Mem \ m /\ \A c \in Mem \ m : b <= c
NoMemory(m) == Mem \subseteq m

process_get_free_slot(n) ==
  /\ n \in Pids
  /\ processes[n] = NULL
  /\ \A j \in 0 .. n - 1 : processes[j] # NULL
NoFreeSlot == \A i \in Pids : processes[i] # NULL

\* No slot is free; or the file cannot be opened or parsed, or there is no
\* memory for the image: what was allocated of the image is given back and
\* struct process is not; or fread fails and its buffer is lost as well.
LoadFails(m) ==
  /\ \/ NoFreeSlot /\ taken' = m
     \/ /\ ~NoFreeSlot
        /\ \E s \in Mem : /\ kzalloc(m, s)
                          /\ \/ taken' = m \cup {s}
                             \/ \E i \in Mem : /\ kzalloc(m \cup {s}, i)
                                               /\ taken' = m \cup {s, i}
  /\ UNCHANGED <<tl, current_process, processes, pid, status, block, list>>

\* kzalloc(sizeof(struct process)) fails and process_free(NULL) follows.
LoadFreesNull(m) ==
  /\ ~NoFreeSlot
  /\ NoMemory(m)
  /\ taken' = m
  /\ mode' = "wild_process"
  /\ UNCHANGED <<tl, current_process, processes, pid, status, block, list>>

\* No memory is left for the task.  The result of task_new, ERROR(-ENOMEM) or
\* ERROR(-1), passes the test task < 0 because a pointer is never negative.
LoadMissesTaskError(m) ==
  /\ ~NoFreeSlot
  /\ \E s, i \in Mem : /\ kzalloc(m, s)
                       /\ kzalloc(m \cup {s}, i)
                       /\ NoMemory(m \cup {s, i})
                       /\ taken' = m \cup {s, i}
  /\ mode' = "wild_task"
  /\ UNCHANGED <<tl, current_process, processes, pid, status, block, list>>

Allocates(m, s, i, k) ==
  kzalloc(m, s) /\ kzalloc(m \cup {s}, i) /\ kzalloc(m \cup {s, i}, k)

\* process_map_task_memory fails: task_free takes the new task off the list.
\* free_page_tables computes the addresses of the page tables with * in place
\* of &, so the tables stay taken and blocks at other addresses are freed.
MapFails(m, p) ==
  /\ ~NoFreeSlot
  /\ status[p] = "unused"
  /\ \E s, i, k \in Mem :
       /\ Allocates(m, s, i, k)
       /\ taken' = ((m \cup {s, i, k}) \ StrayBlocks) \ {i}
  /\ tl' = task_list_remove(task_new(tl, p), p)
  /\ UNCHANGED <<current_process, processes, pid, status, block, list>>

\* The load succeeds and the caller executes task t.
LoadSucceeds(m, p, t) ==
  /\ status[p] = "unused"
  /\ \E n \in Pids : /\ process_get_free_slot(n)
                     /\ pid' = [pid EXCEPT ![p] = n]
                     /\ processes' = [processes EXCEPT ![n] = p]
  /\ \E s, i, k \in Mem :
       /\ Allocates(m, s, i, k)
       /\ taken' = m \cup {s, i, k}
       /\ block' = [block EXCEPT ![p] = [struct |-> s, image |-> i, task |-> k]]
  /\ status' = [status EXCEPT ![p] = "loaded"]
  /\ list' = Append(list, p)
  /\ tl' = [task_new(tl, p) EXCEPT !.current = t]
  /\ current_process' = t
  /\ mode' = "user"

-----------------------------------------------------------------------------
(* What starts the kernel and what the running task does.                  *)

\* kernel_main loads the shell and executes the head of the task list.
BootRuns ==
  mode = "boot" /\ \E p \in Tasks : LoadSucceeds(taken, p, task_new(tl, p).head)
BootPanics ==
  /\ mode = "boot"
  /\ LoadFails(taken) \/ \E p \in Tasks : MapFails(taken, p)
  /\ mode' = "panic"

\* Mutant: the block after the one that was found is marked.
copy_string_from_user_task_NextBlock ==
  taken \cup {a + 1 : a \in {b \in Mem : kzalloc(taken, b)}}

\* The heap after a string of the process was copied through a buffer that is
\* never given back.  The callers go on when there was no memory for it.  For
\* execve one block stands for the buffers of the file name and the arguments.
copy_string_from_user_task == taken \cup {a \in Mem : kzalloc(taken, a)}

execve ==
  mode = "user" /\ \E p \in Tasks : LoadSucceeds(copy_string_from_user_task, p, p)
execve_fails ==
  /\ mode = "user"
  /\ \/ LoadFails(copy_string_from_user_task)
     \/ \E p \in Tasks : MapFails(copy_string_from_user_task, p)
  /\ mode' = mode
execve_goes_wild ==
  /\ mode = "user"
  /\ \/ LoadFreesNull(copy_string_from_user_task)
     \/ LoadMissesTaskError(copy_string_from_user_task)

\* Mutant: the slot of a terminated process is not cleared.
process_terminate_KeepsSlot(p) ==
  /\ taken' = taken \ {block[p]["image"]}
  /\ status' = [status EXCEPT ![p] = "terminated"]
  /\ UNCHANGED processes

\* process_free gives back the image; the pointers to it stay in the
\* structure.  The task stays in the task list.
process_terminate(p) ==
  /\ taken' = taken \ {block[p]["image"]}
  /\ processes' = [processes EXCEPT ![pid[p]] = NULL]
  /\ status' = [status EXCEPT ![p] = "terminated"]

\* Mutant: current_process is not set.
task_exec_TaskOnly(t) ==
  /\ tl' = [tl EXCEPT !.current = t]
  /\ UNCHANGED current_process

task_exec(t) ==
  /\ tl' = [tl EXCEPT !.current = t]
  /\ current_process' = t

isr80h_command_1_print ==
  /\ mode = "user"
  /\ taken' = copy_string_from_user_task
  /\ UNCHANGED <<tl, current_process, processes, pid, status, block, mode, list>>

EndCurrentProcess ==
  /\ process_terminate(current_process)
  /\ task_exec(task_get_next(tl))
  /\ UNCHANGED <<pid, block, mode, list>>

\* A CPU exception is handled as the exit system call is.
exit == mode = "user" /\ EndCurrentProcess
idt_handle_user_process_exception == mode = "user" /\ EndCurrentProcess

\* panic loops for ever; nothing is claimed of what follows a wild pointer.
Stopped == mode \in {"panic", "wild_process", "wild_task"} /\ UNCHANGED vars

Next ==
  \/ BootRuns \/ BootPanics
  \/ execve \/ execve_fails \/ execve_goes_wild
  \/ isr80h_command_1_print
  \/ exit \/ idt_handle_user_process_exception
  \/ Stopped

Spec == Init /\ [][Next]_vars

-----------------------------------------------------------------------------
(* Properties.                                                             *)

\* The head, tail, next and prev pointers of task.c form one doubly linked
\* list, in the order of loading.  The task of every loaded process is in it,
\* and a failed load leaves no trace in it.  Whether it holds a terminated task
\* is left open: process.h says that process_terminate "unlinks it from the
\* schedulable process list", and process.c never takes it out.
ListWellFormed ==
  \E linked \in SUBSET DOMAIN list :
    /\ \A t \in Tasks : status[t] = "loaded" => \E k \in linked : list[k] = t
    /\ \A k \in linked : status[list[k]] # "unused"
    /\ \A j, k \in linked : list[j] = list[k] => j = k
    /\ linked = {} => tl.head = NULL /\ tl.tail = NULL
    /\ \A k \in linked :
         /\ (\A j \in linked : k <= j) => tl.head = list[k] /\ tl.prev[list[k]] = NULL
         /\ (\A j \in linked : j <= k) => tl.tail = list[k] /\ tl.next[list[k]] = NULL
    /\ \A j, k \in linked :
         j < k /\ (\A m \in linked : m <= j \/ k <= m) =>
           tl.next[list[j]] = list[k] /\ tl.prev[list[k]] = list[j]

\* Outside the kernel, current_task is in the task list and current_process,
\* which task_exec sets separately, is the process of current_task.
CurrentAgrees ==
  mode \in {"user", "wild_process", "wild_task"} =>
    /\ tl.current = current_process
    /\ \E k \in DOMAIN list : list[k] = current_process

\* Every process in the process table is loaded and is at the index its pid
\* gives (process.c: "Each index corresponds to a process's pid"), also after
\* a terminated process has run on and exited again with a pid that was
\* given to another process.
TableMatchesPids ==
  \A n \in Pids : processes[n] # NULL => /\ pid[processes[n]] = n
                                         /\ status[processes[n]] = "loaded"

\* An execve that fails, at whatever point, returns to its caller: a step of
\* a loaded process that neither ends it nor loads another leaves the process
\* table, the ends of the task list and the running task as they were, the
\* load that had already put its task in the list included.
FailedExecveReturns ==
  [][mode = "user" /\ list' = list
     /\ status[current_process] = "loaded" /\ status'[current_process] = "loaded" =>
       /\ processes' = processes
       /\ tl'.head = tl.head /\ tl'.tail = tl.tail
       /\ tl'.current = tl.current /\ current_process' = current_process]_vars

-----------------------------------------------------------------------------
(* What the comments say and the code does not do.                         *)

\* process.c on process_free: "Free the kernel heap memory allocated for and
\* by the process", hence not the memory of another loaded process.
LoadedKeepsMemory ==
  \A p \in Tasks, x \in Parts : status[p] = "loaded" => block[p][x] \in taken
=============================================================================
