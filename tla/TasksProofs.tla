---------------------------- MODULE TasksProofs ----------------------------
(***************************************************************************)
(* Proofs about module Tasks, for every number of processes, slots and     *)
(* heap blocks.                                                            *)
(***************************************************************************)
EXTENDS Tasks, TLAPS

TaskList == [head : MaybeTask, tail : MaybeTask, current : MaybeTask,
             next : [Tasks -> MaybeTask], prev : [Tasks -> MaybeTask]]

\* The list as process.c leaves it: the pointers spell the history variable
\* `list`, in which the tasks of all the processes loaded so far stay.
ListIsHistory ==
  /\ \A t \in Tasks : status[t] # "unused" <=> \E k \in DOMAIN list : list[k] = t
  /\ \A j, k \in DOMAIN list : list[j] = list[k] => j = k
  /\ tl.head = IF list = <<>> THEN NULL ELSE list[1]
  /\ tl.tail = IF list = <<>> THEN NULL ELSE list[Len(list)]
  /\ \A k \in DOMAIN list :
       /\ tl.next[list[k]] = IF k = Len(list) THEN NULL ELSE list[k + 1]
       /\ tl.prev[list[k]] = IF k = 1 THEN NULL ELSE list[k - 1]

\* The inductive invariant.
TasksInv == TypeOK /\ ListIsHistory /\ CurrentAgrees /\ TableMatchesPids

\* What task_new does to the list, field by field.
LEMMA NewTaskFields ==
  ASSUME TypeOK, ListIsHistory, NEW p \in Tasks, status[p] = "unused"
  PROVE  LET l == task_new(tl, p) IN
         /\ l \in TaskList
         /\ l.head = IF list = <<>> THEN p ELSE tl.head
         /\ l.tail = p
         /\ l.next[p] = NULL
         /\ l.prev[p] = IF list = <<>> THEN NULL ELSE tl.tail
         /\ \A q \in Tasks \ {p} :
              /\ l.next[q] = IF list # <<>> /\ q = tl.tail THEN p ELSE tl.next[q]
              /\ l.prev[q] = tl.prev[q]
         /\ list # <<>> => l.current = tl.current /\ tl.tail \in Tasks \ {p} /\ tl.head \in Tasks \ {p}
<1> DEFINE l == task_new(tl, p)
<1> tl \in TaskList
  BY DEF TypeOK, TaskList
<1>1. CASE list = <<>>
  <2>1. tl.head = NULL
    BY <1>1 DEF ListIsHistory
  <2>2. l = [head |-> p, tail |-> p, current |-> p,
             next |-> [tl.next EXCEPT ![p] = NULL], prev |-> [tl.prev EXCEPT ![p] = NULL]]
    BY <2>1 DEF task_new, TaskList
  <2> QED
    BY <1>1, <2>2 DEF TaskList, MaybeTask
<1>2. CASE list # <<>>
  <2>1. 1 \in DOMAIN list /\ Len(list) \in DOMAIN list /\ list[1] \in Tasks /\ list[Len(list)] \in Tasks
    BY <1>2 DEF TypeOK
  <2>2. tl.head \in Tasks \ {p} /\ tl.tail \in Tasks \ {p} /\ tl.head # NULL
    BY <1>2, <2>1, TasksAssumption DEF ListIsHistory
  <2>3. l = [head |-> tl.head, tail |-> p, current |-> tl.current,
             next |-> [tl.next EXCEPT ![p] = NULL, ![tl.tail] = p],
             prev |-> [tl.prev EXCEPT ![p] = tl.tail]]
    BY <2>2 DEF task_new, TaskList
  <2> QED
    BY <1>2, <2>2, <2>3 DEF TaskList, MaybeTask
<1> QED
  BY <1>1, <1>2

\* Removing the task that was just appended restores the list.
LEMMA RemoveUndoesNew ==
  ASSUME TypeOK, ListIsHistory, NEW p \in Tasks, status[p] = "unused"
  PROVE  LET u == task_list_remove(task_new(tl, p), p) IN
         /\ u \in TaskList
         /\ u.head = tl.head
         /\ u.tail = tl.tail
         /\ \A q \in Tasks \ {p} : u.next[q] = tl.next[q] /\ u.prev[q] = tl.prev[q]
         /\ list # <<>> /\ tl.current # p => u.current = tl.current
<1> DEFINE l == task_new(tl, p)
           v == Unlink(l, p)
<1>1. /\ tl \in TaskList
      /\ l \in TaskList
      /\ l.head = IF list = <<>> THEN p ELSE tl.head
      /\ l.tail = p
      /\ l.next[p] = NULL
      /\ l.prev[p] = IF list = <<>> THEN NULL ELSE tl.tail
      /\ \A q \in Tasks \ {p} :
           /\ l.next[q] = IF list # <<>> /\ q = tl.tail THEN p ELSE tl.next[q]
           /\ l.prev[q] = tl.prev[q]
      /\ list # <<>> => l.current = tl.current /\ tl.tail \in Tasks \ {p} /\ tl.head \in Tasks \ {p}
  BY NewTaskFields DEF TypeOK, TaskList
<1> HIDE DEF l
<1>2. p # NULL
  BY TasksAssumption
<1>3. CASE list = <<>>
  <2>1. v = [l EXCEPT !.head = NULL, !.tail = NULL, !.current = NULL]
    BY <1>1, <1>3 DEF Unlink
  <2>2. v.current = NULL /\ v \in TaskList /\ v.head = NULL /\ v.tail = NULL
          /\ v.next = l.next /\ v.prev = l.prev
    BY <2>1, <1>1 DEF TaskList, MaybeTask
  <2>3. task_list_remove(l, p) = v
    BY <2>2, <1>2 DEF task_list_remove
  <2>4. tl.head = NULL /\ tl.tail = NULL
    BY <1>3 DEF ListIsHistory
  <2> QED
    BY <1>1, <1>3, <2>2, <2>3, <2>4 DEF l
<1>4. CASE list # <<>>
  <2>1. v = [l EXCEPT !.tail = tl.tail, !.next[tl.tail] = NULL]
    BY <1>1, <1>4 DEF Unlink
  <2>2. /\ v \in TaskList
        /\ v.head = tl.head /\ v.tail = tl.tail /\ v.current = tl.current
        /\ v.next = [l.next EXCEPT ![tl.tail] = NULL]
        /\ v.prev = l.prev
    <3>1. v = [head |-> l.head, tail |-> tl.tail, current |-> l.current,
               next |-> [l.next EXCEPT ![tl.tail] = NULL], prev |-> l.prev]
      BY <2>1, <1>1 DEF TaskList
    <3>2. [l.next EXCEPT ![tl.tail] = NULL] \in [Tasks -> MaybeTask]
      BY <1>1 DEF TaskList, MaybeTask
    <3> QED
      BY <3>1, <3>2, <1>1, <1>4 DEF TaskList
  <2>3. tl.next[tl.tail] = NULL
    <3>1. Len(list) \in DOMAIN list
      BY <1>4 DEF TypeOK
    <3> QED
      BY <3>1, <1>4 DEF ListIsHistory
  <2>4. \A q \in Tasks \ {p} : v.next[q] = tl.next[q] /\ v.prev[q] = tl.prev[q]
    BY <2>2, <2>3, <1>1, <1>4 DEF TaskList
  <2>5. v.current # p => task_list_remove(l, p) = v
    BY DEF task_list_remove
  <2>6. CASE v.current = p
    <3>1. task_list_remove(l, p) = [v EXCEPT !.current = task_get_next(v)]
      BY <2>6 DEF task_list_remove
    <3>2. task_get_next(v) \in MaybeTask
      BY <2>2, <2>6 DEF task_get_next, TaskList
    <3> QED
      BY <3>1, <3>2, <2>2, <2>4, <2>6 DEF TaskList, l
  <2> QED
    BY <2>2, <2>4, <2>5, <2>6 DEF l
<1> QED
  BY <1>3, <1>4

\* The list stays well formed when a process is loaded.
LEMMA AppendKeepsList ==
  ASSUME TypeOK, ListIsHistory, NEW p \in Tasks, status[p] = "unused",
         NEW t \in Tasks,
         tl' = [task_new(tl, p) EXCEPT !.current = t],
         status' = [status EXCEPT ![p] = "loaded"],
         list' = Append(list, p)
  PROVE  /\ tl' \in TaskList
         /\ ListIsHistory'
         /\ list'[Len(list) + 1] = p /\ Len(list) + 1 \in DOMAIN list'
<1> DEFINE l == task_new(tl, p)
           n == Len(list)
<1>1. /\ tl \in TaskList
      /\ l \in TaskList
      /\ l.head = IF list = <<>> THEN p ELSE tl.head
      /\ l.tail = p
      /\ l.next[p] = NULL
      /\ l.prev[p] = IF list = <<>> THEN NULL ELSE tl.tail
      /\ \A q \in Tasks \ {p} :
           /\ l.next[q] = IF list # <<>> /\ q = tl.tail THEN p ELSE tl.next[q]
           /\ l.prev[q] = tl.prev[q]
  BY NewTaskFields DEF TypeOK, TaskList
<1>2. tl' = [l EXCEPT !.current = t]
  OBVIOUS
<1> HIDE DEF l
<1>3. /\ tl' \in TaskList
      /\ tl'.head = l.head /\ tl'.tail = l.tail /\ tl'.next = l.next /\ tl'.prev = l.prev
  BY <1>1, <1>2 DEF TaskList, MaybeTask
<1>4. /\ n \in Nat /\ DOMAIN list = 1 .. n /\ DOMAIN list' = 1 .. n + 1
      /\ Len(list') = n + 1
      /\ list'[n + 1] = p
      /\ \A k \in 1 .. n : list'[k] = list[k] /\ list[k] \in Tasks
      /\ list' # <<>> /\ (list = <<>> <=> n = 0)
  <2>1. list \in Seq(Tasks) /\ list' = Append(list, p)
    BY DEF TypeOK
  <2>2. n \in Nat /\ DOMAIN list = 1 .. n /\ (list = <<>> <=> n = 0)
    BY <2>1
  <2>3. list' \in Seq(Tasks) /\ Len(list') = n + 1 /\ DOMAIN list' = 1 .. n + 1
    BY <2>1, <2>2
  <2>4. list'[n + 1] = p /\ \A k \in 1 .. n : list'[k] = list[k] /\ list[k] \in Tasks
    BY <2>1, <2>2
  <2>5. list' # <<>>
    BY <2>2, <2>3
  <2> QED
    BY <2>2, <2>3, <2>4, <2>5
<1>5. \A k \in 1 .. n : list[k] # p
  BY <1>4 DEF ListIsHistory
<1> HIDE DEF n
<1>6. \A q \in Tasks : status'[q] # "unused" <=> \E k \in DOMAIN list' : list'[k] = q
  <2> TAKE q \in Tasks
  <2>1. CASE q = p
    <3>1. status'[q] = "loaded"
      BY <2>1 DEF TypeOK
    <3> QED
      BY <3>1, <2>1, <1>4
  <2>2. CASE q # p
    <3>1. status'[q] = status[q]
      BY <2>2 DEF TypeOK
    <3>2. status[q] # "unused" <=> \E k \in 1 .. n : list[k] = q
      BY <1>4 DEF ListIsHistory
    <3> QED
      BY <3>1, <3>2, <2>2, <1>4
  <2> QED
    BY <2>1, <2>2
<1>7. \A j, k \in DOMAIN list' : list'[j] = list'[k] => j = k
  <2>1. \A j, k \in 1 .. n : list[j] = list[k] => j = k
    BY <1>4 DEF ListIsHistory
  <2> QED
    BY <2>1, <1>4, <1>5
<1>8. tl'.head = list'[1] /\ tl'.tail = list'[Len(list')]
  <2>1. n > 0 => tl.head = list[1]
    BY <1>4 DEF ListIsHistory
  <2> QED
    BY <2>1, <1>1, <1>3, <1>4
<1>9. ASSUME NEW k \in DOMAIN list'
      PROVE  /\ tl'.next[list'[k]] = IF k = Len(list') THEN NULL ELSE list'[k + 1]
             /\ tl'.prev[list'[k]] = IF k = 1 THEN NULL ELSE list'[k - 1]
  <2>1. CASE k = n + 1
    <3>1. n > 0 => tl.tail = list[n] /\ n \in 1 .. n /\ k # 1 /\ k - 1 = n
      BY <1>4, <2>1 DEF ListIsHistory, n
    <3>2. tl'.prev[p] = IF n = 0 THEN NULL ELSE list'[n]
      BY <3>1, <1>1, <1>3, <1>4
    <3> QED
      BY <3>1, <3>2, <2>1, <1>1, <1>3, <1>4
  <2>2. CASE k # n + 1
    <3>1. k \in 1 .. n /\ list' [k] = list[k] /\ list[k] \in Tasks \ {p} /\ n > 0
      BY <2>2, <1>4, <1>5
    <3>2. /\ tl.next[list[k]] = IF k = n THEN NULL ELSE list[k + 1]
          /\ tl.prev[list[k]] = IF k = 1 THEN NULL ELSE list[k - 1]
          /\ tl.tail = list[n]
      BY <3>1, <1>4 DEF ListIsHistory, n
    <3>3. list[k] = tl.tail <=> k = n
      BY <3>1, <3>2, <1>4 DEF ListIsHistory
    <3>4. l.next[list[k]] = IF k = n THEN p ELSE list[k + 1]
      BY <3>1, <3>2, <3>3, <1>1, <1>4
    <3>5. l.prev[list[k]] = IF k = 1 THEN NULL ELSE list[k - 1]
      BY <3>1, <3>2, <1>1
    <3>6. (k # n => k + 1 \in 1 .. n) /\ (k # 1 => k - 1 \in 1 .. n)
      BY <3>1, <1>4
    <3> QED
      BY <3>1, <3>4, <3>5, <3>6, <2>2, <1>3, <1>4
  <2> QED
    BY <2>1, <2>2
<1>10. ListIsHistory'
  BY <1>4, <1>6, <1>7, <1>8, <1>9 DEF ListIsHistory
<1> QED
  BY <1>3, <1>4, <1>10 DEF n

\* The initial state satisfies the invariant.
LEMMA InitTasksInv == Init => TasksInv
<1> SUFFICES ASSUME Init PROVE TasksInv
  OBVIOUS
<1>1. list = <<>> /\ list \in Seq(Tasks) /\ DOMAIN list = {}
  BY DEF Init
<1>2. MAX_PROCESSES \in Nat \ {0} /\ 0 \in Pids
  BY TasksAssumption DEF Pids
<1>3. TypeOK
  BY <1>1, <1>2 DEF Init, TypeOK, MaybeTask, Mem, Pids, NoBlocks
<1>4. ListIsHistory
  BY <1>1 DEF Init, ListIsHistory
<1>5. CurrentAgrees /\ TableMatchesPids
  BY DEF Init, CurrentAgrees, TableMatchesPids
<1> QED
  BY <1>3, <1>4, <1>5 DEF TasksInv

\* A step that only takes or loses heap memory preserves the invariant.
LEMMA MemoryOnlyInv ==
  ASSUME TasksInv, taken' \subseteq Mem,
         mode' \in {mode, "panic"} \/ (mode = "user" /\ mode' \in {"wild_process", "wild_task"}),
         UNCHANGED <<tl, current_process, processes, pid, status, block, list>>
  PROVE  TasksInv'
<1>1. TypeOK'
  BY DEF TasksInv, TypeOK, Pids, MaybeTask, Mem, Parts
<1>2. ListIsHistory' /\ TableMatchesPids'
  BY DEF TasksInv, ListIsHistory, TableMatchesPids, Pids
<1>3. CurrentAgrees'
  BY DEF TasksInv, CurrentAgrees
<1> QED
  BY <1>1, <1>2, <1>3 DEF TasksInv

\* Failed loads that leave the task list alone.
LEMMA FailedLoadInv ==
  ASSUME TasksInv, NEW m \in SUBSET Mem,
         \/ LoadFails(m) /\ mode' \in {mode, "panic"}
         \/ mode = "user" /\ (LoadFreesNull(m) \/ LoadMissesTaskError(m))
  PROVE  TasksInv'
<1>1. taken' \subseteq Mem
  BY DEF LoadFails, LoadFreesNull, LoadMissesTaskError
<1>2. UNCHANGED <<tl, current_process, processes, pid, status, block, list>>
  BY DEF LoadFails, LoadFreesNull, LoadMissesTaskError
<1>3. mode' \in {mode, "panic"} \/ (mode = "user" /\ mode' \in {"wild_process", "wild_task"})
  BY DEF LoadFreesNull, LoadMissesTaskError
<1> QED
  BY <1>1, <1>2, <1>3, MemoryOnlyInv

\* A load that fails after task_new takes its task off the list again.
LEMMA MapFailsInv ==
  ASSUME TasksInv, NEW m \in SUBSET Mem, NEW p \in Tasks, MapFails(m, p),
         (mode = "user" /\ mode' = mode) \/ mode' = "panic"
  PROVE  /\ TasksInv'
         /\ mode = "user" => /\ tl'.head = tl.head /\ tl'.tail = tl.tail
                             /\ tl'.current = tl.current
<1> USE DEF TasksInv
<1>1. /\ status[p] = "unused"
      /\ tl' = task_list_remove(task_new(tl, p), p)
      /\ UNCHANGED <<current_process, processes, pid, status, block, list>>
      /\ taken' \subseteq Mem
  BY DEF MapFails
<1>2. /\ tl' \in TaskList
      /\ tl'.head = tl.head
      /\ tl'.tail = tl.tail
      /\ \A q \in Tasks \ {p} : tl'.next[q] = tl.next[q] /\ tl'.prev[q] = tl.prev[q]
      /\ list # <<>> /\ tl.current # p => tl'.current = tl.current
  BY <1>1, RemoveUndoesNew
<1>3. TypeOK'
  BY <1>1, <1>2 DEF TypeOK, Pids, MaybeTask, Mem, Parts, TaskList
<1>4. \A k \in DOMAIN list : list[k] \in Tasks \ {p}
  BY <1>1 DEF ListIsHistory, TypeOK
<1>5. ListIsHistory'
  BY <1>1, <1>2, <1>4 DEF ListIsHistory
<1>6. TableMatchesPids'
  BY <1>1 DEF TableMatchesPids, Pids
<1>7. mode = "user" => tl'.current = tl.current
  <2> SUFFICES ASSUME mode = "user" PROVE tl'.current = tl.current
    OBVIOUS
  <2>1. PICK k \in DOMAIN list : list[k] = tl.current
    BY DEF CurrentAgrees
  <2>2. list # <<>>
    BY <2>1
  <2> QED
    BY <2>1, <2>2, <1>2, <1>4
<1>8. CurrentAgrees'
  BY <1>1, <1>7 DEF CurrentAgrees
<1> QED
  BY <1>2, <1>3, <1>5, <1>6, <1>7, <1>8

\* A load that succeeds, followed by task_exec of a task in the new list.
LEMMA LoadSucceedsInv ==
  ASSUME TasksInv, NEW m \in SUBSET Mem, NEW p \in Tasks, NEW t \in Tasks,
         LoadSucceeds(m, p, t),
         t = p \/ \E k \in DOMAIN list : list[k] = t
  PROVE  TasksInv'
<1> USE DEF TasksInv
<1>1. /\ status[p] = "unused"
      /\ status' = [status EXCEPT ![p] = "loaded"]
      /\ list' = Append(list, p)
      /\ tl' = [task_new(tl, p) EXCEPT !.current = t]
      /\ current_process' = t
      /\ mode' = "user"
  BY DEF LoadSucceeds
<1>2. /\ tl' \in TaskList
      /\ ListIsHistory'
      /\ list'[Len(list) + 1] = p /\ Len(list) + 1 \in DOMAIN list'
  BY <1>1, AppendKeepsList
<1>3. PICK n \in Pids : /\ pid' = [pid EXCEPT ![p] = n]
                        /\ processes' = [processes EXCEPT ![n] = p]
  BY DEF LoadSucceeds
<1>4. PICK s, i, k \in Mem :
        /\ taken' = m \cup {s, i, k}
        /\ block' = [block EXCEPT ![p] = [struct |-> s, image |-> i, task |-> k]]
  BY DEF LoadSucceeds
<1>5. [struct |-> s, image |-> i, task |-> k] \in [Parts -> Mem \cup {0}]
  BY DEF Parts
<1>6. TypeOK'
  <2>1. block' \in [Tasks -> [Parts -> Mem \cup {0}]] /\ taken' \subseteq Mem
    BY <1>4, <1>5 DEF TypeOK
  <2>2. pid' \in [Tasks -> Pids] /\ processes' \in [Pids -> MaybeTask]
    BY <1>3 DEF TypeOK, MaybeTask
  <2>3. /\ status' \in [Tasks -> {"unused", "loaded", "terminated"}]
        /\ list' \in Seq(Tasks)
        /\ current_process' \in MaybeTask
    BY <1>1 DEF TypeOK, MaybeTask
  <2> QED
    BY <2>1, <2>2, <2>3, <1>1, <1>2 DEF TypeOK, TaskList
<1>7. TableMatchesPids'
  <2> SUFFICES ASSUME NEW q \in Pids, processes'[q] # NULL
               PROVE  pid'[processes'[q]] = q /\ status'[processes'[q]] = "loaded"
    BY DEF TableMatchesPids
  <2>1. CASE q = n
    BY <2>1, <1>1, <1>3 DEF TypeOK
  <2>2. CASE q # n
    <3>1. processes'[q] = processes[q] /\ processes[q] \in Tasks
      BY <2>2, <1>3 DEF TypeOK, MaybeTask
    <3>2. pid[processes[q]] = q /\ status[processes[q]] = "loaded"
      BY <3>1 DEF TableMatchesPids
    <3> QED
      BY <3>1, <3>2, <1>1, <1>3 DEF TypeOK
  <2> QED
    BY <2>1, <2>2
<1>8. CurrentAgrees'
  <2>1. tl'.current = t
    <3>1. task_new(tl, p) \in TaskList
      BY <1>1, NewTaskFields
    <3> QED
      BY <3>1, <1>1 DEF TaskList
  <2>2. \E j \in DOMAIN list' : list'[j] = t
    <3>1. list \in Seq(Tasks)
      BY DEF TypeOK
    <3> QED
      BY <3>1, <1>1, <1>2
  <2> QED
    BY <2>1, <2>2, <1>1 DEF CurrentAgrees
<1> QED
  BY <1>2, <1>6, <1>7, <1>8

\* Ending the running process, by the exit system call or an exception: the
\* next task, which may be one of a terminated process, is in the list.
LEMMA EndCurrentProcessInv ==
  ASSUME TasksInv, mode = "user", EndCurrentProcess
  PROVE  TasksInv' /\ status'[current_process] = "terminated"
<1> USE DEF TasksInv
<1> DEFINE p == current_process
           t == task_get_next(tl)
<1>1. /\ processes' = [processes EXCEPT ![pid[p]] = NULL]
      /\ status' = [status EXCEPT ![p] = "terminated"]
      /\ taken' \subseteq taken
      /\ tl' = [tl EXCEPT !.current = t]
      /\ current_process' = t
      /\ UNCHANGED <<pid, block, mode, list>>
  BY DEF EndCurrentProcess, process_terminate, task_exec
<1>2. PICK k \in DOMAIN list : list[k] = p
  BY DEF CurrentAgrees
<1>3. /\ p \in Tasks /\ tl.current = p /\ tl \in TaskList
      /\ list \in Seq(Tasks) /\ k \in 1 .. Len(list) /\ list # <<>>
  BY <1>2 DEF CurrentAgrees, TypeOK, TaskList
<1>4. \E j \in DOMAIN list : list[j] = t
  <2>1. tl.next[p] = IF k = Len(list) THEN NULL ELSE list[k + 1]
    BY <1>2 DEF ListIsHistory
  <2>2. tl.head = list[1] /\ 1 \in DOMAIN list
    BY <1>3 DEF ListIsHistory
  <2>3. tl.next[p] # NULL => k + 1 \in DOMAIN list
    BY <2>1, <1>3
  <2> QED
    BY <2>1, <2>2, <2>3, <1>3 DEF task_get_next
<1>5. t \in Tasks
  BY <1>3, <1>4
<1> HIDE DEF t
<1>6. /\ tl' \in TaskList /\ tl'.current = t
      /\ tl'.head = tl.head /\ tl'.tail = tl.tail /\ tl'.next = tl.next /\ tl'.prev = tl.prev
  BY <1>1, <1>3, <1>5 DEF TaskList, MaybeTask
<1>7. \A q \in Tasks : status'[q] = IF q = p THEN "terminated" ELSE status[q]
  BY <1>1, <1>3 DEF TypeOK
<1>8. TypeOK'
  <2>1. processes' \in [Pids -> MaybeTask] /\ current_process' \in MaybeTask
    BY <1>1, <1>5 DEF TypeOK, MaybeTask
  <2>2. status' \in [Tasks -> {"unused", "loaded", "terminated"}]
    BY <1>1 DEF TypeOK
  <2> QED
    BY <1>1, <1>6, <2>1, <2>2 DEF TypeOK, TaskList
<1>9. ListIsHistory'
  <2>1. \A q \in Tasks : status'[q] # "unused" <=> \E j \in DOMAIN list : list[j] = q
    BY <1>2, <1>3, <1>7 DEF ListIsHistory
  <2> QED
    BY <2>1, <1>1, <1>6 DEF ListIsHistory
<1>10. CurrentAgrees'
  BY <1>1, <1>4, <1>6 DEF CurrentAgrees
<1>11. TableMatchesPids'
  <2> SUFFICES ASSUME NEW q \in Pids, processes'[q] # NULL
               PROVE  pid'[processes'[q]] = q /\ status'[processes'[q]] = "loaded"
    BY DEF TableMatchesPids
  <2>1. q # pid[p] /\ processes'[q] = processes[q] /\ processes[q] \in Tasks
    BY <1>1, <1>3 DEF TypeOK, MaybeTask
  <2>2. pid[processes[q]] = q /\ status[processes[q]] = "loaded"
    BY <2>1 DEF TableMatchesPids
  <2> QED
    BY <2>1, <2>2, <1>1, <1>7
<1> QED
  BY <1>3, <1>7, <1>8, <1>9, <1>10, <1>11

\* The heap after a string was copied is a set of blocks.
LEMMA CopyType == TypeOK => copy_string_from_user_task \in SUBSET Mem /\ taken \in SUBSET Mem
BY DEF TypeOK, copy_string_from_user_task

\* Every step preserves the invariant.
LEMMA NextTasksInv == TasksInv /\ [Next]_vars => TasksInv'
<1> SUFFICES ASSUME TasksInv, [Next]_vars PROVE TasksInv'
  OBVIOUS
<1>0. copy_string_from_user_task \in SUBSET Mem /\ taken \in SUBSET Mem
  BY CopyType DEF TasksInv
<1>1. CASE BootRuns
  <2>1. PICK p \in Tasks : LoadSucceeds(taken, p, task_new(tl, p).head)
    BY <1>1 DEF BootRuns
  <2>2. status[p] = "unused"
    BY <2>1 DEF LoadSucceeds
  <2>3. task_new(tl, p).head = IF list = <<>> THEN p ELSE tl.head
    BY <2>2, NewTaskFields DEF TasksInv
  <2>4. list # <<>> => 1 \in DOMAIN list /\ tl.head = list[1] /\ list[1] \in Tasks
    BY DEF TasksInv, ListIsHistory, TypeOK
  <2> QED
    BY <1>0, <2>1, <2>3, <2>4, LoadSucceedsInv
<1>2. CASE BootPanics
  BY <1>0, <1>2, FailedLoadInv, MapFailsInv DEF BootPanics
<1>3. CASE execve
  BY <1>0, <1>3, LoadSucceedsInv DEF execve
<1>4. CASE execve_fails
  BY <1>0, <1>4, FailedLoadInv, MapFailsInv DEF execve_fails
<1>5. CASE execve_goes_wild
  BY <1>0, <1>5, FailedLoadInv DEF execve_goes_wild
<1>8. CASE isr80h_command_1_print
  BY <1>0, <1>8, MemoryOnlyInv DEF isr80h_command_1_print
<1>6. CASE exit \/ idt_handle_user_process_exception
  BY <1>6, EndCurrentProcessInv DEF exit, idt_handle_user_process_exception
<1>7. CASE Stopped \/ UNCHANGED vars
  <2>1. UNCHANGED vars
    BY <1>7 DEF Stopped
  <2>2. /\ UNCHANGED <<tl, current_process, processes, pid, status, block, list>>
        /\ taken' = taken /\ mode' = mode
    BY <2>1 DEF vars
  <2> QED
    BY <1>0, <2>2, MemoryOnlyInv
<1> QED
  BY <1>1, <1>2, <1>3, <1>4, <1>5, <1>6, <1>7, <1>8 DEF Next

\* The invariant holds in every reachable state.
THEOREM TasksInvariant == Spec => []TasksInv
BY InitTasksInv, NextTasksInv, PTL DEF Spec

\* The variables keep their types whatever loads fail and whatever a
\* terminated process goes on to do.
THEOREM TasksTypeCorrect == Spec => []TypeOK
<1>1. TasksInv => TypeOK
  BY DEF TasksInv
<1> QED
  BY TasksInvariant, <1>1, PTL

\* The task list of task.c is a well-formed doubly linked list, in load order,
\* with every loaded process in it: only its last element is ever
\* removed, so the branch of task_list_remove that leaves next->prev
\* unrepaired is never taken.
THEOREM TaskListCorrect == Spec => []ListWellFormed
<1>1. ASSUME TasksInv PROVE ListWellFormed
  <2> DEFINE linked == DOMAIN list
  <2>1. list \in Seq(Tasks) /\ linked = 1 .. Len(list) /\ Len(list) \in Nat
        /\ \A k \in linked : list[k] \in Tasks
    BY <1>1 DEF TasksInv, TypeOK
  <2>2. ListIsHistory
    BY <1>1 DEF TasksInv
  <2>3. \A t \in Tasks : status[t] = "loaded" => \E k \in linked : list[k] = t
    BY <2>2 DEF ListIsHistory
  <2>4. \A k \in linked : status[list[k]] # "unused"
    BY <2>1, <2>2 DEF ListIsHistory
  <2>5. \A j, k \in linked : list[j] = list[k] => j = k
    BY <2>2 DEF ListIsHistory
  <2>6. linked = {} => tl.head = NULL /\ tl.tail = NULL
    BY <2>1, <2>2 DEF ListIsHistory
  <2>7. ASSUME NEW k \in linked
        PROVE  /\ (\A j \in linked : k <= j) => tl.head = list[k] /\ tl.prev[list[k]] = NULL
               /\ (\A j \in linked : j <= k) => tl.tail = list[k] /\ tl.next[list[k]] = NULL
    <3>1. list # <<>> /\ 1 \in linked /\ Len(list) \in linked
      BY <2>1
    <3>2. (\A j \in linked : k <= j) => tl.head = list[k] /\ tl.prev[list[k]] = NULL
      <4>1. SUFFICES ASSUME \A j \in linked : k <= j
                     PROVE  tl.head = list[k] /\ tl.prev[list[k]] = NULL
        OBVIOUS
      <4>2. k = 1
        BY <2>1, <3>1, <4>1
      <4>3. QED
        BY <2>2, <3>1, <4>2 DEF ListIsHistory
    <3>3. (\A j \in linked : j <= k) => tl.tail = list[k] /\ tl.next[list[k]] = NULL
      <4>1. SUFFICES ASSUME \A j \in linked : j <= k
                     PROVE  tl.tail = list[k] /\ tl.next[list[k]] = NULL
        OBVIOUS
      <4>2. k = Len(list)
        BY <2>1, <3>1, <4>1
      <4>3. QED
        BY <2>2, <3>1, <4>2 DEF ListIsHistory
    <3>4. QED
      BY <3>2, <3>3
  <2>8. ASSUME NEW j \in linked, NEW k \in linked,
               j < k, \A m \in linked : m <= j \/ k <= m
        PROVE  tl.next[list[j]] = list[k] /\ tl.prev[list[k]] = list[j]
    <3>1. j + 1 \in linked /\ j \in Nat /\ k \in Nat
      BY <2>1, <2>8
    <3>2. k = j + 1 /\ j # Len(list) /\ k # 1 /\ k - 1 = j
      BY <2>1, <2>8, <3>1
    <3>3. QED
      BY <2>2, <3>2 DEF ListIsHistory
  <2>9. linked \in SUBSET DOMAIN list
    OBVIOUS
  <2>10. \A k \in linked :
           /\ (\A j \in linked : k <= j) => tl.head = list[k] /\ tl.prev[list[k]] = NULL
           /\ (\A j \in linked : j <= k) => tl.tail = list[k] /\ tl.next[list[k]] = NULL
    BY <2>7
  <2>11. \A j, k \in linked :
           j < k /\ (\A m \in linked : m <= j \/ k <= m) =>
             tl.next[list[j]] = list[k] /\ tl.prev[list[k]] = list[j]
    BY <2>8
  <2> HIDE DEF linked
  <2>12. QED
    BY <2>3, <2>4, <2>5, <2>6, <2>9, <2>10, <2>11, Zenon DEF ListWellFormed
<1>2. TasksInv => ListWellFormed
  BY <1>1
<1>3. QED
  BY <1>2, TasksInvariant, PTL

\* current_task is always in the list and current_process is its process.
THEOREM CurrentTaskCorrect == Spec => []CurrentAgrees
<1>1. TasksInv => CurrentAgrees
  BY DEF TasksInv
<1> QED
  BY TasksInvariant, <1>1, PTL

\* The process table holds loaded processes at their pids.
THEOREM ProcessTableCorrect == Spec => []TableMatchesPids
<1>1. TasksInv => TableMatchesPids
  BY DEF TasksInv
<1> QED
  BY TasksInvariant, <1>1, PTL

\* A failed execve changes neither the list, the table nor who runs.
THEOREM FailedExecveCorrect == Spec => FailedExecveReturns
<1> DEFINE Same == /\ processes' = processes
                   /\ tl'.head = tl.head /\ tl'.tail = tl.tail
                   /\ tl'.current = tl.current /\ current_process' = current_process
           Returns == mode = "user" /\ list' = list
                        /\ status[current_process] = "loaded"
                        /\ status'[current_process] = "loaded" => Same
<1>1. TasksInv /\ [Next]_vars => [Returns]_vars
  <2> SUFFICES ASSUME TasksInv, Next, mode = "user", list' = list,
                      status'[current_process] = "loaded"
               PROVE  Same
    OBVIOUS
  <2>0. copy_string_from_user_task \in SUBSET Mem
    BY CopyType DEF TasksInv
  <2>1. ~BootRuns /\ ~BootPanics /\ ~Stopped
    BY DEF BootRuns, BootPanics, Stopped
  <2>2. CASE execve
    <3>1. PICK p \in Tasks : list' = Append(list, p)
      BY <2>2 DEF execve, LoadSucceeds
    <3>2. list \in Seq(Tasks) /\ Len(list') = Len(list) + 1 /\ Len(list) \in Nat
      BY <3>1 DEF TasksInv, TypeOK
    <3> QED
      BY <3>2
  <2>3. CASE execve_fails
    <3>1. CASE LoadFails(copy_string_from_user_task)
      BY <3>1 DEF LoadFails
    <3>2. ASSUME NEW p \in Tasks, MapFails(copy_string_from_user_task, p)
          PROVE  Same
      <4>1. tl'.head = tl.head /\ tl'.tail = tl.tail /\ tl'.current = tl.current
        BY <2>0, <2>3, <3>2, MapFailsInv DEF execve_fails
      <4> QED
        BY <4>1, <3>2 DEF MapFails
    <3> QED
      BY <2>3, <3>1, <3>2 DEF execve_fails
  <2>4. CASE execve_goes_wild
    BY <2>4 DEF execve_goes_wild, LoadFreesNull, LoadMissesTaskError
  <2>6. CASE isr80h_command_1_print
    BY <2>6 DEF isr80h_command_1_print
  <2>5. CASE exit \/ idt_handle_user_process_exception
    BY <2>5, EndCurrentProcessInv DEF exit, idt_handle_user_process_exception
  <2> QED
    BY <2>1, <2>2, <2>3, <2>4, <2>5, <2>6 DEF Next
<1>2. TasksInv /\ [Next]_vars => [mode = "user" /\ list' = list
     /\ status[current_process] = "loaded" /\ status'[current_process] = "loaded" =>
       /\ processes' = processes
       /\ tl'.head = tl.head /\ tl'.tail = tl.tail
       /\ tl'.current = tl.current /\ current_process' = current_process]_vars
  BY <1>1
<1> QED
  BY <1>2, TasksInvariant, PTL DEF Spec, FailedExecveReturns
=============================================================================
