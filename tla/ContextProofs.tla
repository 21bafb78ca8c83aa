--------------------------- MODULE ContextProofs ---------------------------
(***************************************************************************)
(* Proofs about module Context, for every number of tasks, every set of    *)
(* interrupt lines and whatever programs compute and call.                 *)
(***************************************************************************)
EXTENDS Context, SequenceTheorems, TLAPS

\* What an interrupt of a program with registers reg leaves on the stack.
PushadFrame(reg) ==
  [k \in DOMAIN Pushad |-> IF Pushad[k] = "unused_esp" THEN KERNEL_STACK_ADDR ELSE reg[Pushad[k]]]
ReturnFrame(reg) == [k \in DOMAIN IretFrame |-> reg[IretFrame[k]]]
Frame(reg, error) == PushadFrame(reg) \o error \o ReturnFrame(reg)

Errors     == {<<>>, <<<<"error">>>>}
Returning  == {"isr80h", "command", "result", "irq", "handled"}
Ending     == {"exception", "trapped"}
WithTables == {"command", "result", "handled", "trapped"}

\* The registers of a program in ring 3 with interrupts on.
UserMode(reg) ==
  reg["cs"] = USER_CODE_SEGMENT /\ reg["ss"] = USER_DATA_SEGMENT /\ reg["eflags"][3] = TRUE

\* eax is the answer to the system call c if task t has made it.
Answered(c, t, eax) ==
  (c.task = t /\ Command(c.id) \notin {"execve", "exit"}) =>
    eax = Returned(Command(c.id), <<c.task, c.esp>>)

IsRegs(f) == f = [r \in Registers |-> f[r]]

Shape ==
  /\ at \in {"boot", "user", "fault", "ring0"} \cup Returning \cup Ending
  /\ cpu = [reg |-> cpu.reg, cr3 |-> cpu.cr3, seg |-> cpu.seg]
  /\ IsRegs(cpu.reg) /\ cpu.cr3 \in Tasks \cup {KERNEL}
  /\ registers = [t \in Tasks |-> registers[t]] /\ \A t \in Tasks : IsRegs(registers[t])
  /\ left = [t \in Tasks |-> left[t]] /\ \A t \in Tasks : IsRegs(left[t])
  /\ loaded \in Tasks /\ current \in 1..loaded /\ ended \subseteq 1..loaded
  /\ raised \subseteq Irqs /\ serving \subseteq Irqs

\* The kernel stack is empty but for what the last entry has pushed.
Stacked ==
  /\ at \in {"boot", "user", "fault"} => stack = <<>>
  /\ at = "ring0" => Len(stack) = 4
  /\ at \in Returning => stack = Frame(left[current], <<>>)
  /\ at \in Ending => \E error \in Errors : stack = Frame(left[current], error)

\* Page tables, segments, mode and flags.
Modes ==
  /\ at = "user" => cpu.cr3 = current /\ cpu.seg = USER_DATA_SEGMENT /\ UserMode(cpu.reg)
  /\ at \in Returning \cup Ending => UserMode(left[current])
  /\ at \in WithTables =>
       cpu.cr3 = KERNEL /\ cpu.seg = KernelSegments.ss /\ cpu.reg["eflags"] = Eflags(0, FALSE)
  /\ at \notin {"irq", "handled"} => serving = {}

\* The structure of a task that does not run holds what it was left with.
Saved ==
  /\ \A t \in Tasks \ ended : (at = "boot" \/ t # current) => registers[t] = left[t]
  /\ at \in {"command", "result"} => registers[current] = left[current]

\* The system call that is served is the one the frame shows.
Calls ==
  /\ at \in {"user", "result"} => Answered(call, current, cpu.reg["eax"])
  /\ at \in {"irq", "handled"} => Answered(call, current, left[current]["eax"])
  /\ at \in {"isr80h", "command", "result"} =>
       call = [id |-> left[current]["eax"][2], task |-> current, esp |-> left[current]["esp"]]

\* The inductive invariant.
Inv == Shape /\ Stacked /\ Modes /\ Saved /\ Calls /\ ResumesAsLeft

-----------------------------------------------------------------------------
(* The structures of the stubs.                                            *)

\* The names in the structures.
Names == {"edi", "esi", "ebp", "unused_esp", "ebx", "edx", "ecx", "eax",
          "ip", "cs", "eflags", "esp", "ss"}

\* A function on the first n numbers is a sequence of length n.
LEMMA FunctionIsSeq ==
  ASSUME NEW S, NEW n \in Nat, NEW f \in [1..n -> S]
  PROVE  f \in Seq(S) /\ Len(f) = n
<1>1. f \in Seq(S)
  BY SeqDef
<1>2. QED
  BY <1>1, LenProperties

\* The parts of a frame, register by register.
LEMMA FrameParts ==
  /\ DOMAIN Pushad = 1..8 /\ DOMAIN IretFrame = 1..5
  /\ Len(Pushad) = 8 /\ Len(IretFrame) = 5
  /\ Pushad \in Seq(Names) /\ IretFrame \in Seq(Names)
  /\ Range(Pushad) = {"edi", "esi", "ebp", "unused_esp", "ebx", "edx", "ecx", "eax"}
  /\ Range(IretFrame) = {"ip", "cs", "eflags", "esp", "ss"}
<1>1. Pushad \in Seq(Names) /\ IretFrame \in Seq(Names) /\ Len(Pushad) = 8 /\ Len(IretFrame) = 5
  BY DEF Pushad, IretFrame, Names
<1>2. DOMAIN Pushad = 1..8 /\ DOMAIN IretFrame = 1..5
  BY <1>1, LenProperties
<1>3. DOMAIN Pushad = {1, 2, 3, 4, 5, 6, 7, 8} /\ DOMAIN IretFrame = {1, 2, 3, 4, 5}
  BY <1>2
<1>4. Range(Pushad) = {"edi", "esi", "ebp", "unused_esp", "ebx", "edx", "ecx", "eax"}
  BY <1>3 DEF Pushad, Range
<1>5. Range(IretFrame) = {"ip", "cs", "eflags", "esp", "ss"}
  BY <1>3 DEF IretFrame, Range
<1>6. QED
  BY <1>1, <1>2, <1>4, <1>5

\* struct interrupt_frame.
LEMMA InterruptFrame ==
  /\ DOMAIN interrupt_frame = 1..13 /\ Len(interrupt_frame) = 13
  /\ \A k \in 1..13 : interrupt_frame[k] = IF k <= 8 THEN Pushad[k] ELSE IretFrame[k - 8]
<1>1. Pushad \in Seq(Names) /\ IretFrame \in Seq(Names) /\ Len(Pushad) = 8 /\ Len(IretFrame) = 5
  BY FrameParts
<1>2. Pushad \in Seq(Names) /\ IretFrame \in Seq(Names)
  BY <1>1
<1>3. /\ interrupt_frame \in Seq(Names) /\ Len(interrupt_frame) = Len(Pushad) + Len(IretFrame)
      /\ \A k \in 1 .. Len(Pushad) + Len(IretFrame) :
           interrupt_frame[k] = IF k <= Len(Pushad) THEN Pushad[k] ELSE IretFrame[k - Len(Pushad)]
  BY <1>2, ConcatProperties DEF interrupt_frame
<1>4. /\ Len(interrupt_frame) = 13
      /\ \A k \in 1..13 : interrupt_frame[k] = IF k <= 8 THEN Pushad[k] ELSE IretFrame[k - 8]
  BY <1>1, <1>3
<1>5. QED
  BY <1>3, <1>4, LenProperties

\* struct registers.
LEMMA StructRegisters ==
  /\ struct_registers[1] = "edi" /\ struct_registers[2] = "esi" /\ struct_registers[3] = "ebp"
  /\ struct_registers[4] = "ebx" /\ struct_registers[5] = "edx" /\ struct_registers[6] = "ecx"
  /\ struct_registers[7] = "eax"
  /\ Registers = {"edi", "esi", "ebp", "ebx", "edx", "ecx", "eax"} \cup {"ip", "cs", "eflags", "esp", "ss"}
  /\ GeneralPurpose = {"edi", "esi", "ebp", "ebx", "edx", "ecx", "eax"}
<1> DEFINE general == <<"edi", "esi", "ebp", "ebx", "edx", "ecx", "eax">>
<1>1. general \in Seq(Names) /\ Len(general) = 7
  BY DEF Names
<1>2. general[1] = "edi" /\ general[2] = "esi" /\ general[3] = "ebp" /\ general[4] = "ebx"
        /\ general[5] = "edx" /\ general[6] = "ecx" /\ general[7] = "eax"
  OBVIOUS
<1>3. struct_registers = general \o IretFrame
  BY DEF struct_registers
<1> HIDE DEF general
<1>4. /\ struct_registers \in Seq(Names) /\ Len(struct_registers) = 12
      /\ \A k \in 1..12 : struct_registers[k] = IF k <= 7 THEN general[k] ELSE IretFrame[k - 7]
  <2>1. /\ struct_registers \in Seq(Names) /\ Len(struct_registers) = Len(general) + Len(IretFrame)
        /\ \A k \in 1 .. Len(general) + Len(IretFrame) :
             struct_registers[k] = IF k <= Len(general) THEN general[k] ELSE IretFrame[k - Len(general)]
    <3>1. general \in Seq(Names) /\ IretFrame \in Seq(Names)
      BY <1>1, FrameParts
    <3>2. QED
      BY <1>3, <3>1, ConcatProperties
  <2>2. Len(IretFrame) = 5
    BY FrameParts
  <2>3. QED
    BY <1>1, <2>1, <2>2
<1>5. DOMAIN struct_registers = 1..12
  BY <1>4, LenProperties
<1>6. IretFrame[1] = "ip" /\ IretFrame[2] = "cs" /\ IretFrame[3] = "eflags"
        /\ IretFrame[4] = "esp" /\ IretFrame[5] = "ss"
  BY DEF IretFrame
<1>7. /\ struct_registers[1] = "edi" /\ struct_registers[2] = "esi" /\ struct_registers[3] = "ebp"
      /\ struct_registers[4] = "ebx" /\ struct_registers[5] = "edx" /\ struct_registers[6] = "ecx"
      /\ struct_registers[7] = "eax" /\ struct_registers[8] = "ip" /\ struct_registers[9] = "cs"
      /\ struct_registers[10] = "eflags" /\ struct_registers[11] = "esp" /\ struct_registers[12] = "ss"
  BY <1>2, <1>4, <1>6
<1>8. DOMAIN struct_registers = {1, 2, 3, 4, 5, 6, 7, 8, 9, 10, 11, 12}
  BY <1>5
<1>9. Registers = {"edi", "esi", "ebp", "ebx", "edx", "ecx", "eax"} \cup {"ip", "cs", "eflags", "esp", "ss"}
  BY <1>7, <1>8 DEF Registers, Range
<1>10. GeneralPurpose = {"edi", "esi", "ebp", "ebx", "edx", "ecx", "eax"}
  BY FrameParts DEF GeneralPurpose
<1>11. QED
  BY <1>7, <1>9, <1>10

\* The frame of an entry, by position.
LEMMA FrameElements ==
  ASSUME NEW reg, NEW error \in Errors
  PROVE  /\ Len(Frame(reg, error)) <= 14
         /\ error = <<>> => \A k \in 1..13 : Frame(reg, error)[k] =
              IF k <= 8 THEN PushadFrame(reg)[k] ELSE ReturnFrame(reg)[k - 8]
<1> DEFINE S == {reg[r] : r \in Names} \cup {KERNEL_STACK_ADDR, <<"error">>}
<1> DEFINE p == PushadFrame(reg)
           q == ReturnFrame(reg)
<1>1. p \in [1..8 -> S]
  <2>1. DOMAIN Pushad = 1..8 /\ \A k \in 1..8 : Pushad[k] \in Names
    BY FrameParts, ElementOfSeq
  <2>2. QED
    BY <2>1 DEF PushadFrame
<1>2. q \in [1..5 -> S]
  <2>1. DOMAIN IretFrame = 1..5 /\ \A k \in 1..5 : IretFrame[k] \in Names
    BY FrameParts, ElementOfSeq
  <2>2. QED
    BY <2>1 DEF ReturnFrame
<1>3. Frame(reg, error) = (p \o error) \o q /\ <<"error">> \in S
  BY DEF Frame
<1> HIDE DEF p, q, S
<1>4. p \in Seq(S) /\ Len(p) = 8 /\ q \in Seq(S) /\ Len(q) = 5
  <2>1. p \in Seq(S) /\ q \in Seq(S)
    BY <1>1, <1>2, FunctionIsSeq
  <2>2. DOMAIN p = 1..8 /\ DOMAIN q = 1..5
    BY <1>1, <1>2
  <2>3. QED
    BY <2>1, <2>2, LenProperties
<1>5. CASE error = <<>>
  <2>1. p \o error = p
    BY <1>4, <1>5, ConcatEmptySeq, Zenon
  <2>2. Frame(reg, error) = p \o q
    BY <1>3, <2>1, Zenon
  <2>3. /\ Len(Frame(reg, error)) = Len(p) + Len(q)
        /\ \A k \in 1 .. Len(p) + Len(q) :
             Frame(reg, error)[k] = IF k <= Len(p) THEN p[k] ELSE q[k - Len(p)]
    <3>1. p \in Seq(S) /\ q \in Seq(S)
      BY <1>4
    <3>2. QED
      BY <2>2, <3>1, ConcatProperties
  <2>4. Len(Frame(reg, error)) = 13 /\ \A k \in 1..13 :
          Frame(reg, error)[k] = IF k <= 8 THEN p[k] ELSE q[k - 8]
    BY <1>4, <2>3
  <2>5. QED
    BY <2>4 DEF p, q
<1>6. CASE error = <<<<"error">>>>
  <2>1. error \in Seq(S) /\ Len(error) = 1
    BY <1>3, <1>6
  <2>2. p \o error \in Seq(S) /\ Len(p \o error) = Len(p) + Len(error)
    <3>1. p \in Seq(S) /\ error \in Seq(S)
      BY <1>4, <2>1
    <3>2. QED
      BY <3>1, ConcatProperties
  <2>3. Len(Frame(reg, error)) = Len(p \o error) + Len(q)
    <3>1. p \o error \in Seq(S) /\ q \in Seq(S)
      BY <1>4, <2>2
    <3>2. QED
      BY <1>3, <3>1, ConcatProperties
  <2>4. Len(Frame(reg, error)) = 14 /\ error # <<>>
    <3>1. error # <<>>
      BY <1>6
    <3>2. Len(Frame(reg, error)) = 14
      BY <1>4, <2>1, <2>2, <2>3
    <3>3. QED
      BY <3>1, <3>2
  <2>5. QED
    BY <2>4
<1>7. QED
  BY <1>5, <1>6 DEF Errors

\* The handlers, and popad, find a register where the entry has pushed it.
LEMMA FieldIsRegister ==
  ASSUME NEW reg, stack = Frame(reg, <<>>), NEW r \in Registers
  PROVE  Field(r) = reg[r]
<1>1. \E k \in 1..13 : interrupt_frame[k] = r
  <2>1. r \in Range(Pushad) \/ r \in Range(IretFrame)
    BY FrameParts, StructRegisters
  <2>2. CASE r \in Range(Pushad)
    <3>1. PICK k \in 1..8 : Pushad[k] = r
      BY <2>2, FrameParts DEF Range
    <3>2. k \in 1..13 /\ interrupt_frame[k] = r
      BY <3>1, InterruptFrame
    <3>3. QED
      BY <3>2
  <2>3. CASE r \in Range(IretFrame)
    <3>1. PICK k \in 1..5 : IretFrame[k] = r
      BY <2>3, FrameParts DEF Range
    <3>2. k + 8 \in 1..13 /\ ~(k + 8 <= 8) /\ k + 8 - 8 = k
      OBVIOUS
    <3>3. interrupt_frame[k + 8] = r
      BY <3>1, <3>2, InterruptFrame
    <3>4. QED
      BY <3>2, <3>3
  <2>4. QED
    BY <2>1, <2>2, <2>3
<1>2. DOMAIN interrupt_frame = 1..13
  BY InterruptFrame
<1> DEFINE k == CHOOSE j \in DOMAIN interrupt_frame : interrupt_frame[j] = r
<1>3. k \in 1..13 /\ interrupt_frame[k] = r
  BY <1>1, <1>2
<1>4. Field(r) = stack[k]
  BY DEF Field
<1> HIDE DEF k
<1>5. r # "unused_esp"
  BY StructRegisters
<1>6. stack[k] = IF k <= 8 THEN PushadFrame(reg)[k] ELSE ReturnFrame(reg)[k - 8]
  <2>1. <<>> \in Errors
    BY DEF Errors
  <2>2. QED
    BY <1>3, <2>1, FrameElements
<1>7. CASE k <= 8
  <2>1. k \in DOMAIN Pushad /\ Pushad[k] = r
    BY <1>3, <1>7, FrameParts, InterruptFrame
  <2>2. QED
    BY <1>4, <1>5, <1>6, <1>7, <2>1 DEF PushadFrame
<1>8. CASE ~(k <= 8)
  <2>1. k - 8 \in DOMAIN IretFrame /\ IretFrame[k - 8] = r
    BY <1>3, <1>8, FrameParts, InterruptFrame
  <2>2. QED
    BY <1>4, <1>6, <1>8, <2>1 DEF ReturnFrame
<1>9. QED
  BY <1>7, <1>8

\* iretd restores the rest.
LEMMA IretdRestores ==
  ASSUME NEW reg, stack = Frame(reg, <<>>), NEW gp
  PROVE  iretd(SubSeq(stack, Len(Pushad) + 1, Len(interrupt_frame)), gp)
           = [r \in Registers |-> IF r \in GeneralPurpose THEN gp[r] ELSE reg[r]]
<1> DEFINE frame == SubSeq(stack, Len(Pushad) + 1, Len(interrupt_frame))
<1>1. \A k \in 1..5 : frame[k] = reg[IretFrame[k]]
  <2>1. frame = SubSeq(stack, 9, 13)
    BY FrameParts, InterruptFrame
  <2>2. \A k \in 1..5 : SubSeq(stack, 9, 13)[k] = stack[9 + k - 1]
    BY SubSeqProperties
  <2>3. ASSUME NEW k \in 1..5
        PROVE  stack[9 + k - 1] = reg[IretFrame[k]]
    <3>1. 9 + k - 1 \in 1..13 /\ ~(9 + k - 1 <= 8) /\ 9 + k - 1 - 8 = k /\ <<>> \in Errors
      BY DEF Errors
    <3>2. stack[9 + k - 1] = ReturnFrame(reg)[k]
      BY <3>1, FrameElements
    <3>3. QED
      BY <3>2, FrameParts DEF ReturnFrame
  <2> HIDE DEF frame
  <2>4. QED
    BY <2>1, <2>2, <2>3
<1> HIDE DEF frame
<1>2. ASSUME NEW r \in Registers \ GeneralPurpose
      PROVE  frame[CHOOSE k \in DOMAIN IretFrame : IretFrame[k] = r] = reg[r]
  <2>1. r \in Range(IretFrame)
    BY FrameParts, StructRegisters
  <2>2. \E k \in 1..5 : IretFrame[k] = r
    BY <2>1, FrameParts DEF Range
  <2>3. QED
    BY <1>1, <2>2, FrameParts
<1>3. iretd(frame, gp) = [r \in Registers |-> IF r \in GeneralPurpose THEN gp[r] ELSE reg[r]]
  BY <1>2 DEF iretd
<1>4. QED
  BY <1>3 DEF frame

\* task_enter_userland loads every register from its place in struct
\* registers, but for the flags.
LEMMA EnterUserland ==
  ASSUME NEW regs, NEW tables
  PROVE  task_enter_userland(regs, tables) =
           [reg |-> [r \in Registers |-> IF r = "eflags" THEN Eflags(cpu.reg["eflags"][2], TRUE)
                                         ELSE regs[r]],
            cr3 |-> tables, seg |-> regs["ss"]]
<1> DEFINE flags == Eflags(cpu.reg["eflags"][2], TRUE)
           frame == <<regs["ip"], regs["cs"], flags, regs["esp"], regs["ss"]>>
           gp == restore_general_purpose_registers(regs)
<1>1. \A r \in GeneralPurpose : gp[r] = regs[r]
  BY StructRegisters DEF restore_general_purpose_registers
<1>2. \A r \in Registers \ GeneralPurpose :
        frame[CHOOSE k \in DOMAIN IretFrame : IretFrame[k] = r] = IF r = "eflags" THEN flags ELSE regs[r]
  <2>1. DOMAIN IretFrame = {1, 2, 3, 4, 5}
    BY FrameParts
  <2>2. IretFrame[1] = "ip" /\ IretFrame[2] = "cs" /\ IretFrame[3] = "eflags"
          /\ IretFrame[4] = "esp" /\ IretFrame[5] = "ss"
    BY DEF IretFrame
  <2>3. frame[1] = regs["ip"] /\ frame[2] = regs["cs"] /\ frame[3] = flags
          /\ frame[4] = regs["esp"] /\ frame[5] = regs["ss"]
    OBVIOUS
  <2> HIDE DEF frame, flags
  <2>4. ASSUME NEW r \in {"ip", "cs", "eflags", "esp", "ss"}, NEW k \in DOMAIN IretFrame, IretFrame[k] = r
        PROVE  frame[k] = IF r = "eflags" THEN flags ELSE regs[r]
    BY <2>1, <2>2, <2>3, <2>4
  <2>5. \A r \in {"ip", "cs", "eflags", "esp", "ss"} : \E k \in DOMAIN IretFrame : IretFrame[k] = r
    BY <2>1, <2>2
  <2>6. \A r \in Registers \ GeneralPurpose : r \in {"ip", "cs", "eflags", "esp", "ss"}
    BY StructRegisters
  <2>7. QED
    BY <2>4, <2>5, <2>6
<1>3. "eflags" \notin GeneralPurpose
  BY StructRegisters
<1>4. task_enter_userland(regs, tables) =
        [reg |-> iretd(frame, gp), cr3 |-> tables, seg |-> regs["ss"]]
  BY DEF task_enter_userland
<1> HIDE DEF frame, gp, flags
<1>5. iretd(frame, gp) = [r \in Registers |-> IF r = "eflags" THEN flags ELSE regs[r]]
  BY <1>1, <1>2, <1>3 DEF iretd
<1>6. QED
  BY <1>4, <1>5 DEF flags

-----------------------------------------------------------------------------
(* The invariant.                                                          *)

\* Sets of register names, and that the kernel is not one of the tasks.
LEMMA NameSets ==
  /\ Registers = {"edi", "esi", "ebp", "ebx", "edx", "ecx", "eax"} \cup {"ip", "cs", "eflags", "esp", "ss"}
  /\ GeneralPurpose = {"edi", "esi", "ebp", "ebx", "edx", "ecx", "eax"}
  /\ GeneralPurpose \subseteq Registers
  /\ KERNEL \notin Tasks
<1>1. KERNEL \notin Tasks
  BY ContextAssumption DEF KERNEL, Tasks
<1>2. QED
  BY <1>1, StructRegisters

\* The tasks of the list are tasks.
LEMMA ListedTasks == Shape => current \in Tasks /\ loaded \in Tasks /\ ended \subseteq Tasks
<1> SUFFICES ASSUME Shape PROVE current \in Tasks /\ loaded \in Tasks /\ ended \subseteq Tasks
  OBVIOUS
<1>1. loaded \in Tasks /\ current \in 1..loaded /\ ended \subseteq 1..loaded
  BY DEF Shape
<1>2. 1..loaded \subseteq Tasks
  BY <1>1, ContextAssumption DEF Tasks
<1>3. QED
  BY <1>1, <1>2

\* The registers of a program and those that C code leaves.
LEMMA RegisterValues ==
  /\ \A v : IsRegs(UserRegisters(v)) /\ UserMode(UserRegisters(v))
  /\ \A reg : IsRegs(Clobbered(reg)) /\ Clobbered(reg)["eflags"] = Eflags(0, FALSE)
<1>1. ASSUME NEW v PROVE IsRegs(UserRegisters(v)) /\ UserMode(UserRegisters(v))
  <2>1. IsRegs(UserRegisters(v))
    BY DEF IsRegs, UserRegisters
  <2>2. /\ UserRegisters(v)["cs"] = USER_CODE_SEGMENT
        /\ UserRegisters(v)["ss"] = USER_DATA_SEGMENT
        /\ UserRegisters(v)["eflags"] = Eflags(v, TRUE)
    BY NameSets DEF UserRegisters
  <2>3. Eflags(v, TRUE)[3] = TRUE
    BY DEF Eflags
  <2>4. QED
    BY <2>1, <2>2, <2>3 DEF UserMode
<1>2. ASSUME NEW reg PROVE IsRegs(Clobbered(reg)) /\ Clobbered(reg)["eflags"] = Eflags(0, FALSE)
  BY NameSets DEF IsRegs, Clobbered
<1>3. QED
  BY <1>1, <1>2

\* The state at boot satisfies the invariant.
LEMMA InitInv == Init => Inv
<1> SUFFICES ASSUME Init PROVE Inv
  OBVIOUS
<1>1. Shape
  <2>1. IsRegs(cpu.reg) /\ IsRegs(task_init)
    BY RegisterValues DEF Init, task_init
  <2>2. 1 \in Tasks
    BY ContextAssumption DEF Tasks
  <2>3. QED
    BY <2>1, <2>2 DEF Init, Shape, Returning, Ending
<1>2. Stacked
  BY DEF Init, Stacked, Returning, Ending
<1>3. Modes
  BY DEF Init, Modes, Returning, Ending, WithTables
<1>4. Saved
  BY DEF Init, Saved
<1>5. Calls
  BY DEF Init, Calls
<1>6. ResumesAsLeft
  BY DEF Init, ResumesAsLeft
<1>7. QED
  BY <1>1, <1>2, <1>3, <1>4, <1>5, <1>6 DEF Inv

\* What an entry leaves: the frame, and the registers in the history.
LEMMA EnterFields ==
  ASSUME Shape, NEW reg, IsRegs(reg), NEW error, Enter(reg, error)
  PROVE  /\ stack' = Frame(reg, error)
         /\ cpu' = [reg |-> cpu'.reg, cr3 |-> cpu.cr3, seg |-> cpu.seg] /\ IsRegs(cpu'.reg)
         /\ left' = [t \in Tasks |-> left'[t]]
         /\ left'[current] = reg /\ \A t \in Tasks : t # current => left'[t] = left[t]
         /\ \A t \in Tasks : IsRegs(left'[t])
<1>1. stack' = Frame(reg, error)
  BY DEF Enter, Frame, PushadFrame, ReturnFrame
<1>2. current \in Tasks
  BY ListedTasks
<1>3. left' = [left EXCEPT ![current] = reg]
  BY DEF Enter
<1>4. /\ left' = [t \in Tasks |-> left'[t]]
      /\ left'[current] = reg /\ \A t \in Tasks : t # current => left'[t] = left[t]
  BY <1>2, <1>3 DEF Shape
<1>5. \A t \in Tasks : IsRegs(left'[t])
  BY <1>4 DEF Shape
<1> DEFINE R == [reg EXCEPT !["cs"] = KernelSegments.cs, !["ss"] = KernelSegments.ss,
                            !["esp"] = KERNEL_STACK_ADDR, !["eflags"] = Eflags(@[2], FALSE)]
<1>6. cpu' = [cpu EXCEPT !.reg = R]
  BY DEF Enter
<1>7. IsRegs(R)
  BY DEF IsRegs
<1> HIDE DEF R
<1>8. cpu' = [reg |-> R, cr3 |-> cpu.cr3, seg |-> cpu.seg]
  BY <1>6 DEF Shape
<1>9. QED
  BY <1>1, <1>4, <1>5, <1>7, <1>8

\* What the switch to a task leaves: its structure in the registers.
LEMMA ExecFields ==
  ASSUME Shape, NEW t \in Tasks, task_exec(t)
  PROVE  /\ cpu' = [reg |-> cpu'.reg, cr3 |-> t, seg |-> cpu'.seg] /\ IsRegs(cpu'.reg)
         /\ \A r \in Registers \ {"eflags"} : cpu'.reg[r] = registers[t][r]
         /\ at' \in {"user", "fault"} /\ stack' = <<>> /\ call' = NoCall /\ current' = t
         /\ at' = "user" => cpu'.seg = USER_DATA_SEGMENT /\ UserMode(cpu'.reg)
<1> DEFINE R == [r \in Registers |-> IF r = "eflags" THEN Eflags(cpu.reg["eflags"][2], TRUE)
                                     ELSE registers[t][r]]
<1>1. cpu' = [reg |-> R, cr3 |-> t, seg |-> registers[t]["ss"]]
  BY EnterUserland DEF task_exec
<1>2. /\ at' = IF registers[t]["cs"] = USER_CODE_SEGMENT /\ registers[t]["ss"] = USER_DATA_SEGMENT
               THEN "user" ELSE "fault"
      /\ stack' = <<>> /\ call' = NoCall /\ current' = t
  BY DEF task_exec
<1>3. /\ R["eflags"] = Eflags(cpu.reg["eflags"][2], TRUE)
      /\ R["cs"] = registers[t]["cs"] /\ R["ss"] = registers[t]["ss"]
      /\ \A r \in Registers \ {"eflags"} : R[r] = registers[t][r]
  BY NameSets
<1>4. IsRegs(R)
  BY DEF IsRegs
<1> HIDE DEF R
<1>5. R["eflags"][3] = TRUE
  BY <1>3 DEF Eflags
<1>6. cpu'.reg = R /\ cpu'.cr3 = t /\ cpu'.seg = registers[t]["ss"]
  BY <1>1
<1>7. at' = "user" => cpu'.seg = USER_DATA_SEGMENT /\ UserMode(cpu'.reg)
  BY <1>2, <1>3, <1>5, <1>6 DEF UserMode
<1>8. QED
  BY <1>1, <1>2, <1>3, <1>4, <1>6, <1>7

\* What the way back to the interrupted program leaves.
LEMMA LeaveFields ==
  ASSUME Inv, at \in Returning, NEW gp, Leave(gp)
  PROVE  /\ cpu' = [reg |-> cpu'.reg, cr3 |-> current, seg |-> USER_DATA_SEGMENT]
         /\ cpu'.reg = [r \in Registers |-> IF r \in GeneralPurpose THEN gp[r] ELSE left[current][r]]
         /\ UserMode(cpu'.reg)
         /\ at' = "user" /\ stack' = <<>>
<1> DEFINE R == [r \in Registers |-> IF r \in GeneralPurpose THEN gp[r] ELSE left[current][r]]
<1>1. stack = Frame(left[current], <<>>) /\ UserMode(left[current])
  BY DEF Inv, Stacked, Modes
<1>2. iretd(SubSeq(stack, Len(Pushad) + 1, Len(interrupt_frame)), gp) = R
  BY <1>1, IretdRestores
<1>3. at' = "user" /\ stack' = <<>> /\ cpu' = [swap_curr_task_page_tables EXCEPT !.reg = R]
  BY <1>2 DEF Leave
<1>4. R["cs"] = left[current]["cs"] /\ R["ss"] = left[current]["ss"] /\ R["eflags"] = left[current]["eflags"]
  BY NameSets
<1>5. UserMode(R)
  BY <1>1, <1>4 DEF UserMode
<1> HIDE DEF R
<1>6. cpu' = [reg |-> R, cr3 |-> current, seg |-> USER_DATA_SEGMENT]
  BY <1>3 DEF swap_curr_task_page_tables, Inv, Shape
<1>7. QED
  BY <1>3, <1>5, <1>6 DEF R

\* A program computes.
LEMMA ComputesInv == ASSUME Inv, NEW v \in Values, Computes(v) PROVE Inv'
<1>1. Shape /\ Stacked /\ Modes /\ Saved /\ at = "user" /\ current \in Tasks
  BY ListedTasks DEF Inv, Computes
<1>2. /\ cpu' = [reg |-> UserRegisters(v), cr3 |-> cpu.cr3, seg |-> cpu.seg]
      /\ left' = [left EXCEPT ![current] = UserRegisters(v)]
      /\ call' = NoCall
      /\ UNCHANGED <<at, stack, registers, loaded, ended, current, raised, serving>>
  BY <1>1 DEF Computes, Shape
<1>3. cpu'.reg = UserRegisters(v) /\ cpu'.cr3 = cpu.cr3 /\ cpu'.seg = cpu.seg
  BY <1>2
<1>4. IsRegs(UserRegisters(v)) /\ UserMode(UserRegisters(v))
  BY RegisterValues
<1>5. /\ left' = [t \in Tasks |-> left'[t]] /\ left'[current] = UserRegisters(v)
      /\ \A t \in Tasks : t # current => left'[t] = left[t]
  BY <1>1, <1>2 DEF Shape
<1>6. Shape'
  BY <1>1, <1>2, <1>3, <1>4, <1>5 DEF Shape
<1>7. Stacked'
  BY <1>1, <1>2 DEF Stacked, Returning, Ending
<1>8. Modes'
  BY <1>1, <1>2, <1>3, <1>4 DEF Modes, Returning, Ending, WithTables
<1>9. Saved'
  BY <1>1, <1>2, <1>5 DEF Saved
<1>10. Calls'
  <2>1. call'.task = KERNEL /\ current # KERNEL
    BY <1>1, <1>2, NameSets DEF NoCall
  <2>2. QED
    BY <1>1, <1>2, <2>1 DEF Calls, Answered
<1>11. ResumesAsLeft'
  BY <1>2, <1>3, <1>5 DEF ResumesAsLeft
<1>12. QED
  BY <1>6, <1>7, <1>8, <1>9, <1>10, <1>11 DEF Inv

\* A system call, an exception and an interrupt enter the kernel.
LEMMA EntersInv ==
  ASSUME Inv, at = "user", NEW reg, IsRegs(reg), UserMode(reg), NEW error \in Errors,
         Enter(reg, error), UNCHANGED <<registers, loaded, ended, current>>,
         raised' \subseteq Irqs, serving' \subseteq Irqs,
         at' \in {"isr80h", "exception", "irq"},
         at' # "exception" => error = <<>>,
         at' # "irq" => serving' = {},
         at' = "irq" => Answered(call', current, reg["eax"]),
         at' = "isr80h" => call' = [id |-> reg["eax"][2], task |-> current, esp |-> reg["esp"]]
  PROVE  Inv'
<1>1. Shape /\ Modes /\ Saved /\ current \in Tasks
  BY ListedTasks DEF Inv
<1>2. /\ stack' = Frame(reg, error)
      /\ cpu' = [reg |-> cpu'.reg, cr3 |-> cpu.cr3, seg |-> cpu.seg] /\ IsRegs(cpu'.reg)
      /\ left' = [t \in Tasks |-> left'[t]]
      /\ left'[current] = reg /\ \A t \in Tasks : t # current => left'[t] = left[t]
      /\ \A t \in Tasks : IsRegs(left'[t])
  BY <1>1, EnterFields
<1>3. Shape'
  BY <1>1, <1>2 DEF Shape, Returning, Ending
<1>4. Stacked'
  BY <1>2 DEF Stacked, Returning, Ending
<1>5. Modes'
  BY <1>2 DEF Modes, Returning, Ending, WithTables
<1>6. Saved'
  BY <1>1, <1>2 DEF Saved
<1>7. Calls'
  BY <1>2 DEF Calls
<1>8. ResumesAsLeft'
  BY DEF ResumesAsLeft
<1>9. QED
  BY <1>3, <1>4, <1>5, <1>6, <1>7, <1>8 DEF Inv

\* int 0x80.
LEMMA Int80Inv == ASSUME Inv, NEW id \in CommandIds, Int80(id) PROVE Inv'
<1> DEFINE reg == [cpu.reg EXCEPT !["eax"] = <<"eax", id>>]
<1>1. Shape /\ Modes /\ at = "user" /\ serving = {} /\ raised \subseteq Irqs
  BY DEF Inv, Int80, Shape, Modes
<1>2. /\ Enter(reg, <<>>) /\ at' = "isr80h"
      /\ call' = [id |-> id, task |-> current, esp |-> cpu.reg["esp"]]
      /\ UNCHANGED <<registers, loaded, ended, current, raised, serving>>
  BY DEF Int80
<1>3. IsRegs(reg) /\ reg["eax"] = <<"eax", id>> /\ reg["eax"][2] = id
        /\ \A r \in Registers \ {"eax"} : reg[r] = cpu.reg[r]
  BY <1>1, NameSets DEF Shape, IsRegs
<1> HIDE DEF reg
<1>4. UserMode(reg) /\ reg["esp"] = cpu.reg["esp"]
  BY <1>1, <1>3, NameSets DEF Modes, UserMode
<1>5. <<>> \in Errors /\ call' = [id |-> reg["eax"][2], task |-> current, esp |-> reg["esp"]]
  BY <1>2, <1>3, <1>4 DEF Errors
<1>6. QED
  BY <1>1, <1>2, <1>3, <1>4, <1>5, EntersInv

\* An exception.
LEMMA ExceptionInv == ASSUME Inv, NEW error \in Errors, Exception(error) PROVE Inv'
<1>1. /\ at = "user" /\ IsRegs(cpu.reg) /\ UserMode(cpu.reg) /\ serving = {} /\ raised \subseteq Irqs
  BY DEF Inv, Exception, Shape, Modes
<1>2. /\ Enter(cpu.reg, error) /\ at' = "exception"
      /\ UNCHANGED <<registers, loaded, ended, current, raised, serving>>
  BY DEF Exception
<1>3. QED
  BY <1>1, <1>2, EntersInv

\* The delivery of an interrupt.
LEMMA DeliverInv == ASSUME Inv, NEW q \in Irqs, Deliver(q) PROVE Inv'
<1>1. /\ at = "user" /\ IsRegs(cpu.reg) /\ UserMode(cpu.reg) /\ raised \subseteq Irqs
      /\ Answered(call, current, cpu.reg["eax"])
  BY DEF Inv, Deliver, Shape, Modes, Calls
<1>2. /\ Enter(cpu.reg, <<>>) /\ at' = "irq" /\ raised' = raised \ {q} /\ serving' = {q}
      /\ UNCHANGED <<registers, loaded, ended, current, call>>
  BY DEF Deliver
<1>3. <<>> \in Errors /\ serving' \subseteq Irqs /\ raised' \subseteq Irqs
  BY <1>1, <1>2 DEF Errors
<1>4. Answered(call', current, cpu.reg["eax"])
  BY <1>1, <1>2
<1>5. QED
  BY <1>1, <1>2, <1>3, <1>4, EntersInv

\* A switch to task t of the list, when every task that is not ended has its
\* registers saved.
LEMMA SwitchInv ==
  ASSUME Inv, at \in {"boot", "command", "trapped"}, NEW t \in Tasks, task_exec(t),
         UNCHANGED <<registers, raised, serving>>,
         loaded' \in Tasks, t \in 1..loaded', ended' \subseteq 1..loaded',
         left' = [u \in Tasks |-> left'[u]], \A u \in Tasks : IsRegs(left'[u]),
         \A u \in Tasks \ ended' : registers[u] = left'[u]
  PROVE  Inv'
<1>1. Shape /\ serving = {} /\ raised \subseteq Irqs
  BY DEF Inv, Modes, Shape
<1>2. /\ cpu' = [reg |-> cpu'.reg, cr3 |-> t, seg |-> cpu'.seg] /\ IsRegs(cpu'.reg)
      /\ \A r \in Registers \ {"eflags"} : cpu'.reg[r] = registers[t][r]
      /\ at' \in {"user", "fault"} /\ stack' = <<>> /\ call' = NoCall /\ current' = t
      /\ at' = "user" => cpu'.seg = USER_DATA_SEGMENT /\ UserMode(cpu'.reg)
  BY <1>1, ExecFields
<1>3. cpu'.cr3 = t
  BY <1>2
<1>4. Shape'
  BY <1>1, <1>2, <1>3 DEF Shape
<1>5. Stacked'
  BY <1>2 DEF Stacked, Returning, Ending
<1>6. Modes'
  BY <1>1, <1>2, <1>3 DEF Modes, Returning, Ending, WithTables
<1>7. Saved'
  BY <1>2 DEF Saved
<1>8. Calls'
  <2>1. call'.task = KERNEL /\ t # KERNEL
    BY <1>2, NameSets DEF NoCall
  <2>2. QED
    BY <1>2, <2>1 DEF Calls, Answered
<1>9. ResumesAsLeft'
  BY <1>2 DEF ResumesAsLeft
<1>10. QED
  BY <1>4, <1>5, <1>6, <1>7, <1>8, <1>9 DEF Inv

\* The first program.
LEMMA KernelMainInv == ASSUME Inv, kernel_main PROVE Inv'
<1>1. at = "boot" /\ task_exec(1) /\ UNCHANGED <<registers, loaded, ended, raised, serving, left>>
  BY DEF kernel_main
<1>2. Shape /\ Saved
  BY DEF Inv
<1>3. 1 \in Tasks /\ loaded \in Tasks /\ 1 \in 1..loaded
  <2>1. loaded \in Tasks
    BY <1>2, ListedTasks
  <2>2. QED
    BY <2>1, ContextAssumption DEF Tasks
<1>4. \A u \in Tasks \ ended : registers[u] = left[u]
  BY <1>1, <1>2 DEF Saved
<1>5. QED
  BY <1>1, <1>2, <1>3, <1>4, SwitchInv DEF Shape

\* execve: the new task is the last of the list.
LEMMA ExecveInv == ASSUME Inv, isr80h_command_6_execve PROVE Inv'
<1>1. /\ at = "command" /\ loaded < MaxTasks /\ loaded' = loaded + 1 /\ task_exec(loaded + 1)
      /\ UNCHANGED <<registers, ended, raised, serving, left>>
  BY DEF isr80h_command_6_execve
<1>2. Shape /\ Saved /\ loaded \in Tasks /\ ended \subseteq 1..loaded
  BY DEF Inv, Shape
<1>3. loaded + 1 \in Tasks /\ loaded + 1 \in 1 .. loaded + 1 /\ ended \subseteq 1 .. loaded + 1
  BY <1>1, <1>2, ContextAssumption DEF Tasks
<1>4. \A u \in Tasks \ ended : registers[u] = left[u]
  BY <1>1, <1>2 DEF Saved
<1>5. left = [u \in Tasks |-> left[u]] /\ \A u \in Tasks : IsRegs(left[u])
  BY <1>2 DEF Shape
<1>6. QED
  BY <1>1, <1>3, <1>4, <1>5, SwitchInv

\* exit, and an exception: the next task of the list.
LEMMA EndProcessInv == ASSUME Inv, at \in {"command", "trapped"}, EndProcess PROVE Inv'
<1>1. /\ ended' = ended \cup {current} /\ task_exec(task_get_next)
      /\ left' = [left EXCEPT ![current] = task_init]
      /\ UNCHANGED <<registers, loaded, raised, serving>>
  BY DEF EndProcess
<1>2. Shape /\ Saved /\ current \in Tasks /\ loaded \in Tasks
        /\ current \in 1..loaded /\ ended \subseteq 1..loaded
  BY ListedTasks DEF Inv, Shape
<1>3. task_get_next \in 1..loaded /\ task_get_next \in Tasks
  BY <1>2, ContextAssumption DEF task_get_next, Tasks
<1>4. /\ left' = [u \in Tasks |-> left'[u]] /\ left'[current] = task_init
      /\ \A u \in Tasks : u # current => left'[u] = left[u]
  BY <1>1, <1>2 DEF Shape
<1>5. \A u \in Tasks : IsRegs(left'[u])
  BY <1>2, <1>4, RegisterValues DEF Shape, task_init
<1>6. \A u \in Tasks \ ended' : registers[u] = left'[u]
  BY <1>1, <1>2, <1>4 DEF Saved
<1>7. loaded' \in Tasks /\ task_get_next \in 1..loaded' /\ ended' \subseteq 1..loaded'
  BY <1>1, <1>2, <1>3
<1>8. QED
  BY <1>1, <1>3, <1>4, <1>5, <1>6, <1>7, SwitchInv

\* The registers that the handlers save are those of the interrupted program.
LEMMA SavedState ==
  ASSUME Shape, stack = Frame(left[current], <<>>)
  PROVE  /\ task_current_save_state = [t \in Tasks |-> task_current_save_state[t]]
         /\ task_current_save_state[current] = left[current]
         /\ \A t \in Tasks : t # current => task_current_save_state[t] = registers[t]
<1> DEFINE R == [r \in Registers |-> Field(r)]
<1>1. current \in Tasks /\ IsRegs(left[current])
  BY ListedTasks DEF Shape
<1>2. R = left[current]
  BY <1>1, FieldIsRegister DEF IsRegs
<1>3. task_current_save_state = [registers EXCEPT ![current] = R]
  BY DEF task_current_save_state
<1> HIDE DEF R
<1>4. QED
  BY <1>1, <1>2, <1>3 DEF Shape

\* The kernel's tables, segments and flags.
LEMMA KernelTables ==
  /\ swap_kernel_page_tables = [reg |-> swap_kernel_page_tables.reg, cr3 |-> KERNEL, seg |-> KernelSegments.ss]
  /\ IsRegs(swap_kernel_page_tables.reg)
  /\ swap_kernel_page_tables.reg["eflags"] = Eflags(0, FALSE)
BY RegisterValues DEF swap_kernel_page_tables

\* The start of the handler of system calls.
LEMMA HandlerInv == ASSUME Inv, isr80h_handler PROVE Inv'
<1>1. /\ at = "isr80h" /\ at' = "command" /\ cpu' = swap_kernel_page_tables
      /\ registers' = task_current_save_state
      /\ UNCHANGED <<stack, loaded, ended, current, raised, serving, left, call>>
  BY DEF isr80h_handler
<1>2. /\ Shape /\ Modes /\ Saved /\ Calls /\ current \in Tasks
      /\ stack = Frame(left[current], <<>>) /\ UserMode(left[current])
  BY <1>1, ListedTasks DEF Inv, Stacked, Modes, Returning
<1>3. /\ registers' = [t \in Tasks |-> registers'[t]] /\ registers'[current] = left[current]
      /\ \A t \in Tasks : t # current => registers'[t] = registers[t]
  BY <1>1, <1>2, SavedState
<1>4. /\ cpu' = [reg |-> cpu'.reg, cr3 |-> cpu'.cr3, seg |-> cpu'.seg] /\ IsRegs(cpu'.reg)
      /\ cpu'.cr3 = KERNEL /\ cpu'.seg = KernelSegments.ss /\ cpu'.reg["eflags"] = Eflags(0, FALSE)
  BY <1>1, KernelTables
<1>5. Shape'
  BY <1>1, <1>2, <1>3, <1>4 DEF Shape, Returning
<1>6. Stacked'
  BY <1>1, <1>2 DEF Stacked, Returning, Ending
<1>7. Modes'
  BY <1>1, <1>2, <1>4 DEF Modes
<1>8. Saved'
  BY <1>1, <1>2, <1>3 DEF Saved
<1>9. Calls'
  BY <1>1, <1>2 DEF Calls
<1>10. ResumesAsLeft'
  BY <1>1 DEF ResumesAsLeft
<1>11. QED
  BY <1>5, <1>6, <1>7, <1>8, <1>9, <1>10 DEF Inv

\* A command that returns: the number and the stack pointer it uses are those
\* of the call.
LEMMA CommandInv == ASSUME Inv, isr80h_handle_command PROVE Inv'
<1> DEFINE answer == Returned(Command(Field("eax")[2]), task_get_stack_item(current))
<1>1. /\ at = "command" /\ at' = "result" /\ cpu' = [cpu EXCEPT !.reg["eax"] = answer]
      /\ UNCHANGED <<stack, registers, loaded, ended, current, raised, serving, left, call>>
  BY DEF isr80h_handle_command
<1>2. /\ Shape /\ Modes /\ Saved /\ Calls /\ current \in Tasks
      /\ stack = Frame(left[current], <<>>) /\ registers[current] = left[current]
      /\ call = [id |-> left[current]["eax"][2], task |-> current, esp |-> left[current]["esp"]]
  BY <1>1, ListedTasks DEF Inv, Stacked, Saved, Calls, Returning
<1>3. Field("eax") = left[current]["eax"]
  <2>1. "eax" \in Registers
    BY NameSets
  <2>2. QED
    BY <1>2, <2>1, FieldIsRegister
<1>4. answer = Returned(Command(call.id), <<call.task, call.esp>>)
  BY <1>2, <1>3 DEF task_get_stack_item
<1> HIDE DEF answer
<1>5. /\ cpu' = [reg |-> cpu'.reg, cr3 |-> cpu.cr3, seg |-> cpu.seg] /\ IsRegs(cpu'.reg)
      /\ cpu'.reg["eax"] = answer /\ cpu'.reg["eflags"] = cpu.reg["eflags"]
  <2>1. cpu = [reg |-> cpu.reg, cr3 |-> cpu.cr3, seg |-> cpu.seg] /\ IsRegs(cpu.reg)
    BY <1>2 DEF Shape
  <2>2. cpu' = [reg |-> [cpu.reg EXCEPT !["eax"] = answer], cr3 |-> cpu.cr3, seg |-> cpu.seg]
    BY <1>1, <2>1
  <2>3. /\ IsRegs([cpu.reg EXCEPT !["eax"] = answer])
        /\ [cpu.reg EXCEPT !["eax"] = answer]["eax"] = answer
        /\ [cpu.reg EXCEPT !["eax"] = answer]["eflags"] = cpu.reg["eflags"]
    BY <2>1, NameSets DEF IsRegs
  <2>4. QED
    BY <2>2, <2>3
<1>6. cpu'.cr3 = cpu.cr3 /\ cpu'.seg = cpu.seg
  BY <1>5
<1>7. Shape'
  BY <1>1, <1>2, <1>5, <1>6 DEF Shape, Returning
<1>8. Stacked'
  BY <1>1, <1>2 DEF Stacked, Returning, Ending
<1>9. Modes'
  BY <1>1, <1>2, <1>5, <1>6 DEF Modes, Returning, Ending, WithTables
<1>10. Saved'
  BY <1>1, <1>2 DEF Saved
<1>11. Calls'
  BY <1>1, <1>2, <1>4, <1>5 DEF Calls, Answered
<1>12. ResumesAsLeft'
  BY <1>1 DEF ResumesAsLeft
<1>13. QED
  BY <1>7, <1>8, <1>9, <1>10, <1>11, <1>12 DEF Inv

\* Back to the program, with eax from the command or from the frame.
LEMMA ReturnsInv ==
  ASSUME Inv, at \in {"result", "handled"}, NEW gp,
         Leave(gp), UNCHANGED <<registers, loaded, ended, current, raised, left, call>>, serving' = {},
         \A r \in GeneralPurpose \ {"eax"} : gp[r] = left[current][r],
         Answered(call, current, gp["eax"])
  PROVE  Inv'
<1>1. Shape /\ Saved /\ current \in Tasks /\ at \in Returning
  BY ListedTasks DEF Inv, Returning
<1>2. /\ cpu' = [reg |-> cpu'.reg, cr3 |-> current, seg |-> USER_DATA_SEGMENT]
      /\ cpu'.reg = [r \in Registers |-> IF r \in GeneralPurpose THEN gp[r] ELSE left[current][r]]
      /\ UserMode(cpu'.reg)
      /\ at' = "user" /\ stack' = <<>>
  BY <1>1, LeaveFields
<1>3. cpu'.cr3 = current /\ cpu'.seg = USER_DATA_SEGMENT
  BY <1>2
<1>4. /\ IsRegs(cpu'.reg) /\ cpu'.reg["eax"] = gp["eax"]
      /\ \A r \in Registers \ {"eax"} : cpu'.reg[r] = left[current][r]
  BY <1>2, NameSets DEF IsRegs
<1>5. Shape'
  BY <1>1, <1>2, <1>3, <1>4 DEF Shape
<1>6. Stacked'
  BY <1>2 DEF Stacked, Returning, Ending
<1>7. Modes'
  BY <1>2, <1>3 DEF Modes, Returning, Ending, WithTables
<1>8. Saved'
  BY <1>1, <1>2 DEF Saved, Returning
<1>9. Calls'
  BY <1>2, <1>4 DEF Calls
<1>10. ResumesAsLeft'
  BY <1>4 DEF ResumesAsLeft
<1>11. QED
  BY <1>5, <1>6, <1>7, <1>8, <1>9, <1>10 DEF Inv

\* popad restores the general registers from the frame.
LEMMA PopadRestores ==
  ASSUME Inv, at \in Returning
  PROVE  popad = [r \in GeneralPurpose |-> left[current][r]]
<1>1. stack = Frame(left[current], <<>>)
  BY DEF Inv, Stacked
<1>2. \A r \in GeneralPurpose : Field(r) = left[current][r]
  BY <1>1, FieldIsRegister, NameSets
<1>3. QED
  BY <1>2 DEF popad

\* The end of a system call.
LEMMA WrapperInv == ASSUME Inv, isr80h_wrapper PROVE Inv'
<1> DEFINE gp == [popad EXCEPT !["eax"] = cpu.reg["eax"]]
<1>1. /\ at = "result" /\ Leave(gp)
      /\ UNCHANGED <<registers, loaded, ended, current, raised, serving, left, call>>
  BY DEF isr80h_wrapper
<1>2. serving = {} /\ Answered(call, current, cpu.reg["eax"])
  BY <1>1 DEF Inv, Modes, Calls
<1>3. popad = [r \in GeneralPurpose |-> left[current][r]]
  BY <1>1, PopadRestores DEF Returning
<1>4. gp["eax"] = cpu.reg["eax"] /\ \A r \in GeneralPurpose \ {"eax"} : gp[r] = left[current][r]
  BY <1>3, NameSets
<1> HIDE DEF gp
<1>5. QED
  BY <1>1, <1>2, <1>4, ReturnsInv

\* The end of an interrupt.
LEMMA InterruptReturnsInv == ASSUME Inv, interrupt_returns PROVE Inv'
<1>1. /\ at = "handled" /\ Leave(popad) /\ serving' = {}
      /\ UNCHANGED <<registers, loaded, ended, current, raised, left, call>>
  BY DEF interrupt_returns, Acknowledged
<1>2. Answered(call, current, left[current]["eax"])
  BY <1>1 DEF Inv, Calls
<1>3. popad = [r \in GeneralPurpose |-> left[current][r]]
  BY <1>1, PopadRestores DEF Returning
<1>4. popad["eax"] = left[current]["eax"] /\ \A r \in GeneralPurpose \ {"eax"} : popad[r] = left[current][r]
  BY <1>3, NameSets
<1>5. QED
  BY <1>1, <1>2, <1>4, ReturnsInv

\* The handler of interrupts and exceptions.  What it saves of a task with an
\* error code on the stack is wrong, and no task reads it: that task ends.
LEMMA InterruptHandlerInv == ASSUME Inv, interrupt_handler PROVE Inv'
<1>1. /\ at \in {"irq", "exception"} /\ at' = IF at = "irq" THEN "handled" ELSE "trapped"
      /\ cpu' = swap_kernel_page_tables
      /\ registers' \in {task_current_save_state, registers}
      /\ UNCHANGED <<stack, loaded, ended, current, raised, serving, left, call>>
  BY DEF interrupt_handler
<1>2. Shape /\ Stacked /\ Modes /\ Saved /\ Calls /\ current \in Tasks
  BY ListedTasks DEF Inv
<1>3. /\ registers' = [t \in Tasks |-> registers'[t]] /\ \A t \in Tasks : IsRegs(registers'[t])
      /\ \A t \in Tasks : t # current => registers'[t] = registers[t]
  <2> DEFINE R == [r \in Registers |-> Field(r)]
  <2>1. IsRegs(R)
    BY DEF IsRegs
  <2>2. task_current_save_state = [registers EXCEPT ![current] = R]
    BY DEF task_current_save_state
  <2> HIDE DEF R
  <2>3. CASE registers' = [registers EXCEPT ![current] = R]
    BY <1>2, <2>1, <2>3 DEF Shape
  <2>4. CASE registers' = registers
    BY <1>2, <2>4 DEF Shape
  <2>5. QED
    BY <1>1, <2>2, <2>3, <2>4
<1>4. /\ cpu' = [reg |-> cpu'.reg, cr3 |-> cpu'.cr3, seg |-> cpu'.seg] /\ IsRegs(cpu'.reg)
      /\ cpu'.cr3 = KERNEL /\ cpu'.seg = KernelSegments.ss /\ cpu'.reg["eflags"] = Eflags(0, FALSE)
  BY <1>1, KernelTables
<1>5. Shape'
  BY <1>1, <1>2, <1>3, <1>4 DEF Shape, Returning, Ending
<1>6. Stacked'
  BY <1>1, <1>2 DEF Stacked, Returning, Ending
<1>7. Modes'
  BY <1>1, <1>2, <1>4 DEF Modes, Returning, Ending
<1>8. Saved'
  BY <1>1, <1>2, <1>3 DEF Saved
<1>9. Calls'
  BY <1>1, <1>2 DEF Calls
<1>10. ResumesAsLeft'
  BY <1>1 DEF ResumesAsLeft
<1>11. QED
  BY <1>5, <1>6, <1>7, <1>8, <1>9, <1>10 DEF Inv

\* The divide error.
LEMMA IdtZeroInv == ASSUME Inv, idt_zero PROVE Inv'
<1> DEFINE R == [Clobbered(cpu.reg) EXCEPT !["cs"] = KernelSegments.cs, !["ss"] = KernelSegments.ss,
                                           !["esp"] = KERNEL_STACK_ADDR]
<1>1. /\ at = "user" /\ at' = "ring0"
      /\ cpu' = [cpu EXCEPT !.reg = R]
      /\ stack' = <<cpu.reg["cs"], cpu.reg["eflags"], cpu.reg["esp"], cpu.reg["ss"]>>
      /\ left' = [left EXCEPT ![current] = cpu.reg]
      /\ UNCHANGED <<registers, loaded, ended, current, raised, serving, call>>
  BY DEF idt_zero
<1>2. Shape /\ Modes /\ Saved /\ current \in Tasks
  BY ListedTasks DEF Inv
<1>3. IsRegs(R)
  BY RegisterValues DEF IsRegs
<1> HIDE DEF R
<1>4. cpu' = [reg |-> R, cr3 |-> cpu.cr3, seg |-> cpu.seg]
  BY <1>1, <1>2 DEF Shape
<1>5. /\ left' = [t \in Tasks |-> left'[t]] /\ left'[current] = cpu.reg
      /\ \A t \in Tasks : t # current => left'[t] = left[t]
  BY <1>1, <1>2 DEF Shape
<1>6. Shape'
  BY <1>1, <1>2, <1>3, <1>4, <1>5 DEF Shape
<1>7. Stacked'
  BY <1>1 DEF Stacked, Returning, Ending
<1>8. Modes'
  BY <1>1, <1>2 DEF Modes, Returning, Ending, WithTables
<1>9. Saved'
  BY <1>1, <1>2, <1>5 DEF Saved
<1>10. Calls'
  BY <1>1 DEF Calls
<1>11. ResumesAsLeft'
  BY <1>1 DEF ResumesAsLeft
<1>12. QED
  BY <1>6, <1>7, <1>8, <1>9, <1>10, <1>11 DEF Inv

\* A step that only raises an interrupt, or does nothing.
LEMMA SameInv ==
  ASSUME Inv, UNCHANGED <<at, cpu, stack, registers, loaded, ended, current, serving, left, call>>,
         raised' \subseteq Irqs
  PROVE  Inv'
<1>1. Shape'
  BY DEF Inv, Shape
<1>2. Stacked'
  BY DEF Inv, Stacked
<1>3. Modes'
  BY DEF Inv, Modes
<1>4. Saved'
  BY DEF Inv, Saved
<1>5. Calls'
  BY DEF Inv, Calls
<1>6. ResumesAsLeft'
  BY DEF Inv, ResumesAsLeft
<1>7. QED
  BY <1>1, <1>2, <1>3, <1>4, <1>5, <1>6 DEF Inv

\* Every step preserves the invariant.
LEMMA NextInv == Inv /\ [Next]_vars => Inv'
<1> SUFFICES ASSUME Inv, [Next]_vars PROVE Inv'
  OBVIOUS
<1>1. CASE KernelStep
  <2>1. CASE kernel_main
    BY <2>1, KernelMainInv
  <2>2. CASE isr80h_handler
    BY <2>2, HandlerInv
  <2>3. CASE isr80h_handle_command
    BY <2>3, CommandInv
  <2>4. CASE isr80h_wrapper
    BY <2>4, WrapperInv
  <2>5. CASE isr80h_command_6_execve
    BY <2>5, ExecveInv
  <2>6. CASE isr80h_command_7_exit
    BY <2>6, EndProcessInv DEF isr80h_command_7_exit
  <2>7. CASE interrupt_handler
    BY <2>7, InterruptHandlerInv
  <2>8. CASE interrupt_returns
    BY <2>8, InterruptReturnsInv
  <2>9. CASE idt_handle_user_process_exception
    BY <2>9, EndProcessInv DEF idt_handle_user_process_exception
  <2>10. QED
    BY <1>1, <2>1, <2>2, <2>3, <2>4, <2>5, <2>6, <2>7, <2>8, <2>9 DEF KernelStep
<1>2. ASSUME NEW v \in Values, Computes(v) PROVE Inv'
  BY <1>2, ComputesInv
<1>3. ASSUME NEW id \in CommandIds, Int80(id) PROVE Inv'
  BY <1>3, Int80Inv
<1>4. ASSUME NEW error \in {<<>>, <<<<"error">>>>}, Exception(error) PROVE Inv'
  BY <1>4, ExceptionInv DEF Errors
<1>5. CASE idt_zero
  BY <1>5, IdtZeroInv
<1>6. ASSUME NEW q \in Irqs, Raise(q) PROVE Inv'
  <2>1. raised \subseteq Irqs
    BY DEF Inv, Shape
  <2>2. QED
    BY <1>6, <2>1, SameInv DEF Raise
<1>7. ASSUME NEW q \in Irqs, Deliver(q) PROVE Inv'
  BY <1>7, DeliverInv
<1>8. CASE UNCHANGED vars
  <2>1. raised \subseteq Irqs
    BY DEF Inv, Shape
  <2>2. QED
    BY <1>8, <2>1, SameInv DEF vars
<1>9. QED
  BY <1>1, <1>2, <1>3, <1>4, <1>5, <1>6, <1>7, <1>8 DEF Next, Stopped

-----------------------------------------------------------------------------
\* The inductive invariant: the frame that an entry stub pushes, the structure
\* that task_current_save_state fills and the registers a task was left with
\* agree at every step.
THEOREM ContextInvariant == Spec => []Inv
BY InitInv, NextInv, PTL DEF Spec

\* Type correctness; the kernel stack never holds more than the frame of one
\* entry, as interrupt gates turn interrupts off.
THEOREM ContextTypeCorrect == Spec => []TypeOK
<1>1. Inv => TypeOK
  <2> SUFFICES ASSUME Inv PROVE TypeOK
    OBVIOUS
  <2>1. Len(stack) <= 14
    <3>1. at \in {"boot", "user", "fault", "ring0"} \cup Returning \cup Ending /\ <<>> \in Errors
      BY DEF Inv, Shape, Errors
    <3>2. CASE at \in {"boot", "user", "fault"}
      BY <3>2 DEF Inv, Stacked
    <3>3. CASE at = "ring0"
      <4>1. Len(stack) = 4
        BY <3>3 DEF Inv, Stacked
      <4>2. QED
        BY <4>1
    <3>4. CASE at \in Returning \cup Ending
      <4>1. \E error \in Errors : stack = Frame(left[current], error)
        BY <3>1, <3>4 DEF Inv, Stacked
      <4>2. QED
        BY <4>1, FrameElements
    <3>5. QED
      BY <3>1, <3>2, <3>3, <3>4
  <2>2. DOMAIN cpu.reg = Registers
    BY DEF Inv, Shape, IsRegs
  <2>3. Len(interrupt_frame) = 13
    BY InterruptFrame
  <2>4. QED
    BY <2>1, <2>2, <2>3 DEF Inv, Shape, TypeOK, Returning, Ending
<1>2. QED
  BY <1>1, ContextInvariant, PTL

\* Programs run in ring 3 on their own page tables and segments, the commands and
\* handlers that the stubs of idt.asm call on the kernel's.
THEOREM ContextRightTables == Spec => []RightTables
<1>1. Inv => RightTables
  <2>1. Eflags(0, FALSE)[3] = FALSE
    BY DEF Eflags
  <2>2. QED
    BY <2>1 DEF Inv, Modes, RightTables, UserMode, InterruptsOn, WithTables
<1>2. QED
  BY <1>1, ContextInvariant, PTL

\* A task runs on with the registers that task_current_save_state found, however
\* many tasks the kernel has switched to in between.
THEOREM ContextResumes == Spec => []ResumesAsLeft
<1>1. Inv => ResumesAsLeft
  BY DEF Inv
<1>2. QED
  BY <1>1, ContextInvariant, PTL

\* A program finds in eax what isr80h_handle_command returned for its own system
\* call.
THEOREM ContextAnswers == Spec => []SyscallAnswers
<1>1. Inv => SyscallAnswers
  BY DEF Inv, Calls, Answered, SyscallAnswers
<1>2. QED
  BY <1>1, ContextInvariant, PTL

\* A device's interrupt, through interrupt_handler and iretd, leaves the
\* interrupted program as it was.
THEOREM ContextTransparent == Spec => InterruptIsTransparent
<1>1. Inv /\ [Next]_vars =>
        [at = "handled" /\ at' = "user" => cpu'.reg = left[current] /\ current' = current]_vars
  <2> SUFFICES ASSUME Inv, Next, at = "handled", at' = "user"
               PROVE  cpu'.reg = left[current] /\ current' = current
    BY DEF vars
  <2>1. interrupt_returns
    BY DEF Next, KernelStep, kernel_main, isr80h_handler, isr80h_handle_command, isr80h_wrapper,
           isr80h_command_6_execve, isr80h_command_7_exit, interrupt_handler,
           idt_handle_user_process_exception, Computes, Int80, Exception, idt_zero, Raise, Deliver,
           Stopped
  <2>2. Leave(popad) /\ current' = current /\ at \in Returning
    BY <2>1 DEF interrupt_returns, Returning
  <2>3. popad = [r \in GeneralPurpose |-> left[current][r]]
    BY <2>2, PopadRestores
  <2>4. cpu'.reg = [r \in Registers |-> IF r \in GeneralPurpose THEN popad[r] ELSE left[current][r]]
    BY <2>2, LeaveFields
  <2>5. cpu'.reg = [r \in Registers |-> left[current][r]]
    BY <2>3, <2>4
  <2>6. IsRegs(left[current])
    BY ListedTasks DEF Inv, Shape
  <2>7. QED
    BY <2>2, <2>5, <2>6 DEF IsRegs
<1>2. QED
  BY <1>1, ContextInvariant, PTL DEF Spec, InterruptIsTransparent
=============================================================================
