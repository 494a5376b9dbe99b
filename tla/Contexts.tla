------------------------------ MODULE Contexts ------------------------------
(***************************************************************************)
(* Saving and restoring contexts: the assembly of                          *)
(* src/src/arch/x86_64/context.rs, the first frames of tasks, TSS.rsp0     *)
(* (src/src/gdt.rs), and what src/src/scheduler.rs does to saved frames.   *)
(*                                                                         *)
(* Memory is an array of 8 byte words that holds one kernel stack after    *)
(* another, main's first.  Interrupt gates clear IF and nothing sets it    *)
(* before iretq, so entry, handler and restore are one action.  Which      *)
(* ready task comes next is the subject of Scheduler; here it may be any.  *)
(* User stacks are not in this memory.  A register of a context holds a    *)
(* number of its own, and a new one each time the context has worked.      *)
(* Words that no context may read again, below a stack pointer or on the   *)
(* stack of a task that has ended, are Junk.                               *)
(***************************************************************************)
EXTENDS Integers, Sequences

CONSTANTS KernelTasks, UserTasks,  \* numbers other than Main
          Parent,        \* user task -> the user task that waits for it, or 0
          StackSize,     \* words of a kernel stack
          HandlerDepth,  \* words below a frame that the Rust handler uses
          MaxDepth       \* bound: words a kernel context keeps on its stack

Main == 0
Tasks == KernelTasks \cup UserTasks
Stacks == {Main} \cup Tasks

ASSUME ContextsAssumption ==
  /\ Tasks \subseteq Nat \ {0}
  /\ KernelTasks \cap UserTasks = {}
  /\ Parent \in [UserTasks -> {0} \cup UserTasks]
  /\ {StackSize, HandlerDepth, MaxDepth} \subseteq Nat
  /\ StackSize % 2 = 0 /\ StackSize >= 22 + MaxDepth + HandlerDepth

VARIABLES mem,      \* the kernel stacks
          cpu,      \* register -> value, of the context that runs
          tss,      \* TSS.privilege_stack_table[0]
          state,    \* task -> "none" (not spawned) or its TaskState
          saved,    \* task -> Context.rsp
          main,     \* main_context.rsp
          enable,   \* what without_interrupts does when run() returns
          current,  \* the running task, or Main for None
          expect    \* context -> the registers it will rely on next

vars == <<mem, cpu, tss, state, saved, main, enable, current, expect>>

-----------------------------------------------------------------------------
(* Orders and layouts *)

\* The pushes of the five interrupt entries.
PushOrder == <<"rax", "rbx", "rcx", "rdx", "rbp", "rdi", "rsi", "r8", "r9",
               "r10", "r11", "r12", "r13", "r14", "r15">>

\* struct TrapFrame, from its lowest word.
TrapFrame == <<"r15", "r14", "r13", "r12", "r11", "r10", "r9", "r8", "rsi",
               "rdi", "rbp", "rdx", "rcx", "rbx", "rax",
               "rip", "cs", "rflags", "rsp", "ss">>

\* The pops of restore_interrupt_context with two of them swapped.
SwappedPops == <<"r15", "r14", "r13", "r12", "r11", "r10", "r9", "r8", "rdi",
                 "rsi", "rbp", "rdx", "rcx", "rbx", "rax">>

PopOrder == <<"r15", "r14", "r13", "r12", "r11", "r10", "r9", "r8", "rsi",
              "rdi", "rbp", "rdx", "rcx", "rbx", "rax">>

\* What the CPU pushes at an interrupt, and what iretq pops.
CpuPushes == <<"ss", "rsp", "rflags", "cs", "rip">>
IretPops == <<"rip", "cs", "rflags", "rsp", "ss">>

\* `call switch_from_main_to_task` and its pushes; restore_main_context.
MainPushes == <<"rip", "rbp", "rbx", "r12", "r13", "r14", "r15">>
MainPops == <<"r15", "r14", "r13", "r12", "rbx", "rbp", "rip">>

Regs == {TrapFrame[i] : i \in 1 .. Len(TrapFrame)}

\* Word of a register in a layout, from 0.
Layout(order) ==
  [r \in {order[i] : i \in 1 .. Len(order)} |->
     (CHOOSE i \in 1 .. Len(order) : order[i] = r) - 1]

FrameSlot == Layout(TrapFrame)
PopSlot == Layout(PopOrder \o IretPops)
MainSlot == Layout(MainPops)

UserMode == 3
IsUser(c) == c \in UserTasks
Junk == -1

\* The value that context c has in register r after its k-th piece of work.
Value(c, r, k) == 1000 * (c + 1) + 10 * FrameSlot[r] + k

\* Results of system calls.
Pid(t) == 100 + t

Top(c) == (c + 1) * StackSize

\* The words of a kernel stack, and of all of them.
Zone(c) == Top(c) - StackSize .. Top(c) - 1
Words == UNION {Zone(c) : c \in Stacks}

\* Where the stack of a kernel context starts: new_task leaves a word.
Start(c) == Top(c) - 1

-----------------------------------------------------------------------------
(* Entry and restore *)

\* EntryBase with a mistake: tasks in kernel mode are taken to rsp0 too.
EntryAtRsp0 ==
  LET rsp == IF current # Main THEN tss ELSE cpu["rsp"] IN rsp - (rsp % 2)

\* The CPU takes TSS.rsp0 when it comes from user mode, and aligns the stack.
EntryBase ==
  LET rsp == IF cpu["cs"] = UserMode THEN tss ELSE cpu["rsp"] IN rsp - (rsp % 2)

Pushes(error) == CpuPushes \o (IF error THEN <<"error">> ELSE <<>>) \o PushOrder

FrameRsp(error) == EntryBase - Len(Pushes(error))

\* Memory when the handler is done: the frame, and below it, from the aligned
\* stack pointer, what the handler left there.
Entered(error) ==
  LET frame == FrameRsp(error)
      aligned == frame - (frame % 2)
      word(r) == IF r = "error" THEN Junk ELSE cpu[r]
  IN  [a \in DOMAIN mem |->
         IF a \in frame .. EntryBase - 1 THEN word(Pushes(error)[EntryBase - a])
         ELSE IF a \in aligned - HandlerDepth .. aligned - 1 THEN Junk
         ELSE mem[a]]

\* restore_interrupt_context with rsp at a frame.
Restored(m, frame) ==
  [r \in Regs |-> m[frame + PopSlot[r]]]

Popped(m, low, count) == [a \in DOMAIN m |-> IF a \in low .. low + count - 1 THEN Junk ELSE m[a]]

SetField(m, frame, r, value) == [m EXCEPT ![frame + FrameSlot[r]] = value]

NewFrame(t, rflags, arg) ==
  [r \in Regs |->
     CASE r = "rip"    -> Value(t, "rip", 0)
       [] r = "rflags" -> rflags
       [] r = "cs"     -> IF IsUser(t) THEN UserMode ELSE 0
       [] r = "ss"     -> IF IsUser(t) THEN UserMode ELSE 0
       [] r = "rsp"    -> IF IsUser(t) THEN Value(t, "rsp", 0) ELSE Start(t)
       [] r = "rdi"    -> arg
       [] OTHER        -> 0]

\* Context::new_task and Context::new_user_task.
FirstRsp(t) == (IF IsUser(t) THEN Top(t) ELSE Start(t)) - Len(TrapFrame)

-----------------------------------------------------------------------------
(* The end of a handler *)

Ready == {t \in Tasks : state[t] = "Ready"}

\* prepare_to_run with a mistake: TSS.rsp0 stays that of the task before.
KeepKernelStack(t) == tss' = IF current = Main THEN Top(t) ELSE tss

LoadKernelStackFor(t) == tss' = Top(t)

\* A handler that returns the frame it was given.
Return(m, frame) ==
  /\ mem' = Popped(m, frame, Len(TrapFrame))
  /\ cpu' = Restored(m, frame)
  /\ UNCHANGED <<tss, state, main, enable, current>>

\* The next task goes on from its saved frame.
RunTask(t, m) ==
  /\ current' = t
  /\ LoadKernelStackFor(t)
  /\ mem' = Popped(m, saved[t], Len(TrapFrame))
  /\ cpu' = Restored(m, saved[t])

\* restore_main_context, and the end of run().  Registers that a call may
\* change are left as they are.
RestoreMain(m) ==
  /\ current' = Main
  /\ mem' = Popped(m, main, Len(MainPops))
  /\ cpu' = [r \in Regs |->
               CASE r \in DOMAIN MainSlot ->
                      m[main + MainSlot[r]]
                 [] r = "rsp"         -> main + Len(MainPops)
                 [] r = "rflags"      -> enable
                 [] r \in {"cs", "ss"} -> 0
                 [] OTHER             -> cpu[r]]
  /\ UNCHANGED tss

\* The stack of a task that has ended.
Dead(m, t) == Popped(m, Top(t) - StackSize, StackSize)

\* After the current task has ended or blocked; st are the new task states.
Leave(m, st) ==
  LET ready == {t \in Tasks : st[t] = "Ready"} IN
  IF ready # {}
  THEN \E t \in ready : /\ state' = [st EXCEPT ![t] = "Running"]
                        /\ RunTask(t, m)
  ELSE state' = st /\ RestoreMain(m)

\* What main relies on when run() returns: the registers that a call keeps.
Kept == {"rbp", "rbx", "r12", "r13", "r14", "r15", "rip", "rsp", "rflags", "cs", "ss"}

\* What a task relies on that is not there yet or has ended.
Nothing == [r \in Regs |-> Junk]

ExpectLeave(e) ==
  expect' = IF current' # Main THEN e
            ELSE [e EXCEPT ![Main] = [r \in Regs |-> IF r \in Kept THEN @[r] ELSE cpu'[r]]]

-----------------------------------------------------------------------------
(* Main *)

InMain == current = Main

\* spawn, spawn_user_process; the task inherits IF.
Spawn(t, arg) ==
  LET frame == NewFrame(t, cpu["rflags"], arg) IN
  /\ InMain /\ state[t] = "none"
  /\ state' = [state EXCEPT ![t] = "Ready"]
  /\ saved' = [saved EXCEPT ![t] = FirstRsp(t)]
  /\ mem' = [a \in DOMAIN mem |->
               IF a \in FirstRsp(t) .. FirstRsp(t) + Len(TrapFrame) - 1
               THEN frame[TrapFrame[a - FirstRsp(t) + 1]] ELSE mem[a]]
  /\ expect' = [expect EXCEPT ![t] = frame]
  /\ UNCHANGED <<cpu, tss, main, enable, current>>

\* SetTaskInitialArg with a mistake: the argument is put in rsi.
SetSavedRsi(t, arg) ==
  /\ InMain /\ state[t] = "Ready"
  /\ mem' = SetField(mem, saved[t], "rsi", arg)
  /\ expect' = [expect EXCEPT ![t]["rdi"] = arg]
  /\ UNCHANGED <<cpu, tss, state, saved, main, enable, current>>

SetTaskInitialArg(t, arg) ==
  /\ InMain /\ state[t] = "Ready"
  /\ mem' = SetField(mem, saved[t], "rdi", arg)
  /\ expect' = [expect EXCEPT ![t]["rdi"] = arg]
  /\ UNCHANGED <<cpu, tss, state, saved, main, enable, current>>

\* run and switch_from_main_to_task.
Run ==
  /\ InMain
  /\ main' = cpu["rsp"] - Len(MainPushes)
  /\ enable' = cpu["rflags"]
  /\ UNCHANGED <<saved, expect>>
  /\ \E t \in Ready :
       /\ state' = [state EXCEPT ![t] = "Running"]
       /\ RunTask(t, [a \in DOMAIN mem |->
                        IF a \in main' .. cpu["rsp"] - 1
                        THEN cpu[MainPushes[cpu["rsp"] - a]] ELSE mem[a]])

-----------------------------------------------------------------------------
(* Interrupts *)

\* switch_from_interrupt, on_timer_interrupt, on_yield_interrupt.
SwitchFromInterrupt(m, frame) ==
  IF current = Main THEN Return(m, frame) /\ UNCHANGED saved
  ELSE /\ saved' = [saved EXCEPT ![current] = frame]
       /\ IF Ready = {} THEN Return(m, frame)
          ELSE /\ \E t \in Ready :
                    /\ state' = [state EXCEPT ![current] = "Ready", ![t] = "Running"]
                    /\ RunTask(t, m)
               /\ UNCHANGED <<main, enable>>

\* Without preemption the handler returns its frame.
Timer ==
  /\ cpu["rflags"] = 1
  /\ \/ SwitchFromInterrupt(Entered(FALSE), FrameRsp(FALSE))
     \/ Return(Entered(FALSE), FrameRsp(FALSE)) /\ UNCHANGED saved
  /\ UNCHANGED expect

\* yield_now, in main or in a kernel task.
Yield ==
  /\ ~IsUser(current)
  /\ SwitchFromInterrupt(Entered(FALSE), FrameRsp(FALSE))
  /\ UNCHANGED expect

\* A system call that only returns a value, and the yield call.
Syscall(value) ==
  /\ IsUser(current)
  /\ Return(SetField(Entered(FALSE), FrameRsp(FALSE), "rax", value), FrameRsp(FALSE))
  /\ expect' = [expect EXCEPT ![current]["rax"] = value]
  /\ UNCHANGED saved

SyscallYield ==
  /\ IsUser(current)
  /\ SwitchFromInterrupt(SetField(Entered(FALSE), FrameRsp(FALSE), "rax", 0),
                         FrameRsp(FALSE))
  /\ expect' = [expect EXCEPT ![current]["rax"] = 0]

\* waitpid: a child that has ended is reaped through the saved frame, one
\* that runs puts the caller to sleep.
WaitPid(child) ==
  LET m == Entered(FALSE) IN
  /\ IsUser(current) /\ state[child] # "none" /\ Parent[child] = current
  /\ saved' = [saved EXCEPT ![current] = FrameRsp(FALSE)]
  /\ IF state[child] \in {"Finished", "Failed"}
     THEN /\ Return(SetField(m, FrameRsp(FALSE), "rax", Pid(child)), FrameRsp(FALSE))
          /\ expect' = [expect EXCEPT ![current]["rax"] = Pid(child)]
     ELSE /\ Leave(m, [state EXCEPT ![current] = "Blocked"])
          /\ ExpectLeave(expect)
          /\ UNCHANGED <<main, enable>>

\* wake_parent_waiting_for: the result goes to the saved frame of the parent.
WakeParent(m, t) ==
  IF Parent[t] # 0 /\ state[Parent[t]] = "Blocked"
  THEN SetField(m, saved[Parent[t]], "rax", Pid(t)) ELSE m

\* finish_current_from_interrupt: exit, or a fault with its error code.
FinishFromInterrupt(final) ==
  LET error == final = "Failed"
      t == current
      woken == {p \in Tasks : p = Parent[t] /\ state[p] = "Blocked"}
  IN  /\ IsUser(current)
      /\ saved' = [saved EXCEPT ![t] = FrameRsp(error)]
      /\ Leave(Dead(WakeParent(Entered(error), t), t),
               [p \in Tasks |-> IF p = t THEN final
                                ELSE IF p \in woken THEN "Ready" ELSE state[p]])
      /\ ExpectLeave([c \in Stacks |-> IF c \in woken
                                       THEN [expect[c] EXCEPT !["rax"] = Pid(t)]
                                       ELSE IF c = t THEN Nothing ELSE expect[c]])
      /\ UNCHANGED <<main, enable>>

\* finish_current_task, on the stack of the task, with interrupts off.
FinishKernelTask ==
  /\ current \in KernelTasks
  /\ Leave(Dead(mem, current), [state EXCEPT ![current] = "Finished"])
  /\ ExpectLeave([expect EXCEPT ![current] = Nothing])
  /\ UNCHANGED <<saved, main, enable>>

-----------------------------------------------------------------------------
(* The program itself: every register changes; a kernel context goes up or *)
(* down its stack, and what it keeps there is its rip of that time.        *)

Work ==
  LET c == current
      k == 1 - (cpu["rip"] % 10)
      rsp == IF IsUser(c) THEN Value(c, "rsp", k) ELSE Start(c) - k * MaxDepth
      next == [r \in Regs |-> IF r = "rsp" THEN rsp
                              ELSE IF r \in {"cs", "ss", "rflags"} THEN cpu[r]
                              ELSE Value(c, r, k)]
  IN  /\ cpu' = next
      /\ expect' = [expect EXCEPT ![c] = next]
      /\ mem' = IF IsUser(c) THEN mem
                ELSE [a \in DOMAIN mem |-> IF a \in rsp .. Start(c) - 1 THEN next["rip"]
                                           ELSE IF a \in Start(c) - MaxDepth .. rsp - 1 THEN Junk
                                           ELSE mem[a]]
      /\ UNCHANGED <<tss, state, saved, main, enable, current>>

Init ==
  LET first(enabled) == [r \in Regs |-> CASE r = "rsp" -> Start(Main)
                                          [] r = "rflags" -> enabled
                                          [] r \in {"cs", "ss"} -> 0
                                          [] OTHER -> Value(Main, r, 0)]
  IN  /\ mem = [a \in Words |-> Junk]
      /\ \E enabled \in {0, 1} : cpu = first(enabled)
      /\ tss = 0
      /\ state = [t \in Tasks |-> "none"]
      /\ saved = [t \in Tasks |-> 0]
      /\ main = 0
      /\ enable = 0
      /\ current = Main
      /\ expect = [c \in Stacks |-> IF c = Main THEN cpu ELSE Nothing]

Next ==
  \/ \E t \in KernelTasks : Spawn(t, 0)
  \/ \E t \in UserTasks : Spawn(t, 7) \/ SetTaskInitialArg(t, 8)
  \/ Run
  \/ Timer
  \/ Yield
  \/ Syscall(1)
  \/ SyscallYield
  \/ \E child \in UserTasks : WaitPid(child)
  \/ \E final \in {"Finished", "Failed"} : FinishFromInterrupt(final)
  \/ FinishKernelTask
  \/ Work

Spec == Init /\ [][Next]_vars

-----------------------------------------------------------------------------
(* Properties                                                              *)

\* The type of every variable.
TypeOK ==
  /\ DOMAIN mem = Words
  /\ DOMAIN cpu = Regs
  /\ tss \in {0} \cup {Top(t) : t \in Tasks}
  /\ state \in [Tasks -> {"none", "Ready", "Running", "Blocked", "Finished", "Failed"}]
  /\ saved \in [Tasks -> DOMAIN mem]
  /\ main \in DOMAIN mem
  /\ enable \in {0, 1}
  /\ current \in Stacks
  /\ DOMAIN expect = Stacks

\* A context that runs finds every register as it left it, whatever ran since
\* it was interrupted, except for the result of its system call: the pushes of
\* the entries, the layout of TrapFrame and the pops agree, and a frame with an
\* error code is never restored.  Main relies on the registers a call keeps.
RegistersSurvive == cpu = expect[current]

\* What a context keeps on its kernel stack is still there when it is not
\* running: neither its own frame nor a handler on any stack overwrites it.
StacksSurvive ==
  \A c \in {Main} \cup {t \in KernelTasks : state[t] \in {"Ready", "Running"}} :
    \A a \in expect[c]["rsp"] .. Start(c) - 1 : mem[a] = expect[c]["rip"]

\* The variables have their types; a task that will run again has a whole
\* TrapFrame on its own stack, at the top of it if the task was in user mode;
\* main has its registers while a task runs.
FramesAreSaved ==
  /\ TypeOK
  /\ \A t \in Tasks : state[t] \in {"Ready", "Blocked"} =>
       /\ saved[t] >= Top(t) - StackSize + HandlerDepth
       /\ IsUser(t) => saved[t] + Len(TrapFrame) = Top(t)
       /\ \A i \in 1 .. Len(TrapFrame) :
            mem[saved[t] + i - 1] = expect[t][TrapFrame[i]]
  /\ current # Main =>
       \A i \in 1 .. Len(MainPops) : mem[main + i - 1] = expect[Main][MainPops[i]]

\* In user mode TSS.rsp0 is the top of the stack of the running task, and
\* that stack holds no frame of any task.
UserEntryStack ==
  cpu["cs"] = UserMode =>
    /\ tss = Top(current)
    /\ \A t \in Tasks : state[t] \in {"Ready", "Blocked"} =>
         saved[t] \notin Zone(current)

=============================================================================
