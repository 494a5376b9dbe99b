------------------------------ MODULE Scheduler ------------------------------
(***************************************************************************)
(* The scheduler and the process table: src/scheduler.rs, src/process.rs   *)
(* and src/task.rs.                                                        *)
(*                                                                         *)
(* The kernel runs on one core.  Every operation below either runs inside  *)
(* interrupts::without_interrupts or inside an interrupt gate, which       *)
(* clears IF, so each is one atomic step; what interleaves is the order in *)
(* which the main context, the kernel tasks, the user tasks and the timer  *)
(* get to take such a step.                                                *)
(*                                                                         *)
(* A task index is its TaskId (Vec index, from 0).  Pid 0 stands for       *)
(* Option::None and is never handed out: next_pid starts at 1.             *)
(***************************************************************************)
EXTENDS Integers, FiniteSets, FiniteSetsExt

CONSTANTS
  MaxTasks,       \* MAX_TASKS, task.rs
  MaxProcesses,   \* MAX_PROCESSES, process.rs
  Ptrs,           \* user addresses that a waitpid status may be written to
  NoPtr,          \* the null status pointer
  ExitCodes,      \* u64 values that programs pass to exit
  CodeModulus     \* 2^32: the width of the i32 an exit code is cast to

ASSUME MaxTasksAssumption == MaxTasks \in Nat \ {0}
ASSUME MaxProcessesAssumption == MaxProcesses \in Nat \ {0}
ASSUME PtrAssumption == NoPtr \notin Ptrs
ASSUME ExitCodesAssumption == ExitCodes \subseteq Nat
ASSUME CodeModulusAssumption == CodeModulus \in Nat \ {0}

VARIABLES
  tasks,       \* Scheduler.tasks, padded to MAX_TASKS with absent entries
  ntasks,      \* tasks.len()
  procs,       \* ProcessTable.processes
  nextPid,     \* ProcessTable.next_pid
  current,     \* Scheduler.current; NoTask when the main context runs
  preemption,  \* Scheduler.preemption_enabled
  cached,      \* Scheduler.current_level_4_frame
  cr3,         \* the loaded page-table root, named by its owner's pid
  rsp0,        \* TSS.privilege_stack_table[0], named by its owning task
  mainIrq,     \* IF of the main context
  panicked     \* an expect() failed: the panic handler halts the machine

vars == <<tasks, ntasks, procs, nextPid, current, preemption, cached, cr3,
          rsp0, mainIrq, panicked>>

TaskIds == 0 .. MaxTasks - 1
Pids == 1 .. MaxProcesses
NoPid == 0
NoTask == -1
KernelRoot == 0     \* the root of memory::kernel_level_4_frame()
NoRoot == -1        \* current_level_4_frame = None

ECHILD == 10
EFAULT == 14
EINVAL == 22
WNOHANG == 1

TaskStates == {"Absent", "Ready", "Running", "Blocked", "Finished", "Failed"}
Terminal == {"Finished", "Failed"}

(***************************************************************************)
(* ProcessExit, and the exit_code / fault_info pair of a task.  "None" is  *)
(* a task or process that has not ended.                                   *)
(***************************************************************************)
NoExit == [kind |-> "None", code |-> 0]
Exited(code) == [kind |-> "Exited", code |-> code]
Faulted == [kind |-> "Faulted", code |-> 0]

\* exit_code as i32: the low 32 bits, read as a signed number.
AsI32(code) ==
  LET low == code % CodeModulus
  IN  IF 2 * low < CodeModulus THEN low ELSE low - CodeModulus

ProcessExit(exit) ==
  IF exit.kind = "Exited" THEN Exited(AsI32(exit.code)) ELSE Faulted

\* UserWaitStatus: kind 0 is WAIT_EXITED and 1 is WAIT_FAULTED.
NoStatus == [kind |-> -1, code |-> 0]
WaitStatus(exit) ==
  IF exit.kind = "Exited" THEN [kind |-> 0, code |-> exit.code]
                          ELSE [kind |-> 1, code |-> 0]

(***************************************************************************)
(* Task and Process.  Of a saved trap frame the model keeps rax while it   *)
(* holds a waitpid result (0 stands for every other value), and whether    *)
(* rdi is still the argument the kernel put there.  Of an address space it *)
(* keeps which status pointers pass validate_user_write_range, and the     *)
(* wait status last copied into it.                                        *)
(***************************************************************************)
AbsentTask == [state |-> "Absent", pid |-> NoPid, child |-> NoPid,
               ptr |-> NoPtr, rax |-> 0, initialArg |-> FALSE,
               exit |-> NoExit, irq |-> FALSE]

NewTask(pid, irq) ==
  [state |-> "Ready", pid |-> pid, child |-> NoPid, ptr |-> NoPtr, rax |-> 0,
   initialArg |-> TRUE, exit |-> NoExit, irq |-> irq]

FreeSlot == [state |-> "Free", parent |-> NoPid, children |-> {},
             exit |-> NoExit, orphaned |-> FALSE, main |-> NoTask,
             writable |-> {}, status |-> NoStatus]

NewProcess(parent, main) ==
  [state |-> "Running", parent |-> parent, children |-> {}, exit |-> NoExit,
   orphaned |-> FALSE, main |-> main, writable |-> {}, status |-> NoStatus]

-----------------------------------------------------------------------------
(***************************************************************************)
(* ProcessTable.  Each operator is one method, from table to table.        *)
(***************************************************************************)
Exists(ps, pid) == pid \in Pids /\ ps[pid].state # "Free"

ActiveCount == Cardinality({p \in Pids : Exists(procs, p)})

\* The parent only has to exist: a zombie parent is accepted.
CanCreate(parent) ==
  /\ ActiveCount < MaxProcesses
  /\ nextPid <= MaxProcesses
  /\ parent # NoPid => Exists(procs, parent)

Create(ps, parent, pid, main) ==
  [p \in Pids |->
     IF p = pid THEN NewProcess(parent, main)
     ELSE IF p = parent THEN [ps[p] EXCEPT !.children = @ \cup {pid}]
     ELSE ps[p]]

IsChild(ps, parent, child) ==
  Exists(ps, parent) /\ child \in ps[parent].children

\* MarkExited with a mistake: running children are reaped too.
MarkExitedReapsAll(ps, pid, exit) ==
  [p \in Pids |->
     IF p = pid
     THEN [ps[p] EXCEPT !.state = "Zombie", !.exit = exit, !.children = {}]
     ELSE IF p \in ps[pid].children THEN FreeSlot ELSE ps[p]]

\* The children become orphans, and those that are zombies already are reaped.
\* close_all of the descriptor table is the exit action of module Files.
MarkExited(ps, pid, exit) ==
  [p \in Pids |->
     IF p = pid
     THEN [ps[p] EXCEPT !.state = "Zombie", !.exit = exit, !.children = {}]
     ELSE IF p \in ps[pid].children /\ Exists(ps, p)
     THEN IF ps[p].state = "Zombie" THEN FreeSlot
          ELSE [ps[p] EXCEPT !.parent = NoPid, !.orphaned = TRUE]
     ELSE ps[p]]

\* ReapChild with a mistake: the parent keeps the child in its list.
ReapChildStaysListed(ps, parent, child) == [ps EXCEPT ![child] = FreeSlot]

ReapChild(ps, parent, child) ==
  [ps EXCEPT ![parent].children = @ \ {child}, ![child] = FreeSlot]

\* ReapOrphanIfZombie with a mistake: every zombie is reaped.
ReapAnyZombie(ps, pid) ==
  IF ps[pid].state = "Zombie" THEN [ps EXCEPT ![pid] = FreeSlot] ELSE ps

ReapOrphanIfZombie(ps, pid) ==
  IF ps[pid].orphaned /\ ps[pid].state = "Zombie"
  THEN [ps EXCEPT ![pid] = FreeSlot] ELSE ps

-----------------------------------------------------------------------------
(***************************************************************************)
(* Choosing and dispatching a task.                                        *)
(***************************************************************************)
\* ReadyOffsets with a mistake: the search does not wrap around.
ReadyOffsetsNoWrap(ts, start) ==
  {o \in 1 .. ntasks - 1 - start : ts[start + o].state = "Ready"}

\* Offsets 1 .. len from start, modulo len, of the tasks that are Ready.
ReadyOffsets(ts, start) ==
  {o \in 1 .. ntasks : ts[(start + o) % ntasks].state = "Ready"}

\* NextReadyAfter with a mistake: it always searches from the first task.
LowestReadyTask(ts, start) ==
  LET ready == {t \in TaskIds : ts[t].state = "Ready"}
  IN  IF ready = {} THEN NoTask ELSE Min(ready)

NextReadyAfter(ts, start) ==
  IF ReadyOffsets(ts, start) = {} THEN NoTask
  ELSE (start + Min(ReadyOffsets(ts, start))) % ntasks

ReadyTasks(ts) == {t \in TaskIds : ts[t].state = "Ready"}

FirstReady(ts) == IF ReadyTasks(ts) = {} THEN NoTask ELSE Min(ReadyTasks(ts))

\* PrepareToRun with a mistake: the cached root is not updated.
PrepareToRunStaleCache(t, loaded) ==
  /\ rsp0' = t
  /\ cr3' = IF loaded = tasks[t].pid THEN cr3 ELSE tasks[t].pid
  /\ cached' = loaded

\* load_kernel_stack_for and switch_to_task_address_space.  The root of a user
\* task comes from its process, which is expected to exist.
PrepareToRun(t, loaded) ==
  /\ rsp0' = t
  /\ cr3' = IF loaded = tasks[t].pid THEN cr3 ELSE tasks[t].pid
  /\ cached' = tasks[t].pid

LosesAddressSpace(ps, t) ==
  tasks[t].pid # NoPid /\ ~Exists(ps, tasks[t].pid)

SwitchToKernelAddressSpace ==
  /\ cr3' = IF cached = KernelRoot THEN cr3 ELSE KernelRoot
  /\ cached' = KernelRoot

\* The tail shared by every operation that takes the CPU from the current task
\* for good: the next Ready task, or the main context when there is none.
RunNextOrMain(ts, ps) ==
  LET next == NextReadyAfter(ts, current)
  IN  /\ current' = next
      /\ procs' = ps
      /\ IF next # NoTask
         THEN /\ tasks' = [ts EXCEPT ![next].state = "Running"]
              /\ PrepareToRun(next, cached)
              /\ panicked' = LosesAddressSpace(ps, next)
         ELSE /\ tasks' = ts
              /\ SwitchToKernelAddressSpace
              /\ UNCHANGED <<rsp0, panicked>>
      /\ UNCHANGED <<ntasks, nextPid, preemption, mainIrq>>

-----------------------------------------------------------------------------
(***************************************************************************)
(* Spawning.  The callers are the main context and kernel tasks; there is  *)
(* no spawn system call.  A new task starts with the IF of its creator.    *)
(* The failing paths change nothing.                                       *)
(***************************************************************************)
KernelCode == current # NoTask => tasks[current].pid = NoPid

CallerIrq == IF current = NoTask THEN mainIrq ELSE tasks[current].irq

AddTask(pid) ==
  /\ tasks' = [tasks EXCEPT ![ntasks] = NewTask(pid, CallerIrq)]
  /\ ntasks' = ntasks + 1

\* Spawn with a mistake: the table's capacity is not checked.
SpawnUnbounded ==
  /\ ~panicked
  /\ KernelCode
  /\ AddTask(NoPid)
  /\ UNCHANGED <<procs, nextPid, current, preemption, cached, cr3, rsp0,
                 mainIrq, panicked>>

Spawn ==
  /\ ~panicked
  /\ KernelCode
  /\ ntasks < MaxTasks
  /\ AddTask(NoPid)
  /\ UNCHANGED <<procs, nextPid, current, preemption, cached, cr3, rsp0,
                 mainIrq, panicked>>

\* SpawnUserProcess with a mistake: the lowest free pid is taken.
SpawnReusesPid(parent) ==
  LET pid == Min({p \in Pids : ~Exists(procs, p)})
  IN  /\ ~panicked
      /\ KernelCode
      /\ ntasks < MaxTasks
      /\ CanCreate(parent)
      /\ procs' = Create(procs, parent, pid, ntasks)
      /\ nextPid' = nextPid + 1
      /\ AddTask(pid)
      /\ UNCHANGED <<current, preemption, cached, cr3, rsp0, mainIrq, panicked>>

\* spawn_user_process with parent NoPid, spawn_child_user_elf_process otherwise.
SpawnUserProcess(parent) ==
  /\ ~panicked
  /\ KernelCode
  /\ ntasks < MaxTasks
  /\ CanCreate(parent)
  /\ procs' = Create(procs, parent, nextPid, ntasks)
  /\ nextPid' = nextPid + 1
  /\ AddTask(nextPid)
  /\ UNCHANGED <<current, preemption, cached, cr3, rsp0, mainIrq, panicked>>

(***************************************************************************)
(* run() is called by the main context.  It reloads the cached root from   *)
(* CR3 before the first switch.                                            *)
(***************************************************************************)
Run ==
  /\ ~panicked
  /\ current = NoTask
  /\ ReadyTasks(tasks) # {}
  /\ LET next == FirstReady(tasks)
     IN  /\ current' = next
         /\ tasks' = [tasks EXCEPT ![next].state = "Running"]
         /\ PrepareToRun(next, cr3)
         /\ panicked' = LosesAddressSpace(procs, next)
  /\ UNCHANGED <<ntasks, procs, nextPid, preemption, mainIrq>>

(***************************************************************************)
(* switch_from_interrupt: the current frame is saved; the task keeps the   *)
(* CPU when no other task is Ready.                                        *)
(***************************************************************************)
SaveFrame(ts, t) == [ts EXCEPT ![t].rax = 0, ![t].initialArg = FALSE]

\* SwitchFromInterrupt with a mistake: the preempted task stays Running.
SwitchLeavesRunning ==
  LET next == NextReadyAfter(tasks, current)
  IN  /\ next # NoTask
      /\ tasks' = [SaveFrame(tasks, current) EXCEPT ![next].state = "Running"]
      /\ current' = next
      /\ PrepareToRun(next, cached)
      /\ panicked' = LosesAddressSpace(procs, next)
      /\ UNCHANGED <<ntasks, procs, nextPid, preemption, mainIrq>>

SwitchFromInterrupt ==
  LET saved == SaveFrame(tasks, current)
      next  == NextReadyAfter(tasks, current)
  IN  /\ IF next = NoTask
         THEN /\ tasks' = saved
              /\ UNCHANGED <<current, cached, cr3, rsp0, panicked>>
         ELSE /\ tasks' = [saved EXCEPT ![current].state = "Ready",
                                        ![next].state = "Running"]
              /\ current' = next
              /\ PrepareToRun(next, cached)
              /\ panicked' = LosesAddressSpace(procs, next)
      /\ UNCHANGED <<ntasks, procs, nextPid, preemption, mainIrq>>

\* save_current_frame's guard.
CurrentRuns ==
  /\ ~panicked
  /\ current # NoTask
  /\ tasks[current].state = "Running"

\* The PIT interrupt, delivered only while the running task has IF set.
TimerInterrupt ==
  /\ CurrentRuns
  /\ tasks[current].irq
  /\ preemption
  /\ SwitchFromInterrupt

\* yield_now (vector 0x81) and the yield system call.
Yield == CurrentRuns /\ SwitchFromInterrupt

(***************************************************************************)
(* waitpid.                                                                *)
(***************************************************************************)
\* validate_wait_status_target, and the check copy_to_user repeats.
StatusTargetOk(ps, parent, ptr) ==
  Exists(ps, parent) /\ ptr \in ps[parent].writable

\* WaitPidError with a mistake: the status pointer is not checked.
WaitPidErrorAnyPtr(parent, child, ptr, options) ==
  IF parent = NoPid THEN ECHILD
  ELSE IF options \notin {0, WNOHANG} THEN EINVAL
  ELSE IF child = NoPid \/ ~IsChild(procs, parent, child) THEN ECHILD
  ELSE 0

\* The early returns of waitpid_from_interrupt, in their order; 0 is none.
WaitPidError(parent, child, ptr, options) ==
  IF parent = NoPid THEN ECHILD
  ELSE IF options \notin {0, WNOHANG} THEN EINVAL
  ELSE IF child = NoPid \/ ~IsChild(procs, parent, child) THEN ECHILD
  ELSE IF ptr # NoPtr /\ ~StatusTargetOk(procs, parent, ptr) THEN EFAULT
  ELSE IF ~Exists(procs, child) THEN ECHILD
  ELSE 0

SetRax(ts, t, value) == [ts EXCEPT ![t].rax = value]

\* CompleteWait with a mistake: the child is reaped before its status is read.
CompleteWaitReapsFirst(ts, ps, waiter, child, ptr) ==
  LET parent == ts[waiter].pid
      reaped == ReapChild(ps, parent, child)
  IN  [tasks |-> SetRax(ts, waiter, child),
       procs |-> IF ptr = NoPtr THEN reaped
                 ELSE [reaped EXCEPT
                         ![parent].status = WaitStatus(reaped[child].exit)]]

\* The status is written before the child is reaped; a failing write leaves the
\* child a zombie.
CompleteWait(ts, ps, waiter, child, ptr) ==
  LET parent  == ts[waiter].pid
      written == IF ptr = NoPtr THEN ps
                 ELSE [ps EXCEPT ![parent].status = WaitStatus(ps[child].exit)]
      Result(value, table) ==
        [tasks |-> SetRax(ts, waiter, value), procs |-> table]
  IN  IF parent = NoPid \/ ps[child].state # "Zombie" THEN Result(-ECHILD, ps)
      ELSE IF ptr # NoPtr /\ ~StatusTargetOk(ps, parent, ptr)
      THEN Result(-EFAULT, ps)
      ELSE IF ~IsChild(written, parent, child) THEN Result(-ECHILD, written)
      ELSE Result(child, ReapChild(written, parent, child))

WaitersFor(ts, child) ==
  {t \in TaskIds : ts[t].state = "Blocked" /\ ts[t].child = child}

\* WakeParentWaitingFor with a mistake: the waiter stays Blocked.
WakeParentForgetsReady(ts, ps, child) ==
  IF WaitersFor(ts, child) = {} THEN [tasks |-> ts, procs |-> ps]
  ELSE LET waiter == Min(WaitersFor(ts, child))
       IN  CompleteWait(ts, ps, waiter, child, ts[waiter].ptr)

\* Only the first waiter, in task order, is completed and made Ready.
WakeParentWaitingFor(ts, ps, child) ==
  IF WaitersFor(ts, child) = {} THEN [tasks |-> ts, procs |-> ps]
  ELSE LET waiter == Min(WaitersFor(ts, child))
           done   == CompleteWait(ts, ps, waiter, child, ts[waiter].ptr)
       IN  [tasks |-> [done.tasks EXCEPT ![waiter].state = "Ready",
                                         ![waiter].child = NoPid,
                                         ![waiter].ptr = NoPtr],
            procs |-> done.procs]

\* Whatever the arguments are, the caller learns one of the errors that are
\* possible now.
WaitPidFails ==
  LET errors == {WaitPidError(tasks[current].pid, child, ptr, options) :
                   child \in Pids \cup {NoPid}, ptr \in Ptrs \cup {NoPtr},
                   options \in 0 .. WNOHANG + 1} \ {0}
  IN  /\ CurrentRuns
      /\ \E error \in errors : tasks' = SetRax(tasks, current, -error)
      /\ UNCHANGED <<ntasks, procs, nextPid, current, preemption, cached, cr3,
                     rsp0, mainIrq, panicked>>

WaitPidCollects(child, ptr, options) ==
  LET done == CompleteWait(SaveFrame(tasks, current), procs, current, child, ptr)
  IN  /\ CurrentRuns
      /\ WaitPidError(tasks[current].pid, child, ptr, options) = 0
      /\ procs[child].state = "Zombie"
      /\ tasks' = done.tasks
      /\ procs' = done.procs
      /\ UNCHANGED <<ntasks, nextPid, current, preemption, cached, cr3, rsp0,
                     mainIrq, panicked>>

WaitPidNoHang(child, ptr) ==
  /\ CurrentRuns
  /\ WaitPidError(tasks[current].pid, child, ptr, WNOHANG) = 0
  /\ procs[child].state = "Running"
  /\ tasks' = SetRax(tasks, current, 0)
  /\ UNCHANGED <<ntasks, procs, nextPid, current, preemption, cached, cr3,
                 rsp0, mainIrq, panicked>>

WaitPidBlocks(child, ptr) ==
  /\ CurrentRuns
  /\ WaitPidError(tasks[current].pid, child, ptr, 0) = 0
  /\ procs[child].state = "Running"
  /\ RunNextOrMain([SaveFrame(tasks, current) EXCEPT
                      ![current].state = "Blocked",
                      ![current].child = child,
                      ![current].ptr = ptr],
                   procs)

(***************************************************************************)
(* The end of a task: exit, a fault taken in ring 3, or the return of a    *)
(* kernel task's entry function.                                           *)
(***************************************************************************)
FinishCurrent(finalState, exit) ==
  LET pid    == tasks[current].pid
      ended  == [SaveFrame(tasks, current) EXCEPT ![current].state = finalState,
                                                  ![current].exit = exit]
      marked == MarkExited(procs, pid, ProcessExit(exit))
      woken  == WakeParentWaitingFor(ended, marked, pid)
  IN  IF pid = NoPid THEN RunNextOrMain(ended, procs)
      ELSE IF Exists(procs, pid)
      THEN RunNextOrMain(woken.tasks, ReapOrphanIfZombie(woken.procs, pid))
      ELSE /\ tasks' = ended     \* expect("current task process disappeared")
           /\ panicked' = TRUE
           /\ UNCHANGED <<ntasks, procs, nextPid, current, preemption, cached,
                          cr3, rsp0, mainIrq>>

\* The exit system call; a kernel task may issue it too.
ExitCurrent(code) == CurrentRuns /\ FinishCurrent("Finished", Exited(code))

\* FailCurrentWithFault with a mistake: the process is not told of the fault.
FaultLeavesProcess ==
  /\ CurrentRuns
  /\ tasks[current].pid # NoPid
  /\ RunNextOrMain([SaveFrame(tasks, current) EXCEPT ![current].state = "Failed"],
                   procs)

\* #GP or #PF with CPL 3.
FailCurrentWithFault ==
  /\ CurrentRuns
  /\ tasks[current].pid # NoPid
  /\ FinishCurrent("Failed", Faulted)

\* finish_current_task: no frame is saved and no exit code is recorded.
FinishCurrentTask ==
  /\ CurrentRuns
  /\ tasks[current].pid = NoPid
  /\ RunNextOrMain([tasks EXCEPT ![current].state = "Finished"], procs)

(***************************************************************************)
(* The remaining operations.                                               *)
(***************************************************************************)
\* brk by the running process: some status pointers become valid or invalid.
SysBrk(writable) ==
  LET pid == tasks[current].pid
  IN  /\ CurrentRuns
      /\ Exists(procs, pid)
      /\ procs' = [procs EXCEPT ![pid].writable = writable]
      /\ tasks' = SetRax(tasks, current, 0)
      /\ UNCHANGED <<ntasks, nextPid, current, preemption, cached, cr3, rsp0,
                     mainIrq, panicked>>

SetTaskInitialArg(t) ==
  /\ ~panicked
  /\ KernelCode
  /\ tasks[t].state = "Ready"
  /\ tasks' = [tasks EXCEPT ![t].initialArg = TRUE]
  /\ UNCHANGED <<ntasks, procs, nextPid, current, preemption, cached, cr3,
                 rsp0, mainIrq, panicked>>

\* enable_preemption and disable_preemption.
SetPreemption(enabled) ==
  /\ ~panicked
  /\ KernelCode
  /\ preemption' = enabled
  /\ UNCHANGED <<tasks, ntasks, procs, nextPid, current, cached, cr3, rsp0,
                 mainIrq, panicked>>

\* interrupts::enable_interrupts, called by the main context while booting.
EnableInterrupts ==
  /\ ~panicked
  /\ current = NoTask
  /\ mainIrq' = TRUE
  /\ UNCHANGED <<tasks, ntasks, procs, nextPid, current, preemption, cached,
                 cr3, rsp0, panicked>>

-----------------------------------------------------------------------------
Init ==
  /\ tasks = [t \in TaskIds |-> AbsentTask]
  /\ ntasks = 0
  /\ procs = [p \in Pids |-> FreeSlot]
  /\ nextPid = 1
  /\ current = NoTask
  /\ preemption = FALSE
  /\ cached = NoRoot
  /\ cr3 = KernelRoot
  /\ rsp0 = NoTask
  /\ mainIrq = FALSE
  /\ panicked = FALSE

Next ==
  \/ Spawn
  \/ \E parent \in Pids \cup {NoPid} : SpawnUserProcess(parent)
  \/ Run
  \/ TimerInterrupt
  \/ Yield
  \/ WaitPidFails
  \/ \E child \in Pids \cup {NoPid}, ptr \in Ptrs \cup {NoPtr} :
       \/ \E options \in 0 .. WNOHANG + 1 : WaitPidCollects(child, ptr, options)
       \/ WaitPidNoHang(child, ptr)
       \/ WaitPidBlocks(child, ptr)
  \/ \E code \in ExitCodes : ExitCurrent(code)
  \/ FailCurrentWithFault
  \/ FinishCurrentTask
  \/ \E writable \in SUBSET Ptrs : SysBrk(writable)
  \/ \E t \in TaskIds : SetTaskInitialArg(t)
  \/ \E enabled \in BOOLEAN : SetPreemption(enabled)
  \/ EnableInterrupts

Spec == Init /\ [][Next]_vars

-----------------------------------------------------------------------------
Exits == [kind : {"None", "Exited", "Faulted"}, code : Int]

Task ==
  [state : TaskStates, pid : Pids \cup {NoPid}, child : Pids \cup {NoPid},
   ptr : Ptrs \cup {NoPtr}, rax : Int, initialArg : BOOLEAN, exit : Exits,
   irq : BOOLEAN]

Process ==
  [state : {"Free", "Running", "Zombie"}, parent : Pids \cup {NoPid},
   children : SUBSET Pids, exit : Exits, orphaned : BOOLEAN,
   main : TaskIds \cup {NoTask}, writable : SUBSET Ptrs,
   status : [kind : -1 .. 1, code : Int]]

\* The type of every variable of the scheduler.
TypeOK ==
  /\ tasks \in [TaskIds -> Task]
  /\ ntasks \in 0 .. MaxTasks
  /\ procs \in [Pids -> Process]
  /\ nextPid \in 1 .. MaxProcesses + 1
  /\ current \in TaskIds \cup {NoTask}
  /\ preemption \in BOOLEAN
  /\ cached \in Pids \cup {KernelRoot, NoRoot}
  /\ cr3 \in Pids \cup {KernelRoot}
  /\ rsp0 \in TaskIds \cup {NoTask}
  /\ mainIrq \in BOOLEAN
  /\ panicked \in BOOLEAN

(***************************************************************************)
(* Safety.                                                                 *)
(***************************************************************************)
Live == {"Ready", "Running", "Blocked"}

\* Scheduler.current names the one task whose state is Running, and it is None
\* exactly when no task runs: every switch updates both.
RunningIsCurrent == \A t \in TaskIds : tasks[t].state = "Running" <=> current = t

TablesAgree(ts, ps) ==
  /\ \A t \in TaskIds :
       ts[t].state \in Live /\ ts[t].pid # NoPid =>
         ps[ts[t].pid].state = "Running" /\ ps[ts[t].pid].main = t
  /\ \A p \in Pids :
       ps[p].state = "Running" =>
         /\ ps[p].main \in TaskIds
         /\ ts[ps[p].main].pid = p
         /\ ts[ps[p].main].state \in Live

\* A user task that can still run owns a Running process whose main_task it is,
\* and a Running process has such a task: the two tables agree across exits,
\* faults, reaping and orphaning.
TasksAndProcessesAgree == TablesAgree(tasks, procs)

\* None of the expect() calls on the dispatch, exit and creation paths fires:
\* a task that is resumed still has its address space, and an exiting task
\* still has its process.
NoKernelPanic == ~panicked

Served(ts, ps) ==
  \A t \in TaskIds :
    ts[t].state = "Blocked" =>
      /\ IsChild(ps, ts[t].pid, ts[t].child)
      /\ ps[ts[t].child].state = "Running"
      /\ WaitersFor(ts, ts[t].child) = {t}
      /\ ts[t].ptr # NoPtr => StatusTargetOk(ps, ts[t].pid, ts[t].ptr)

\* A blocked waiter will be found and served: its child is still running and
\* still its child, no other task waits for that child (only the first waiter
\* found is woken), and the status pointer checked when it blocked is still
\* valid when the child exits, however late that is.
WaiterWillBeServed == Served(tasks, procs)

\* The main context never runs while a task is blocked: a waitpid that blocks
\* always finds another Ready task, because waits follow parent links and
\* these cannot form a cycle.
NoTaskStranded ==
  current = NoTask => \A t \in TaskIds : tasks[t].state # "Blocked"

\* While a task runs, TSS.rsp0 is its own kernel stack, CR3 is its own root and
\* the cached root equals CR3 although equal roots are not reloaded; the main
\* context runs on the kernel root.
AddressSpaceCoherent ==
  IF current = NoTask THEN cr3 = KernelRoot
  ELSE rsp0 = current /\ cr3 = tasks[current].pid /\ cached = cr3

Forest(ps) ==
  /\ \A p, c \in Pids :
       c \in ps[p].children => Exists(ps, c) /\ ps[c].parent = p /\ p < c
  /\ \A c \in Pids :
       Exists(ps, c) /\ Exists(ps, ps[c].parent) => c \in ps[ps[c].parent].children
  /\ \A c \in Pids :
       ps[c].orphaned => ps[c].parent = NoPid /\ ps[c].state = "Running"

\* Children lists and parent links describe the same forest, with pids growing
\* from parent to child, and an orphan never lingers as a zombie nobody can
\* collect.
FamilyConsistent == Forest(procs)

Numbered(ts, ps) ==
  /\ \A t \in TaskIds : t >= ntasks <=> ts[t].state = "Absent"
  /\ \A t \in TaskIds : ts[t].pid < nextPid
  /\ \A p \in Pids : p >= nextPid => ps[p] = FreeSlot
  /\ \A p \in Pids : ps[p].state # "Free" => ps[p].parent < p
  /\ \A p \in Pids : ps[p].state = "Free" => ps[p].children = {}

\* Tasks and pids are numbered without gaps, and a parent has a smaller pid than
\* its children.
NumberedInOrder == Numbered(tasks, procs)

\* The inductive invariant of the scheduler.
SchedulerInv ==
  /\ TypeOK
  /\ NoKernelPanic
  /\ RunningIsCurrent
  /\ TasksAndProcessesAgree
  /\ WaiterWillBeServed
  /\ NoTaskStranded
  /\ AddressSpaceCoherent
  /\ FamilyConsistent
  /\ NumberedInOrder

(***************************************************************************)
(* Action properties.                                                      *)
(***************************************************************************)
\* A task leaves waitpid's Blocked state only with its child's pid as the
\* result, the child reaped, and, when it asked for it, a status that agrees
\* with how the child's task ended.
WokenWaiterHasResult ==
  [][\A t \in TaskIds :
       LET child == tasks[t].child
           ended == tasks'[procs[child].main].exit
       IN  tasks[t].state = "Blocked" /\ tasks'[t].state # "Blocked" =>
             /\ tasks'[t].rax = child
             /\ ~Exists(procs', child)
             /\ tasks[t].ptr # NoPtr =>
                  procs'[tasks[t].pid].status = WaitStatus(ProcessExit(ended))]_vars

\* An entry leaves the process table in three ways only: its parent collects
\* it through waitpid in this step, its parent ends in this step, or it is an
\* orphan that ends.  No exit status is lost while its parent could ask for it.
ExitStatusNotLost ==
  [][\A c \in Pids :
       Exists(procs, c) /\ ~Exists(procs', c) =>
         \/ \E t \in TaskIds : /\ tasks[t].pid = procs[c].parent
                               /\ tasks[t].state \in {"Running", "Blocked"}
                               /\ tasks'[t].rax = c
         \/ \E t \in TaskIds : /\ tasks[t].pid = procs[c].parent
                               /\ tasks[t].state = "Running"
                               /\ tasks'[t].state \in Terminal
         \/ procs[c].orphaned /\ tasks'[procs[c].main].state \in Terminal]_vars

\* run() returns to the main context only when every task has ended.
MainResumesWhenAllEnded ==
  [][current # NoTask /\ current' = NoTask =>
       \A t \in TaskIds : tasks'[t].state \in Terminal \cup {"Absent"}]_vars

\* A pid is never given out twice, a zombie never runs again, and a task that
\* ended stays as it ended.
NothingComesBack ==
  [][/\ \A p \in Pids : \/ Exists(procs, p)
                        \/ ~Exists(procs', p)
                        \/ p = nextPid /\ nextPid' = p + 1
     /\ \A p \in Pids : procs[p].state = "Zombie" => procs'[p].state # "Running"
     /\ \A t \in TaskIds : tasks[t].state \in Terminal =>
          /\ tasks'[t].state = tasks[t].state
          /\ tasks'[t].exit = tasks[t].exit]_vars

\* What docs/code_walkthrough/process_lifecycle.md says of a parent that exits
\* before a child: the child is parentless from then on.  The code accepts a
\* zombie as the parent of a new child, which keeps its parent link.
ChildOfExitedIsParentless ==
  \A c \in Pids :
    Exists(procs, c) /\ procs[c].parent # NoPid =>
      Exists(procs, procs[c].parent) /\ procs[procs[c].parent].state = "Running"

\* What the comment in task.rs on saved_trap_frame_mut says: a saved register is
\* patched before the first run or during a system call only.  The code patches
\* rdi of any Ready task, also of one that was preempted.
ArgumentOnlyBeforeFirstRun ==
  [][\A t \in TaskIds :
       tasks[t].state = "Ready" /\ ~tasks[t].initialArg => ~tasks'[t].initialArg]_vars

(***************************************************************************)
(* Liveness.                                                               *)
(***************************************************************************)
\* The PIT keeps ticking.
LiveSpec == Spec /\ WF_vars(TimerInterrupt)

PreemptionStaysOn ==
  <>[](preemption /\ \A t \in TaskIds : tasks[t].state # "Absent" => tasks[t].irq)

\* Round robin is fair: with preemption on and interrupts enabled in every
\* task, a Ready task runs, whatever the other tasks do.
NoStarvation ==
  PreemptionStaysOn =>
    \A t \in TaskIds :
      (tasks[t].state = "Ready" /\ current # NoTask) ~> tasks[t].state = "Running"

\* A program that is given the CPU again and again ends, for good
\* (NothingComesBack).
ProgramsEnd ==
  \A t \in TaskIds : []<>(current = t) => []<>(tasks[t].state \in Terminal)

\* When programs end, run() returns with every task ended, waiting parents
\* included, even without preemption.
RunCompletes ==
  ProgramsEnd =>
    (current # NoTask ~>
       /\ current = NoTask
       /\ \A t \in TaskIds : tasks[t].state \in Terminal \cup {"Absent"})
====
