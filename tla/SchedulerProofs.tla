--------------------------- MODULE SchedulerProofs ---------------------------
(***************************************************************************)
(* Scheduler, for every value of its constants: its inductive invariant,   *)
(* the theorems that follow from it, and what a step may never do.         *)
(*                                                                         *)
(* First come lemmas about dispatching a task, about the operators on the  *)
(* two tables, and about the end of a user task, which keeps the tables in *)
(* order whether nobody waits for it or its parent is blocked in waitpid.  *)
(* Then every other operation is shown to keep the invariant.              *)
(***************************************************************************)
EXTENDS Scheduler, TLAPS, WellFoundedInduction

-----------------------------------------------------------------------------
(***************************************************************************)
(* Least and greatest elements, and what the two task searches return.     *)
(***************************************************************************)

\* A nonempty set of naturals has a least element and Min finds it: the first
\* match of a search that walks indices upwards.
LEMMA MinIsLeast ==
  ASSUME NEW S \in SUBSET Nat, S # {}
  PROVE  Min(S) \in S /\ \A y \in S : Min(S) <= y
<1>1. PICK x \in S : \A y \in S : ~(<<y, x>> \in OpToRel(<, Nat))
  BY WFMin, NatLessThanWellFounded, Zenon
<1>2. \A y \in S : ~(y < x)
  BY <1>1, Zenon DEF OpToRel
<1>3. \A y \in S : x <= y
  BY <1>2
<1> QED
  BY <1>3, Zenon DEF Min

\* A nonempty set of pids has a greatest element.
LEMMA GreatestPid ==
  ASSUME NEW S \in SUBSET Pids, S # {}
  PROVE  \E x \in S : \A y \in S : y <= x
<1> DEFINE D == {MaxProcesses - x : x \in S}
<1>1. D \in SUBSET Nat /\ D # {}
  <2>1. \A x \in S : MaxProcesses - x \in Nat
    BY MaxProcessesAssumption DEF Pids
  <2>2. PICK x \in S : TRUE
    BY Zenon
  <2>3. MaxProcesses - x \in D
    BY <2>2, Zenon
  <2> QED
    BY <2>1, <2>3, Zenon
<1>2. Min(D) \in D /\ \A d \in D : Min(D) <= d
  BY <1>1, MinIsLeast, Zenon
<1>3. PICK x \in S : Min(D) = MaxProcesses - x
  BY <1>2, Zenon
<1>4. \A y \in S : MaxProcesses - x <= MaxProcesses - y
  BY <1>2, <1>3, Zenon
<1>5. \A y \in S : y <= x
  BY <1>4, MaxProcessesAssumption DEF Pids
<1> QED
  BY <1>5, Zenon

\* next_ready_after finds a Ready task whenever there is one, and only then:
\* the offsets 1 .. len, modulo len, visit every task.
LEMMA NextReadyFound ==
  ASSUME NEW n \in Nat, n = ntasks, n <= MaxTasks, NEW start \in 0 .. n - 1,
         NEW ts, \A t \in TaskIds : t >= n => ts[t].state # "Ready"
  PROVE  LET next == NextReadyAfter(ts, start)
         IN  /\ next # NoTask => next \in TaskIds /\ ts[next].state = "Ready"
             /\ next = NoTask => \A t \in TaskIds : ts[t].state # "Ready"
<1> DEFINE R == ReadyOffsets(ts, start)
           next == NextReadyAfter(ts, start)
<1>1. R \in SUBSET Nat
  BY DEF ReadyOffsets
<1>2. CASE R = {}
  <2>1. next = NoTask
    BY <1>2, Zenon DEF NextReadyAfter
  <2>2. ASSUME NEW t \in TaskIds, ts[t].state = "Ready"
        PROVE  FALSE
    <3>1. t \in 0 .. n - 1
      BY <2>2, MaxTasksAssumption DEF TaskIds
    <3>2. CASE t > start
      <4>1. (start + (t - start)) % n = t
        BY <3>1, <3>2
      <4>2. t - start \in R
        BY <4>1, <3>1, <3>2, <2>2 DEF ReadyOffsets
      <4> QED BY <4>2, <1>2
    <3>3. CASE t <= start
      <4>1. (start + (t + n - start)) % n = t
        BY <3>1, <3>3
      <4>2. t + n - start \in R
        BY <4>1, <3>1, <3>3, <2>2 DEF ReadyOffsets
      <4> QED BY <4>2, <1>2
    <3> QED BY <3>1, <3>2, <3>3
  <2> QED BY <2>1, <2>2
<1>3. CASE R # {}
  <2>1. Min(R) \in R
    BY <1>1, <1>3, MinIsLeast, Zenon
  <2>2. next = (start + Min(R)) % n
    BY <1>3, Zenon DEF NextReadyAfter
  <2>3. next \in 0 .. n - 1
    <3>1. Min(R) \in 1 .. n
      BY <2>1, Zenon DEF ReadyOffsets
    <3>2. \A k \in Nat : k % n \in 0 .. n - 1
      OBVIOUS
    <3> QED
      BY <3>1, <3>2, <2>2
  <2>4. ts[next].state = "Ready"
    BY <2>1, <2>2, Zenon DEF ReadyOffsets
  <2> QED
    BY <2>3, <2>4, MaxTasksAssumption DEF TaskIds, NoTask
<1> QED BY <1>2, <1>3

-----------------------------------------------------------------------------
(***************************************************************************)
(* What the task and process tables satisfy in the middle of an operation, *)
(* after the current task gave up the CPU and before the next one has it.  *)
(***************************************************************************)
Suspended(ts, ps) ==
  /\ ts \in [TaskIds -> Task]
  /\ ps \in [Pids -> Process]
  /\ TablesAgree(ts, ps)
  /\ Served(ts, ps)
  /\ Forest(ps)
  /\ Numbered(ts, ps)
  /\ \A t \in TaskIds : ts[t].state # "Running" /\ ts[t].pid = tasks[t].pid

\* waitpid cannot make every task wait: a blocked task with the greatest pid
\* waits for a child with a greater pid, whose task is live and not blocked.
LEMMA NoWaitCycle ==
  ASSUME NEW ts, NEW ps, Suspended(ts, ps),
         \A t \in TaskIds : ts[t].state # "Ready"
  PROVE  \A t \in TaskIds : ts[t].state # "Blocked"
<1> DEFINE Waiting == {t \in TaskIds : ts[t].state = "Blocked"}
           S == {ts[t].pid : t \in Waiting}
<1> SUFFICES ASSUME NEW b \in TaskIds, ts[b].state = "Blocked" PROVE FALSE
  BY Zenon
<1>1. \A t \in Waiting : /\ ts[t].pid \in Pids
                         /\ ts[t].child \in Pids
                         /\ ts[t].child \in ps[ts[t].pid].children
                         /\ ps[ts[t].child].state = "Running"
  BY Zenon DEF Suspended, Served, IsChild, Exists, Task, Process
<1>2. S \in SUBSET Pids /\ S # {}
  BY <1>1, Zenon
<1>3. PICK m \in S : \A y \in S : y <= m
  BY <1>2, GreatestPid, Zenon
<1>4. PICK t \in Waiting : ts[t].pid = m
  BY <1>3, Zenon
<1>5. m < ts[t].child
  BY <1>1, <1>4, Zenon DEF Suspended, Forest
<1>6. /\ ps[ts[t].child].main \in TaskIds
      /\ ts[ps[ts[t].child].main].pid = ts[t].child
      /\ ts[ps[ts[t].child].main].state \in Live
  BY <1>1, Zenon DEF Suspended, TablesAgree
<1>7. ts[ps[ts[t].child].main].state = "Blocked"
  BY <1>6, Zenon DEF Suspended, Live
<1>8. ts[t].child \in S
  BY <1>6, <1>7, Zenon
<1>9. ts[t].child <= m
  BY <1>3, <1>8, Zenon
<1> QED
  BY <1>1, <1>2, <1>5, <1>9 DEF Pids

\* Task next of ts gets the CPU; the process table becomes ps.
Resumed(ts, ps, next) ==
  /\ current' = next
  /\ tasks' = [ts EXCEPT ![next].state = "Running"]
  /\ procs' = ps
  /\ PrepareToRun(next, cr3)
  /\ panicked' = LosesAddressSpace(ps, next)
  /\ UNCHANGED <<ntasks, nextPid, preemption, mainIrq>>

\* Whoever gives the CPU to a Ready task of suspended tables restores the
\* invariant.
LEMMA ResumeKeepsInv ==
  ASSUME SchedulerInv, NEW ts, NEW ps, Suspended(ts, ps),
         NEW next \in TaskIds, ts[next].state = "Ready", Resumed(ts, ps, next)
  PROVE  SchedulerInv' /\ current' # NoTask
<1>1. /\ current' = next
      /\ procs' = ps
      /\ panicked' = LosesAddressSpace(ps, next)
      /\ tasks' = [ts EXCEPT ![next].state = "Running"]
      /\ UNCHANGED <<ntasks, nextPid, preemption, mainIrq>>
  BY Zenon DEF Resumed
<1>2. next \in TaskIds /\ ts[next].state = "Ready" /\ next # NoTask
  BY DEF NoTask, TaskIds
<1>3. /\ \A t \in TaskIds : tasks'[t].pid = ts[t].pid
      /\ \A t \in TaskIds : tasks'[t].child = ts[t].child
      /\ \A t \in TaskIds : tasks'[t].ptr = ts[t].ptr
      /\ \A t \in TaskIds : tasks'[t].state =
                              IF t = next THEN "Running" ELSE ts[t].state
      /\ tasks' \in [TaskIds -> Task]
  BY <1>1, <1>2 DEF Suspended, Task, TaskStates
<1>4. tasks[next].pid \in Pids \cup {KernelRoot} /\ tasks[next].pid = ts[next].pid
  BY <1>2, Zenon DEF Suspended, SchedulerInv, TypeOK, Task, KernelRoot, NoPid
<1>5. rsp0' = next /\ cr3' = tasks[next].pid /\ cached' = tasks[next].pid
  BY <1>4, Zenon DEF PrepareToRun, Resumed
<1>6. TypeOK'
  <2>1. panicked' \in BOOLEAN
    BY <1>1, Zenon DEF LosesAddressSpace
  <2> QED
    BY <1>1, <1>2, <1>3, <1>4, <1>5, <2>1, Zenon DEF TypeOK, SchedulerInv, Suspended
<1>7. RunningIsCurrent'
  BY <1>1, <1>2, <1>3, Zenon DEF RunningIsCurrent, Suspended
<1>8. TasksAndProcessesAgree'
  BY <1>1, <1>2, <1>3
  DEF Suspended, TasksAndProcessesAgree, TablesAgree, Live, Task, NoPid
<1>9. WaiterWillBeServed'
  <2> SUFFICES ASSUME NEW t \in TaskIds, tasks'[t].state = "Blocked"
               PROVE  /\ IsChild(ps, tasks'[t].pid, tasks'[t].child)
                      /\ ps[tasks'[t].child].state = "Running"
                      /\ WaitersFor(tasks', tasks'[t].child) = {t}
                      /\ tasks'[t].ptr # NoPtr =>
                           StatusTargetOk(ps, tasks'[t].pid, tasks'[t].ptr)
    BY <1>1, Zenon DEF WaiterWillBeServed, Served, IsChild, StatusTargetOk, Exists
  <2>1. ts[t].state = "Blocked"
    BY <1>3, Zenon
  <2>2. WaitersFor(tasks', tasks'[t].child) = WaitersFor(ts, ts[t].child)
    BY <1>2, <1>3, Zenon DEF WaitersFor
  <2> QED
    BY <1>3, <2>1, <2>2, Zenon DEF Suspended, Served
<1>10. FamilyConsistent'
  BY <1>1, Zenon DEF Suspended, FamilyConsistent
<1>11. NumberedInOrder'
  BY <1>1, <1>2, <1>3 DEF Suspended, NumberedInOrder, Numbered
<1>12. NoKernelPanic'
  BY <1>1, <1>2, <1>4, Zenon
  DEF NoKernelPanic, LosesAddressSpace, Suspended, TablesAgree, Live, Exists,
      KernelRoot, NoPid
<1>13. NoTaskStranded' /\ AddressSpaceCoherent'
  BY <1>1, <1>2, <1>3, <1>4, <1>5, Zenon DEF NoTaskStranded, AddressSpaceCoherent
<1> QED
  BY <1>1, <1>2, <1>6, <1>7, <1>8, <1>9, <1>10, <1>11, <1>12, <1>13, Zenon
  DEF SchedulerInv

\* The invariant, and if the main context runs, every
\* task has ended.
Good ==
  /\ SchedulerInv
  /\ current = NoTask => \A t \in TaskIds : tasks[t].state \in Terminal \cup {"Absent"}

\* Handing the CPU to the next Ready task, or to the main context when there is
\* none, restores the invariant; in the second case every task has ended.
LEMMA DispatchKeepsInv ==
  ASSUME SchedulerInv, current # NoTask, NEW ts, NEW ps, Suspended(ts, ps),
         RunNextOrMain(ts, ps)
  PROVE  Good'
<1> DEFINE next == NextReadyAfter(ts, current)
<1>1. /\ ntasks \in Nat
      /\ ntasks <= MaxTasks
      /\ current \in 0 .. ntasks - 1
  BY MaxTasksAssumption
  DEF SchedulerInv, TypeOK, RunningIsCurrent, NumberedInOrder, Numbered, TaskIds
<1>2. \A t \in TaskIds : t >= ntasks => ts[t].state # "Ready"
  BY Zenon DEF Suspended, Numbered
<1>3. /\ next # NoTask => next \in TaskIds /\ ts[next].state = "Ready"
      /\ next = NoTask => \A t \in TaskIds : ts[t].state # "Ready"
  BY <1>1, <1>2, NextReadyFound, Zenon
<1>4. /\ current' = next
      /\ procs' = ps
      /\ UNCHANGED <<ntasks, nextPid, preemption, mainIrq>>
  BY Zenon DEF RunNextOrMain
<1>5. CASE next = NoTask
  <2>1. /\ tasks' = ts
        /\ SwitchToKernelAddressSpace
        /\ UNCHANGED <<rsp0, panicked>>
    BY <1>5, Zenon DEF RunNextOrMain
  <2>2. \A t \in TaskIds : ts[t].state \notin {"Ready", "Running", "Blocked"}
    BY <1>3, <1>5, NoWaitCycle, Zenon DEF Suspended
  <2>3. \A t \in TaskIds : tasks'[t].state \in Terminal \cup {"Absent"}
    BY <2>1, <2>2, Zenon DEF Suspended, Task, TaskStates, Terminal
  <2>4. cr3' = KernelRoot /\ cached' = KernelRoot
    BY <2>1, Zenon
    DEF SwitchToKernelAddressSpace, SchedulerInv, AddressSpaceCoherent
  <2>5. TypeOK'
    BY <1>4, <1>5, <2>1, <2>4, Zenon
    DEF TypeOK, SchedulerInv, Suspended, NoTask
  <2>6. RunningIsCurrent'
    BY <1>4, <1>5, <2>1, <2>2 DEF RunningIsCurrent, NoTask, TaskIds
  <2>7. TasksAndProcessesAgree' /\ WaiterWillBeServed' /\ FamilyConsistent'
    BY <1>4, <2>1, Zenon
    DEF Suspended, TasksAndProcessesAgree, WaiterWillBeServed, FamilyConsistent
  <2>8. NumberedInOrder'
    BY <1>4, <2>1, Zenon DEF Suspended, NumberedInOrder, Numbered
  <2>9. NoKernelPanic' /\ NoTaskStranded' /\ AddressSpaceCoherent'
    BY <1>4, <1>5, <2>1, <2>2, <2>4, Zenon
    DEF NoKernelPanic, NoTaskStranded, AddressSpaceCoherent, SchedulerInv
  <2> QED
    BY <2>3, <2>5, <2>6, <2>7, <2>8, <2>9, Zenon DEF SchedulerInv, Good
<1>6. CASE next # NoTask
  <2>1. next \in TaskIds /\ ts[next].state = "Ready"
    BY <1>3, <1>6, Zenon
  <2>2. cached = cr3
    BY Zenon DEF SchedulerInv, AddressSpaceCoherent
  <2>3. Resumed(ts, ps, next)
    BY <1>4, <1>6, <2>2, Zenon DEF RunNextOrMain, LosesAddressSpace, Resumed
  <2>4. SchedulerInv' /\ current' # NoTask
    BY <2>1, <2>3, ResumeKeepsInv, Zenon
  <2> QED
    BY <2>4, Zenon DEF Good
<1> QED
  BY <1>5, <1>6, Zenon

-----------------------------------------------------------------------------
(***************************************************************************)
(* The end of a task.                                                      *)
(***************************************************************************)
\* The task table ts is tasks with the current task ended.
Ended(ts) ==
  /\ ts \in [TaskIds -> Task]
  /\ ts[current].pid = tasks[current].pid
  /\ ts[current].state \in Terminal
  /\ \A t \in TaskIds : t # current => ts[t] = tasks[t]

\* Facts about the current task that every handler starts from.
LEMMA CurrentFacts ==
  ASSUME SchedulerInv, CurrentRuns
  PROVE  /\ current \in TaskIds
         /\ current # NoTask
         /\ tasks[current] \in Task
         /\ tasks[current].state = "Running"
         /\ \A t \in TaskIds : t # current => tasks[t].state # "Running"
         /\ tasks[current].pid # NoPid =>
              /\ tasks[current].pid \in Pids
              /\ procs[tasks[current].pid].state = "Running"
              /\ procs[tasks[current].pid].main = current
              /\ Exists(procs, tasks[current].pid)
BY DEF SchedulerInv, TypeOK, CurrentRuns, RunningIsCurrent, Task, NoPid, Live,
       TasksAndProcessesAgree, TablesAgree, Exists

\* A kernel task that ends leaves the tables in order.
LEMMA KernelTaskEnds ==
  ASSUME SchedulerInv, CurrentRuns, tasks[current].pid = NoPid,
         NEW ts, Ended(ts)
  PROVE  Suspended(ts, procs)
<1>1. /\ current \in TaskIds
      /\ tasks[current].state = "Running"
      /\ \A t \in TaskIds : t # current => tasks[t].state # "Running"
  BY CurrentFacts, Zenon
<1>2. /\ TablesAgree(tasks, procs)
      /\ Served(tasks, procs)
      /\ Forest(procs)
      /\ Numbered(tasks, procs)
      /\ procs \in [Pids -> Process]
      /\ tasks \in [TaskIds -> Task]
  BY Zenon DEF SchedulerInv, TypeOK, TasksAndProcessesAgree, WaiterWillBeServed,
         FamilyConsistent, NumberedInOrder
<1>3. TablesAgree(ts, procs)
  BY <1>1, <1>2 DEF TablesAgree, Ended, Live, Terminal, NoPid, Pids
<1>4. Served(ts, procs)
  <2> SUFFICES ASSUME NEW t \in TaskIds, ts[t].state = "Blocked"
               PROVE  /\ IsChild(procs, ts[t].pid, ts[t].child)
                      /\ procs[ts[t].child].state = "Running"
                      /\ WaitersFor(ts, ts[t].child) = {t}
                      /\ ts[t].ptr # NoPtr =>
                           StatusTargetOk(procs, ts[t].pid, ts[t].ptr)
    BY Zenon DEF Served
  <2>1. ts[t] = tasks[t]
    BY Zenon DEF Ended, Terminal
  <2>2. WaitersFor(ts, ts[t].child) = WaitersFor(tasks, ts[t].child)
    BY <1>1, Zenon DEF WaitersFor, Ended, Terminal
  <2> QED
    BY <1>2, <2>1, <2>2, Zenon DEF Served
<1>5. Numbered(ts, procs)
  BY <1>1, <1>2, Zenon DEF Numbered, Ended, Terminal
<1> QED
  BY <1>1, <1>2, <1>3, <1>4, <1>5, Zenon DEF Suspended, Ended, Terminal

\* The fields of an entry of the process table that an exit elsewhere in the
\* table leaves alone.
SameProcess(a, b) ==
  /\ a.state = b.state
  /\ a.main = b.main
  /\ a.children = b.children
  /\ a.writable = b.writable

\* The fields of an entry that is not in use.
LEMMA FreeSlotFields ==
  /\ FreeSlot \in Process
  /\ FreeSlot.state = "Free"
  /\ FreeSlot.children = {}
  /\ FreeSlot.parent = NoPid
  /\ FreeSlot.orphaned = FALSE
BY DEF FreeSlot, Process, NoExit, Exits, NoStatus, NoPid, NoTask

IsZombieOf(own, q, exit) ==
  /\ own \in Process
  /\ own.state = "Zombie"
  /\ own.children = {}
  /\ own.exit = exit
  /\ own.parent = q.parent
  /\ own.orphaned = q.orphaned

IsOrphanOf(own, q) ==
  /\ own \in Process
  /\ SameProcess(own, q)
  /\ own.parent = NoPid
  /\ own.orphaned = TRUE

\* The process table m is procs after the exit of pid.
AfterExit(m, pid, exit) ==
  /\ m \in [Pids -> Process]
  /\ IsZombieOf(m[pid], procs[pid], exit)
  /\ \A p \in Pids \ {pid} :
       /\ p \notin procs[pid].children => m[p] = procs[p]
       /\ p \in procs[pid].children /\ procs[p].state = "Zombie" => m[p] = FreeSlot
       /\ p \in procs[pid].children /\ procs[p].state # "Zombie" =>
            IsOrphanOf(m[p], procs[p])

\* The entry of a process that exits.
LEMMA ZombieFields ==
  ASSUME NEW q \in Process, NEW e \in Exits, NEW own,
         own = [q EXCEPT !.state = "Zombie", !.exit = e, !.children = {}]
  PROVE  IsZombieOf(own, q, e)
<1>1. own \in Process
  BY Zenon DEF Process
<1>2. /\ own.state = "Zombie" /\ own.children = {} /\ own.exit = e
      /\ own.parent = q.parent
  BY Zenon DEF Process
<1>3. own.orphaned = q.orphaned
  BY Zenon DEF Process
<1> QED
  BY <1>1, <1>2, <1>3, Zenon DEF IsZombieOf

\* The entry of a process whose parent exits.
LEMMA OrphanFields ==
  ASSUME NEW q \in Process, NEW own,
         own = [q EXCEPT !.parent = NoPid, !.orphaned = TRUE]
  PROVE  IsOrphanOf(own, q)
<1>1. own \in Process
  BY Zenon DEF Process, NoPid
<1>2. SameProcess(own, q) /\ own.parent = NoPid
  BY Zenon DEF Process, SameProcess
<1>3. own.orphaned = TRUE
  BY Zenon DEF Process
<1> QED
  BY <1>1, <1>2, <1>3, Zenon DEF IsOrphanOf

\* mark_exited, field by field.
LEMMA MarkExitedEffect ==
  ASSUME SchedulerInv, NEW pid \in Pids, Exists(procs, pid), NEW exit \in Exits,
         NEW m, m = MarkExited(procs, pid, exit)
  PROVE  AfterExit(m, pid, exit)
<1> DEFINE own   == [procs[pid] EXCEPT !.state = "Zombie", !.exit = exit,
                                       !.children = {}]
           orphan(p) == [procs[p] EXCEPT !.parent = NoPid, !.orphaned = TRUE]
           entry(p) == IF p = pid THEN own
                       ELSE IF p \in procs[pid].children /\ Exists(procs, p)
                       THEN IF procs[p].state = "Zombie" THEN FreeSlot
                            ELSE orphan(p)
                       ELSE procs[p]
<1>1. /\ procs \in [Pids -> Process]
      /\ \A p \in Pids : p \in procs[pid].children => Exists(procs, p)
  BY Zenon DEF SchedulerInv, TypeOK, FamilyConsistent, Forest
<1>2. m = [p \in Pids |-> entry(p)]
  BY Zenon DEF MarkExited
<1>3. IsZombieOf(own, procs[pid], exit)
  BY <1>1, ZombieFields, Zenon
<1>4. \A p \in Pids : IsOrphanOf(orphan(p), procs[p])
  BY <1>1, OrphanFields, Zenon
<1> HIDE DEF own, orphan
<1>5. \A p \in Pids : entry(p) \in Process
  BY <1>1, <1>3, <1>4, FreeSlotFields, Zenon DEF IsZombieOf, IsOrphanOf
<1>6. m[pid] = own
  BY <1>2, Zenon
<1>7. \A p \in Pids \ {pid} :
        /\ p \notin procs[pid].children => m[p] = procs[p]
        /\ p \in procs[pid].children /\ procs[p].state = "Zombie" => m[p] = FreeSlot
        /\ p \in procs[pid].children /\ procs[p].state # "Zombie" => m[p] = orphan(p)
  BY <1>1, <1>2, Zenon
<1> HIDE DEF entry
<1>8. m \in [Pids -> Process]
  BY <1>2, <1>5, Zenon
<1> QED
  BY <1>3, <1>4, <1>6, <1>7, <1>8, Zenon DEF AfterExit

\* What an exit of pid may do to the entry of another process p.
OtherEntry(m, p, pid) ==
  /\ procs[p].state = "Running" => SameProcess(m[p], procs[p])
  /\ m[p].state = "Running" => procs[p].state = "Running"
  /\ p \in procs[pid].children => m[p].parent = NoPid
  /\ p \notin procs[pid].children => m[p] = procs[p]
  /\ m[p].children = procs[p].children \/ m[p].children = {}
  /\ m[p].state # "Free" => /\ m[p].children = procs[p].children
                            /\ procs[p].state # "Free"

\* An exit changes other entries only as OtherEntry says.
LEMMA OthersAfterExit ==
  ASSUME NEW m, NEW pid \in Pids, NEW exit, AfterExit(m, pid, exit)
  PROVE  \A p \in Pids \ {pid} : OtherEntry(m, p, pid)
<1> TAKE p \in Pids \ {pid}
<1>1. CASE p \notin procs[pid].children
  BY <1>1, Zenon DEF AfterExit, OtherEntry, SameProcess
<1>2. CASE p \in procs[pid].children /\ procs[p].state = "Zombie"
  BY <1>2, FreeSlotFields, Zenon DEF AfterExit, OtherEntry, SameProcess
<1>3. CASE p \in procs[pid].children /\ procs[p].state # "Zombie"
  BY <1>3, Zenon DEF AfterExit, IsOrphanOf, OtherEntry, SameProcess
<1> QED
  BY <1>1, <1>2, <1>3, Zenon

-----------------------------------------------------------------------------
(***************************************************************************)
(* The task table and the process table when a waitpid completes.          *)
(***************************************************************************)
\* us is ts with task w made Ready; ps is m with pid collected by its parent par.
Woken(us, ts, w) ==
  /\ us \in [TaskIds -> Task]
  /\ us[w].state = "Ready"
  /\ us[w].pid = ts[w].pid
  /\ \A t \in TaskIds : t # w => us[t] = ts[t]

Collected(ps, m, par, pid) ==
  /\ ps \in [Pids -> Process]
  /\ ps[pid] = FreeSlot
  /\ ps[par].state = m[par].state
  /\ ps[par].main = m[par].main
  /\ ps[par].writable = m[par].writable
  /\ ps[par].parent = m[par].parent
  /\ ps[par].orphaned = m[par].orphaned
  /\ ps[par].children = m[par].children \ {pid}
  /\ \A p \in Pids : p # pid /\ p # par => ps[p] = m[p]

\* The conversions of an exit code stay within their types.
LEMMA StatusTyped ==
  ASSUME NEW exit \in Exits
  PROVE  /\ WaitStatus(exit) \in [kind : -1 .. 1, code : Int]
         /\ ProcessExit(exit) \in Exits
<1>1. AsI32(exit.code) \in Int
  BY CodeModulusAssumption DEF AsI32, Exits
<1> QED
  BY <1>1 DEF WaitStatus, ProcessExit, Exits, Exited, Faulted

\* par may collect its child with the pointer ptr.
Collectable(ps, par, child, ptr) ==
  /\ ps \in [Pids -> Process]
  /\ child \in Pids
  /\ par # child
  /\ ps[child].state = "Zombie"
  /\ IsChild(ps, par, child)
  /\ ptr # NoPtr => StatusTargetOk(ps, par, ptr)

\* done is what complete_wait returns for the waiter w of process par.
Completion(done, ts, ps, w, par, child, ptr) ==
  /\ par = ts[w].pid
  /\ done = CompleteWait(ts, ps, w, child, ptr)

\* complete_wait on its successful path: the waiter gets the pid, the status is
\* written and the child is reaped.
LEMMA CompleteWaitEffect ==
  ASSUME NEW ts, NEW ps, NEW w, NEW child, NEW ptr, NEW par, NEW done,
         Collectable(ps, par, child, ptr),
         Completion(done, ts, ps, w, par, child, ptr)
  PROVE  /\ done.tasks = SetRax(ts, w, child)
         /\ Collected(done.procs, ps, par, child)
         /\ ptr # NoPtr => done.procs[par].status = WaitStatus(ps[child].exit)
<1>0. /\ ps \in [Pids -> Process]
      /\ child \in Pids
      /\ par # child
      /\ ps[child].state = "Zombie"
      /\ IsChild(ps, par, child)
      /\ ptr # NoPtr => StatusTargetOk(ps, par, ptr)
  BY Zenon DEF Collectable
<1> DEFINE status == WaitStatus(ps[child].exit)
           written == IF ptr = NoPtr THEN ps ELSE [ps EXCEPT ![par].status = status]
<1>1. par \in Pids /\ ps[par] \in Process /\ ps[child] \in Process /\ par # NoPid
  BY <1>0 DEF IsChild, Exists, NoPid, Pids
<1>2. status \in [kind : -1 .. 1, code : Int]
  BY <1>0, <1>1, StatusTyped, Zenon DEF Process
<1> HIDE DEF status
<1>3. /\ written \in [Pids -> Process]
      /\ \A p \in Pids : p # par => written[p] = ps[p]
      /\ written[par].state = ps[par].state
      /\ written[par].main = ps[par].main
      /\ written[par].writable = ps[par].writable
      /\ written[par].parent = ps[par].parent
      /\ written[par].children = ps[par].children
  BY <1>0, <1>1, <1>2, Zenon DEF Process
<1>4. written[par].orphaned = ps[par].orphaned
  BY <1>0, <1>1, <1>2, Zenon DEF Process
<1>5. ptr # NoPtr => written[par].status = status
  BY <1>0, <1>1, <1>2, Zenon DEF Process
<1>6. IsChild(written, par, child)
  BY <1>0, <1>3, Zenon DEF IsChild, Exists
<1>7. done = [tasks |-> SetRax(ts, w, child),
              procs |-> ReapChild(written, par, child)]
  BY <1>0, <1>1, <1>6, Zenon DEF Completion, CompleteWait, status
<1> HIDE DEF written
<1>8. Collected(ReapChild(written, par, child), ps, par, child)
  <2> DEFINE r == ReapChild(written, par, child)
  <2>1. written[par] \in Process
    BY <1>0, <1>1, <1>3, Zenon
  <2>2. /\ r \in [Pids -> Process]
        /\ r[child] = FreeSlot
        /\ \A p \in Pids : p # child /\ p # par => r[p] = written[p]
        /\ r[par] = [written[par] EXCEPT !.children = @ \ {child}]
    <3> DEFINE q == [written[par] EXCEPT !.children = @ \ {child}]
    <3>1. q \in Process
      BY <2>1, Zenon DEF Process
    <3>2. r = [[written EXCEPT ![par] = q] EXCEPT ![child] = FreeSlot]
      BY <1>0, <1>1, <1>3, Zenon DEF ReapChild
    <3> HIDE DEF q
    <3> DEFINE f == [written EXCEPT ![par] = q]
    <3>3. /\ f \in [Pids -> Process]
          /\ f[par] = q
          /\ \A p \in Pids : p # par => f[p] = written[p]
      BY <1>0, <1>1, <1>3, <3>1, Zenon
    <3> HIDE DEF f
    <3>4. /\ [f EXCEPT ![child] = FreeSlot] \in [Pids -> Process]
          /\ [f EXCEPT ![child] = FreeSlot][child] = FreeSlot
          /\ \A p \in Pids : p # child => [f EXCEPT ![child] = FreeSlot][p] = f[p]
      BY <1>0, <3>3, FreeSlotFields, Zenon
    <3>5. r = [f EXCEPT ![child] = FreeSlot]
      BY <3>2, Zenon DEF f
    <3> QED
      BY <1>0, <1>1, <3>3, <3>4, <3>5, Zenon DEF q
  <2> HIDE DEF r
  <2>3. /\ r[par].state = written[par].state
        /\ r[par].main = written[par].main
        /\ r[par].writable = written[par].writable
        /\ r[par].parent = written[par].parent
        /\ r[par].children = written[par].children \ {child}
    BY <2>1, <2>2, Zenon DEF Process
  <2>4. r[par].orphaned = written[par].orphaned
    BY <2>1, <2>2, Zenon DEF Process
  <2>5. Collected(r, ps, par, child)
    BY <1>0, <1>3, <1>4, <2>2, <2>3, <2>4, Zenon DEF Collected
  <2> QED
    BY <2>5, Zenon DEF r
<1>9. ReapChild(written, par, child)[par].status = written[par].status
  BY <1>0, <1>1, <1>3 DEF ReapChild, Process
<1> QED
  BY <1>0, <1>5, <1>7, <1>8, <1>9, Zenon DEF status

\* us differs from ts in no field of a task that the invariant mentions.
SameTasks(us, ts) ==
  /\ us \in [TaskIds -> Task]
  /\ \A t \in TaskIds : /\ us[t].state = ts[t].state
                        /\ us[t].pid = ts[t].pid
                        /\ us[t].child = ts[t].child
                        /\ us[t].ptr = ts[t].ptr

\* save_current_frame changes nothing the invariant mentions.
LEMMA SaveFrameEffect ==
  ASSUME NEW ts \in [TaskIds -> Task], NEW t \in TaskIds
  PROVE  /\ SameTasks(SaveFrame(ts, t), ts)
         /\ \A s \in TaskIds : s # t => SaveFrame(ts, t)[s] = ts[s]
<1> DEFINE f == [ts EXCEPT ![t].rax = 0]
<1>1. SameTasks(f, ts) /\ \A s \in TaskIds : s # t => f[s] = ts[s]
  BY DEF SameTasks, Task
<1>2. SaveFrame(ts, t) = [f EXCEPT ![t].initialArg = FALSE]
  BY Zenon DEF SaveFrame
<1> HIDE DEF f
<1> DEFINE g == [f EXCEPT ![t].initialArg = FALSE]
<1>3. f \in [TaskIds -> Task]
  BY <1>1, Zenon DEF SameTasks
<1>4. g \in [TaskIds -> Task]
  BY <1>3, ZenonT(60) DEF Task
<1>5. \A s \in TaskIds : s # t => g[s] = f[s]
  BY <1>3, Zenon
<1>6. /\ g[t].state = f[t].state
      /\ g[t].pid = f[t].pid
      /\ g[t].child = f[t].child
      /\ g[t].ptr = f[t].ptr
  BY <1>3, Zenon DEF Task
<1> HIDE DEF g
<1> QED
  BY <1>1, <1>2, <1>4, <1>5, <1>6 DEF SameTasks, g

\* A system call result changes nothing the invariant mentions.
LEMMA SetRaxEffect ==
  ASSUME NEW ts \in [TaskIds -> Task], NEW t \in TaskIds, NEW value \in Int
  PROVE  /\ SameTasks(SetRax(ts, t, value), ts)
         /\ \A s \in TaskIds : s # t => SetRax(ts, t, value)[s] = ts[s]
BY DEF SameTasks, Task, SetRax

-----------------------------------------------------------------------------

\* The current task is the one of process pid; nobody, or task w of process par,
\* waits for it.
Exiting(pid) == CurrentRuns /\ pid = tasks[current].pid
Unwaited(pid) == WaitersFor(tasks, pid) = {}
WaitedBy(w, par, pid) == w \in WaitersFor(tasks, pid) /\ par = tasks[w].pid

\* A user task that nobody waits for ends: its process becomes a zombie, or is
\* freed when it is an orphan.
LEMMA UnwaitedTaskEnds ==
  ASSUME SchedulerInv, NEW pid \in Pids, Exiting(pid), Unwaited(pid),
         NEW ts, Ended(ts), NEW exit, NEW m, AfterExit(m, pid, exit)
  PROVE  Suspended(ts, ReapOrphanIfZombie(m, pid))
<1> DEFINE ps == ReapOrphanIfZombie(m, pid)
<1>1. /\ current \in TaskIds
      /\ tasks[current].state = "Running"
      /\ \A t \in TaskIds : t # current => tasks[t].state # "Running"
      /\ procs[pid].state = "Running"
      /\ procs[pid].main = current
      /\ Exists(procs, pid)
  BY CurrentFacts DEF Exiting, NoPid, Pids
<1>agree. TablesAgree(tasks, procs)
  BY Zenon DEF SchedulerInv, TasksAndProcessesAgree
<1>served. Served(tasks, procs)
  BY Zenon DEF SchedulerInv, WaiterWillBeServed
<1>forest. Forest(procs)
  BY Zenon DEF SchedulerInv, FamilyConsistent
<1>numbered. Numbered(tasks, procs)
  BY Zenon DEF SchedulerInv, NumberedInOrder
<1>types. procs \in [Pids -> Process] /\ tasks \in [TaskIds -> Task]
  BY Zenon DEF SchedulerInv, TypeOK
<1>3. AfterExit(m, pid, exit)
  BY Zenon
<1>4. /\ m \in [Pids -> Process]
      /\ m[pid].state = "Zombie"
      /\ m[pid].children = {}
      /\ m[pid].parent = procs[pid].parent
      /\ m[pid].orphaned = procs[pid].orphaned
  BY <1>3, Zenon DEF AfterExit, IsZombieOf
<1>5. \A p \in Pids \ {pid} :
        /\ p \notin procs[pid].children => m[p] = procs[p]
        /\ p \in procs[pid].children /\ procs[p].state = "Zombie" => m[p] = FreeSlot
        /\ p \in procs[pid].children /\ procs[p].state # "Zombie" =>
             /\ SameProcess(m[p], procs[p])
             /\ m[p].parent = NoPid
             /\ m[p].orphaned = TRUE
  BY <1>3, Zenon DEF AfterExit, IsOrphanOf
<1>6. /\ ps \in [Pids -> Process]
      /\ \A p \in Pids \ {pid} : ps[p] = m[p]
      /\ procs[pid].orphaned => ps[pid] = FreeSlot
      /\ ~procs[pid].orphaned => ps[pid] = m[pid]
  BY <1>4, <1>5, FreeSlotFields, Zenon DEF ReapOrphanIfZombie
<1> HIDE DEF ps
<1>7. /\ ps[pid].state # "Running"
      /\ ps[pid].children = {}
      /\ ~ps[pid].orphaned
  BY <1>4, <1>5, <1>6, FreeSlotFields, Zenon
<1>8. \A p \in Pids \ {pid} :
        /\ procs[p].state = "Running" =>
             /\ ps[p].state = "Running"
             /\ ps[p].main = procs[p].main
             /\ ps[p].children = procs[p].children
             /\ ps[p].writable = procs[p].writable
        /\ ps[p].state = "Running" => procs[p].state = "Running"
  BY <1>3, <1>6, OthersAfterExit DEF OtherEntry, SameProcess
<1>9. /\ \A p \in Pids \ {pid} :
           /\ p \in procs[pid].children => ps[p].parent = NoPid
           /\ p \notin procs[pid].children => ps[p] = procs[p]
           /\ ps[p].children = procs[p].children \/ ps[p].children = {}
           /\ ps[p].state # "Free" => /\ ps[p].children = procs[p].children
                                      /\ procs[p].state # "Free"
      /\ ps[pid].state # "Free" => ps[pid].parent = procs[pid].parent
  BY <1>3, <1>4, <1>6, OthersAfterExit, FreeSlotFields DEF OtherEntry
<1>10. TablesAgree(ts, ps)
  <2>1. \A t \in TaskIds : ts[t].state \in Live /\ ts[t].pid # NoPid =>
          ps[ts[t].pid].state = "Running" /\ ps[ts[t].pid].main = t
    <3> SUFFICES ASSUME NEW t \in TaskIds, ts[t].state \in Live, ts[t].pid # NoPid
                 PROVE  ps[ts[t].pid].state = "Running" /\ ps[ts[t].pid].main = t
      BY Zenon
    <3>1. t # current /\ ts[t] = tasks[t]
      BY Zenon DEF Ended, Live, Terminal
    <3>2. /\ tasks[t].pid \in Pids
          /\ procs[tasks[t].pid].state = "Running"
          /\ procs[tasks[t].pid].main = t
      BY <1>agree, <1>types, <3>1 DEF TablesAgree, Task
    <3> QED
      BY <1>1, <1>8, <3>1, <3>2
  <2>2. \A p \in Pids : ps[p].state = "Running" =>
          /\ ps[p].main \in TaskIds
          /\ ts[ps[p].main].pid = p
          /\ ts[ps[p].main].state \in Live
    BY <1>1, <1>agree, <1>7, <1>8 DEF TablesAgree, Ended
  <2> QED
    BY <2>1, <2>2, Zenon DEF TablesAgree
<1>11. Served(ts, ps)
  <2> SUFFICES ASSUME NEW t \in TaskIds, ts[t].state = "Blocked"
               PROVE  /\ IsChild(ps, ts[t].pid, ts[t].child)
                      /\ ps[ts[t].child].state = "Running"
                      /\ WaitersFor(ts, ts[t].child) = {t}
                      /\ ts[t].ptr # NoPtr =>
                           StatusTargetOk(ps, ts[t].pid, ts[t].ptr)
    BY Zenon DEF Served
  <2>1. t # current /\ ts[t] = tasks[t]
    BY Zenon DEF Ended, Terminal
  <2>2. WaitersFor(ts, ts[t].child) = WaitersFor(tasks, ts[t].child)
    BY <1>1, Zenon DEF WaitersFor, Ended, Terminal
  <2>3. /\ IsChild(procs, ts[t].pid, ts[t].child)
        /\ procs[ts[t].child].state = "Running"
        /\ WaitersFor(tasks, ts[t].child) = {t}
        /\ ts[t].ptr # NoPtr => StatusTargetOk(procs, ts[t].pid, ts[t].ptr)
    BY <1>served, <2>1, Zenon DEF Served
  <2>4. /\ ts[t].pid \in Pids \ {pid}
        /\ procs[ts[t].pid].state = "Running"
    <3>1. ts[t].pid \in Pids /\ ts[t].pid # NoPid
      BY <2>3 DEF IsChild, Exists, Pids, NoPid
    <3>2. procs[ts[t].pid].state = "Running" /\ procs[ts[t].pid].main = t
      BY <1>agree, <2>1, <3>1 DEF TablesAgree, Live
    <3> QED
      BY <1>1, <2>1, <3>1, <3>2, Zenon
  <2>5. ts[t].child \in Pids \ {pid}
    <3>1. ts[t].child \in Pids
      BY <1>types, <2>3, <2>4, Zenon DEF IsChild, Process
    <3>2. WaitersFor(tasks, ts[t].child) # {}
      BY <2>3, Zenon
    <3> QED
      BY <3>1, <3>2, Zenon DEF Unwaited
  <2> QED
    BY <1>8, <2>2, <2>3, <2>4, <2>5, Zenon DEF IsChild, Exists, StatusTargetOk
<1>12. Forest(ps)
  <2>1. \A p, c \in Pids : c \in ps[p].children =>
          Exists(ps, c) /\ ps[c].parent = p /\ p < c
    <3> SUFFICES ASSUME NEW p \in Pids, NEW c \in Pids, c \in ps[p].children
                 PROVE  Exists(ps, c) /\ ps[c].parent = p /\ p < c
      BY Zenon
    <3>1. p # pid /\ c \in procs[p].children
      BY <1>7, <1>9, Zenon
    <3>2. Exists(procs, c) /\ procs[c].parent = p /\ p < c
      BY <1>forest, <3>1, Zenon DEF Forest
    <3>3. c \notin procs[pid].children
      BY <1>forest, <3>1, <3>2, Zenon DEF Forest
    <3>4. c = pid => ps[c] = m[pid]
      BY <1>forest, <1>6, <3>2 DEF Forest, NoPid, Pids
    <3> QED
      BY <1>4, <1>5, <1>6, <3>2, <3>3, <3>4 DEF Exists
  <2>2. \A c \in Pids : Exists(ps, c) /\ Exists(ps, ps[c].parent) =>
          c \in ps[ps[c].parent].children
    <3> SUFFICES ASSUME NEW c \in Pids, Exists(ps, c), Exists(ps, ps[c].parent)
                 PROVE  c \in ps[ps[c].parent].children
      BY Zenon
    <3>1. ps[c].parent \in Pids
      BY Zenon DEF Exists
    <3>2. ps[c].parent = procs[c].parent /\ Exists(procs, c)
      BY <1>1, <1>9, <3>1 DEF Exists, NoPid, Pids
    <3>3. Exists(procs, procs[c].parent)
      BY <1>1, <1>9, <3>1, <3>2, Zenon DEF Exists
    <3>4. c \in procs[procs[c].parent].children
      BY <1>forest, <3>2, <3>3, Zenon DEF Forest
    <3>5. procs[c].parent # pid
      BY <1>forest, <1>9, <3>1, <3>2, <3>4 DEF NoPid, Pids, Forest
    <3> QED
      BY <1>9, <3>1, <3>2, <3>4, <3>5, Zenon DEF Exists
  <2>3. \A c \in Pids : ps[c].orphaned =>
          ps[c].parent = NoPid /\ ps[c].state = "Running"
    <3> SUFFICES ASSUME NEW c \in Pids, ps[c].orphaned
                 PROVE  ps[c].parent = NoPid /\ ps[c].state = "Running"
      BY Zenon
    <3>1. c # pid /\ ps[c] = m[c] /\ m[c] # FreeSlot
      BY <1>6, <1>7, FreeSlotFields, Zenon
    <3>2. CASE c \notin procs[pid].children
      BY <1>forest, <1>4, <1>5, <3>1, <3>2 DEF Forest
    <3>3. CASE c \in procs[pid].children
      <4>1. procs[c].state = "Running"
        BY <1>forest, <1>types, <1>5, <3>1, <3>3 DEF Forest, Exists, Process
      <4> QED
        BY <1>8, <1>9, <3>1, <3>3, <4>1, Zenon
    <3> QED
      BY <3>2, <3>3, Zenon
  <2> QED
    BY <2>1, <2>2, <2>3, Zenon DEF Forest
<1>13. Numbered(ts, ps)
  <2>1. \A t \in TaskIds : t >= ntasks <=> ts[t].state = "Absent"
    BY <1>1, <1>numbered DEF Numbered, Ended, Terminal
  <2>2. \A t \in TaskIds : ts[t].pid < nextPid
    BY <1>1, <1>numbered, Zenon DEF Numbered, Ended
  <2>3. \A p \in Pids : p >= nextPid => ps[p] = FreeSlot
    BY <1>1, <1>forest, <1>numbered, <1>4, <1>5, <1>6, FreeSlotFields, SMTT(30)
    DEF Numbered, Forest, Exists
  <2>4. \A p \in Pids : ps[p].state # "Free" => ps[p].parent < p
    BY <1>1, <1>numbered, <1>4, <1>5, <1>6, FreeSlotFields
    DEF Numbered, SameProcess, NoPid, Pids
  <2>5. \A p \in Pids : ps[p].state = "Free" => ps[p].children = {}
    <3> SUFFICES ASSUME NEW p \in Pids, p # pid, ps[p].state = "Free"
                 PROVE  ps[p].children = {}
      BY <1>7, Zenon
    <3>1. procs[p].state = "Free" => procs[p].children = {}
      BY <1>numbered, Zenon DEF Numbered
    <3> QED
      BY <1>5, <1>6, <3>1, FreeSlotFields DEF SameProcess
  <2> QED
    BY <2>1, <2>2, <2>3, <2>4, <2>5, Zenon DEF Numbered
<1> QED
  BY <1>1, <1>6, <1>10, <1>11, <1>12, <1>13, Zenon DEF Suspended, Ended, Terminal, ps

\* A user task ends whose parent, task w, is blocked in waitpid for it: w becomes
\* Ready, and the process is reaped.
LEMMA WaitedTaskEnds ==
  ASSUME SchedulerInv, NEW pid \in Pids, Exiting(pid),
         NEW w \in TaskIds, NEW par, WaitedBy(w, par, pid),
         NEW exit, NEW m, AfterExit(m, pid, exit),
         NEW ts, Ended(ts), NEW us, Woken(us, ts, w),
         NEW ps, Collected(ps, m, par, pid)
  PROVE  Suspended(us, ps)
<1>1. /\ current \in TaskIds
      /\ tasks[current].state = "Running"
      /\ \A t \in TaskIds : t # current => tasks[t].state # "Running"
      /\ procs[pid].state = "Running"
      /\ procs[pid].main = current
      /\ Exists(procs, pid)
  BY CurrentFacts DEF Exiting, NoPid, Pids
<1>agree. TablesAgree(tasks, procs)
  BY Zenon DEF SchedulerInv, TasksAndProcessesAgree
<1>served. Served(tasks, procs)
  BY Zenon DEF SchedulerInv, WaiterWillBeServed
<1>forest. Forest(procs)
  BY Zenon DEF SchedulerInv, FamilyConsistent
<1>numbered. Numbered(tasks, procs)
  BY Zenon DEF SchedulerInv, NumberedInOrder
<1>types. procs \in [Pids -> Process] /\ tasks \in [TaskIds -> Task]
  BY Zenon DEF SchedulerInv, TypeOK
<1>3. AfterExit(m, pid, exit)
  BY Zenon
<1>4. /\ w # current
      /\ tasks[w].state = "Blocked"
      /\ tasks[w].child = pid
      /\ WaitersFor(tasks, pid) = {w}
      /\ par \in Pids
      /\ pid \in procs[par].children
  BY <1>1, <1>served, <1>types DEF WaitedBy, WaitersFor, Served, IsChild, Exists, Task
<1>5. /\ procs[par].state = "Running"
      /\ procs[par].main = w
      /\ par # pid
      /\ procs[pid].parent = par
      /\ par < pid
      /\ par \notin procs[pid].children
  <2>1. procs[par].state = "Running" /\ procs[par].main = w
    BY <1>agree, <1>4 DEF TablesAgree, Live, WaitedBy, NoPid, Pids
  <2>2. procs[pid].parent = par /\ par < pid
    BY <1>forest, <1>4, Zenon DEF Forest
  <2>3. \A c \in Pids : c \in procs[pid].children => pid < c
    BY <1>forest, Zenon DEF Forest
  <2> QED
    BY <1>4, <2>1, <2>2, <2>3 DEF Pids
<1>6. m[par] = procs[par]
  BY <1>3, <1>4, <1>5, Zenon DEF AfterExit
<1>7. \A p \in Pids \ {pid} :
        /\ procs[p].state = "Running" =>
             /\ ps[p].state = "Running"
             /\ ps[p].main = procs[p].main
             /\ ps[p].children = procs[p].children \ {pid}
             /\ ps[p].writable = procs[p].writable
        /\ ps[p].state = "Running" => procs[p].state = "Running"
  <2> TAKE p \in Pids \ {pid}
  <2>1. CASE p = par
    BY <1>5, <1>6, <2>1, Zenon DEF Collected
  <2>2. CASE p # par
    <3>1. pid \notin procs[p].children
      BY <1>forest, <1>5, <2>2, Zenon DEF Forest
    <3>2. procs[p].children = procs[p].children \ {pid}
      BY <3>1, Zenon
    <3>3. ps[p] = m[p]
      BY <2>2, Zenon DEF Collected
    <3>4. OtherEntry(m, p, pid)
      BY <1>3, OthersAfterExit, Zenon
    <3> QED
      BY <3>2, <3>3, <3>4, Zenon DEF OtherEntry, SameProcess
  <2> QED
    BY <2>1, <2>2, Zenon
<1>8. \A p \in Pids \ {pid} :
        /\ p \in procs[pid].children => ps[p].parent = NoPid
        /\ p \notin procs[pid].children => ps[p].parent = procs[p].parent
        /\ p \notin procs[pid].children => ps[p].state = procs[p].state
        /\ ps[p].children \subseteq procs[p].children
        /\ pid \notin ps[p].children
        /\ ps[p].state # "Free" => /\ ps[p].children = procs[p].children \ {pid}
                                   /\ procs[p].state # "Free"
  <2> TAKE p \in Pids \ {pid}
  <2>1. CASE p = par
    BY <1>5, <1>6, <2>1, Zenon DEF Collected
  <2>2. CASE p # par
    <3>1. pid \notin procs[p].children
      BY <1>forest, <1>5, <2>2 DEF Forest
    <3>2. procs[p].children = procs[p].children \ {pid}
      BY <3>1
    <3>3. ps[p] = m[p]
      BY <2>2 DEF Collected
    <3>4. OtherEntry(m, p, pid)
      BY <1>3, OthersAfterExit
    <3> QED
      BY <3>1, <3>2, <3>3, <3>4, SMTT(30) DEF OtherEntry
  <2> QED
    BY <2>1, <2>2, Zenon
<1>9. /\ ps[pid].state = "Free"
      /\ ps[pid].children = {}
      /\ ps[pid].orphaned = FALSE
  BY FreeSlotFields, Zenon DEF Collected
<1>10. \A t \in TaskIds :
         /\ us[t].pid = tasks[t].pid
         /\ t # current /\ t # w => us[t] = tasks[t]
  BY <1>1, <1>4 DEF Ended, Woken
<1>11. us[current].state \in Terminal
  BY <1>1, <1>4, Zenon DEF Ended, Woken
<1>12. TablesAgree(us, ps)
  <2>1. \A t \in TaskIds : us[t].state \in Live /\ us[t].pid # NoPid =>
          ps[us[t].pid].state = "Running" /\ ps[us[t].pid].main = t
    <3> SUFFICES ASSUME NEW t \in TaskIds, us[t].state \in Live, us[t].pid # NoPid
                 PROVE  ps[us[t].pid].state = "Running" /\ ps[us[t].pid].main = t
      BY Zenon
    <3>1. t # current /\ tasks[t].state \in Live /\ us[t].pid = tasks[t].pid
      BY <1>4, <1>10, <1>11, Zenon DEF Live, Terminal
    <3>2. /\ tasks[t].pid \in Pids
          /\ procs[tasks[t].pid].state = "Running"
          /\ procs[tasks[t].pid].main = t
      BY <1>agree, <1>types, <3>1, SMTT(30) DEF TablesAgree, Task
    <3> QED
      BY <1>1, <1>7, <3>1, <3>2
  <2>2. \A p \in Pids : ps[p].state = "Running" =>
          /\ ps[p].main \in TaskIds
          /\ us[ps[p].main].pid = p
          /\ us[ps[p].main].state \in Live
    <3> SUFFICES ASSUME NEW p \in Pids, ps[p].state = "Running"
                 PROVE  /\ ps[p].main \in TaskIds
                        /\ us[ps[p].main].pid = p
                        /\ us[ps[p].main].state \in Live
      BY Zenon
    <3>1. p # pid /\ procs[p].state = "Running" /\ ps[p].main = procs[p].main
      BY <1>7, <1>9, Zenon
    <3>2. /\ procs[p].main \in TaskIds
          /\ tasks[procs[p].main].pid = p
          /\ tasks[procs[p].main].state \in Live
      BY <1>agree, <3>1, Zenon DEF TablesAgree
    <3>3. us[w].state \in Live
      BY Zenon DEF Woken, Live
    <3>4. procs[p].main # current
      BY <1>types, <3>1, <3>2, Zenon DEF Exiting
    <3>5. us[procs[p].main].pid = p
      BY <1>10, <3>2, Zenon
    <3>6. us[procs[p].main].state \in Live
      BY <1>10, <3>2, <3>3, <3>4, Zenon
    <3> QED
      BY <3>1, <3>2, <3>5, <3>6, Zenon
  <2> QED
    BY <2>1, <2>2, Zenon DEF TablesAgree
<1>13. Served(us, ps)
  <2> SUFFICES ASSUME NEW t \in TaskIds, us[t].state = "Blocked"
               PROVE  /\ IsChild(ps, us[t].pid, us[t].child)
                      /\ ps[us[t].child].state = "Running"
                      /\ WaitersFor(us, us[t].child) = {t}
                      /\ us[t].ptr # NoPtr =>
                           StatusTargetOk(ps, us[t].pid, us[t].ptr)
    BY Zenon DEF Served
  <2>1. t # current /\ t # w /\ us[t] = tasks[t]
    BY <1>10, <1>11, Zenon DEF Woken, Terminal
  <2>2. /\ IsChild(procs, us[t].pid, us[t].child)
        /\ procs[us[t].child].state = "Running"
        /\ WaitersFor(tasks, us[t].child) = {t}
        /\ us[t].ptr # NoPtr => StatusTargetOk(procs, us[t].pid, us[t].ptr)
    BY <1>served, <2>1, Zenon DEF Served
  <2>3. us[t].child # pid
    BY <1>4, <2>1, <2>2, Zenon
  <2>4. WaitersFor(us, us[t].child) = WaitersFor(tasks, us[t].child)
    <3>1. \A s \in TaskIds : us[s].state = "Blocked" <=>
                               s # w /\ tasks[s].state = "Blocked"
      BY <1>1, <1>10, <1>11, Zenon DEF Woken, Terminal
    <3> QED
      BY <1>1, <1>4, <1>10, <2>3, <3>1 DEF WaitersFor
  <2>5. /\ us[t].pid \in Pids \ {pid}
        /\ procs[us[t].pid].state = "Running"
    <3>1. us[t].pid \in Pids /\ us[t].pid # NoPid
      BY <2>2 DEF IsChild, Exists, Pids, NoPid
    <3>2. procs[us[t].pid].state = "Running" /\ procs[us[t].pid].main = t
      BY <1>agree, <2>1, <3>1, SMTT(30) DEF TablesAgree, Live
    <3> QED
      BY <1>1, <2>1, <3>1, <3>2, Zenon
  <2>6. us[t].child \in Pids \ {pid}
    BY <1>types, <2>2, <2>3, <2>5, Zenon DEF IsChild, Process
  <2>7. /\ IsChild(ps, us[t].pid, us[t].child)
        /\ ps[us[t].child].state = "Running"
    BY <1>7, <2>2, <2>5, <2>6, Zenon DEF IsChild, Exists
  <2>8. us[t].ptr # NoPtr => StatusTargetOk(ps, us[t].pid, us[t].ptr)
    BY <1>7, <2>2, <2>5, Zenon DEF StatusTargetOk, Exists
  <2> QED
    BY <2>2, <2>4, <2>7, <2>8, Zenon
<1>14. Forest(ps)
  <2>1. \A p, c \in Pids : c \in ps[p].children =>
          Exists(ps, c) /\ ps[c].parent = p /\ p < c
    <3> SUFFICES ASSUME NEW p \in Pids, NEW c \in Pids, c \in ps[p].children
                 PROVE  Exists(ps, c) /\ ps[c].parent = p /\ p < c
      BY Zenon
    <3>1. p # pid /\ c # pid /\ c \in procs[p].children
      BY <1>8, <1>9, Zenon
    <3>2. Exists(procs, c) /\ procs[c].parent = p /\ p < c
      BY <1>forest, <3>1, Zenon DEF Forest
    <3>3. c \notin procs[pid].children
      BY <1>forest, <3>1, <3>2, Zenon DEF Forest
    <3> QED
      BY <1>8, <3>1, <3>2, <3>3, Zenon DEF Exists
  <2>2. \A c \in Pids : Exists(ps, c) /\ Exists(ps, ps[c].parent) =>
          c \in ps[ps[c].parent].children
    <3> SUFFICES ASSUME NEW c \in Pids, Exists(ps, c), Exists(ps, ps[c].parent)
                 PROVE  c \in ps[ps[c].parent].children
      BY Zenon
    <3>1. c # pid /\ ps[c].parent \in Pids \ {pid} /\ ps[ps[c].parent].state # "Free"
      BY <1>9, Zenon DEF Exists
    <3>2. c \notin procs[pid].children /\ ps[c].parent = procs[c].parent
      BY <1>8, <3>1, SMTT(30) DEF NoPid, Pids
    <3>3. Exists(procs, c) /\ Exists(procs, procs[c].parent)
      BY <1>8, <3>1, <3>2, SMTT(30) DEF Exists
    <3>4. c \in procs[procs[c].parent].children
      BY <1>forest, <3>3, Zenon DEF Forest
    <3> QED
      BY <1>8, <3>1, <3>2, <3>4, Zenon
  <2>3. \A c \in Pids : ps[c].orphaned =>
          ps[c].parent = NoPid /\ ps[c].state = "Running"
    <3> SUFFICES ASSUME NEW c \in Pids, ps[c].orphaned
                 PROVE  ps[c].parent = NoPid /\ ps[c].state = "Running"
      BY Zenon
    <3>1. c # pid
      BY <1>9, Zenon
    <3>2. CASE c = par
      <4>1. /\ ps[c].orphaned = procs[c].orphaned
            /\ ps[c].parent = procs[c].parent
            /\ ps[c].state = procs[c].state
        BY <1>6, <3>2, Zenon DEF Collected
      <4> QED
        BY <1>forest, <4>1, Zenon DEF Forest
    <3>3. CASE c # par /\ c \notin procs[pid].children
      <4>1. ps[c] = procs[c]
        BY <1>3, <3>1, <3>3, Zenon DEF Collected, AfterExit
      <4> QED
        BY <1>forest, <4>1, Zenon DEF Forest
    <3>4. CASE c # par /\ c \in procs[pid].children
      <4>1. m[c] # FreeSlot
        BY <3>1, <3>4, FreeSlotFields, Zenon DEF Collected
      <4>2. procs[c].state = "Running"
        <5>1. procs[c].state # "Free"
          BY <1>forest, <3>4, SMTT(30) DEF Forest, Exists
        <5>2. procs[c].state # "Zombie"
          BY <1>3, <3>1, <3>4, <4>1, Zenon DEF AfterExit
        <5> QED
          BY <1>types, <5>1, <5>2, Zenon DEF Process
      <4> QED
        BY <1>7, <1>8, <3>1, <3>4, <4>2, SMTT(30)
    <3> QED
      BY <3>2, <3>3, <3>4, Zenon
  <2> QED
    BY <2>1, <2>2, <2>3, Zenon DEF Forest
<1>15. Numbered(us, ps)
  <2>1. \A t \in TaskIds : t >= ntasks <=> us[t].state = "Absent"
    <3>1. \A t \in TaskIds : t >= ntasks <=> tasks[t].state = "Absent"
      BY <1>numbered, Zenon DEF Numbered
    <3>2. \A t \in TaskIds : us[t].state = "Absent" <=> tasks[t].state = "Absent"
      BY <1>1, <1>4, <1>10, <1>11, Zenon DEF Woken, Terminal
    <3> QED
      BY <3>1, <3>2, Zenon
  <2>2. \A t \in TaskIds : us[t].pid < nextPid
    BY <1>numbered, <1>10, Zenon DEF Numbered
  <2>3. \A p \in Pids : p >= nextPid => ps[p] = FreeSlot
    <3> SUFFICES ASSUME NEW p \in Pids, p >= nextPid PROVE ps[p] = FreeSlot
      BY Zenon
    <3>1. procs[p] = FreeSlot
      BY <1>numbered, Zenon DEF Numbered
    <3>2. p # pid /\ p # par /\ p \notin procs[pid].children
      BY <1>1, <1>forest, <1>5, <3>1, FreeSlotFields, Zenon DEF Forest, Exists
    <3> QED
      BY <1>3, <3>1, <3>2, Zenon DEF AfterExit, Collected
  <2>4. \A p \in Pids : ps[p].state # "Free" => ps[p].parent < p
    <3> SUFFICES ASSUME NEW p \in Pids, ps[p].state # "Free" PROVE ps[p].parent < p
      BY Zenon
    <3>1. p # pid /\ procs[p].state # "Free"
      BY <1>8, <1>9, Zenon
    <3>2. procs[p].parent < p
      BY <1>numbered, <3>1, Zenon DEF Numbered
    <3>3. ps[p].parent = NoPid \/ ps[p].parent = procs[p].parent
      BY <1>8, <3>1, Zenon
    <3> QED
      BY <3>2, <3>3, SMTT(30) DEF NoPid, Pids
  <2>5. \A p \in Pids : ps[p].state = "Free" => ps[p].children = {}
    <3> SUFFICES ASSUME NEW p \in Pids, p # pid, ps[p].state = "Free"
                 PROVE  ps[p].children = {}
      BY <1>9, Zenon
    <3>1. p # par
      BY <1>5, <1>7, Zenon
    <3>2. ps[p] = m[p]
      BY <3>1, Zenon DEF Collected
    <3>3. CASE p \in procs[pid].children
      <4>1. m[p] = FreeSlot
        <5>1. procs[p].state # "Free"
          BY <1>forest, <3>3, Zenon DEF Forest, Exists
        <5>2. m[p].state = "Free"
          BY <3>2, Zenon
        <5>3. procs[p].state # "Zombie" => IsOrphanOf(m[p], procs[p])
          BY <1>3, <3>3, Zenon DEF AfterExit
        <5>4. procs[p].state = "Zombie" => m[p] = FreeSlot
          BY <1>3, <3>3, Zenon DEF AfterExit
        <5> QED
          BY <5>1, <5>2, <5>3, <5>4, Zenon DEF IsOrphanOf, SameProcess
      <4> QED
        BY <3>2, <4>1, FreeSlotFields, Zenon
    <3>4. CASE p \notin procs[pid].children
      BY <1>numbered, <1>3, <3>2, <3>4, SMTT(30) DEF AfterExit, Numbered
    <3> QED
      BY <3>3, <3>4, Zenon
  <2> QED
    BY <2>1, <2>2, <2>3, <2>4, <2>5, Zenon DEF Numbered
<1>16. \A t \in TaskIds : us[t].state # "Running" /\ us[t].pid = tasks[t].pid
  BY <1>1, <1>10, <1>11, Zenon DEF Woken, Terminal
<1> QED
  BY <1>12, <1>13, <1>14, <1>15, <1>16, Zenon DEF Suspended, Woken, Collected

\* The task table in which finish_current_from_interrupt has recorded the end.
EndTask(finalState, exit) ==
  [SaveFrame(tasks, current) EXCEPT ![current].state = finalState,
                                    ![current].exit = exit]

\* Recording the end of the current task leaves every other task alone.
LEMMA EndTaskEffect ==
  ASSUME SchedulerInv, CurrentRuns, NEW finalState \in Terminal, NEW exit \in Exits
  PROVE  /\ Ended(EndTask(finalState, exit))
         /\ EndTask(finalState, exit)[current].exit = exit
<1> DEFINE saved == SaveFrame(tasks, current)
           f == [saved EXCEPT ![current].state = finalState]
<1>1. current \in TaskIds /\ tasks \in [TaskIds -> Task]
  BY CurrentFacts, Zenon DEF SchedulerInv, TypeOK
<1>2. SameTasks(saved, tasks) /\ \A t \in TaskIds : t # current => saved[t] = tasks[t]
  BY <1>1, SaveFrameEffect, Zenon
<1> HIDE DEF saved
<1>3. /\ f \in [TaskIds -> Task]
      /\ f[current].pid = saved[current].pid
      /\ f[current].state = finalState
      /\ \A t \in TaskIds : t # current => f[t] = saved[t]
  BY <1>1, <1>2 DEF SameTasks, Task, TaskStates, Terminal
<1> DEFINE g == [f EXCEPT ![current].exit = exit]
<1>4. EndTask(finalState, exit) = g
  BY Zenon DEF saved, EndTask
<1> HIDE DEF f
<1>5. /\ g \in [TaskIds -> Task]
      /\ g[current].pid = f[current].pid
      /\ g[current].state = f[current].state
      /\ \A t \in TaskIds : t # current => g[t] = f[t]
  BY <1>1, <1>3 DEF Task
<1>6. g[current].exit = exit
  BY <1>1, <1>3, Zenon DEF Task
<1> HIDE DEF g
<1> QED
  BY <1>1, <1>2, <1>3, <1>4, <1>5, <1>6, Zenon DEF Ended, SameTasks

\* woken is what wake_parent_waiting_for returns when task w of process par waits.
WokenFor(woken, w, par, ts, m, pid) ==
  /\ WaitersFor(ts, pid) # {}
  /\ w = Min(WaitersFor(ts, pid))
  /\ par = tasks[w].pid
  /\ woken = WakeParentWaitingFor(ts, m, pid)

\* The wait of task w of process par for process pid has ended with exit.
WaitEnds(woken, w, par, ts, m, pid, exit) ==
  /\ w \in TaskIds
  /\ WaitedBy(w, par, pid)
  /\ Woken(woken.tasks, ts, w)
  /\ woken.tasks[w].rax = pid
  /\ Collected(woken.procs, m, par, pid)
  /\ tasks[w].ptr # NoPtr => woken.procs[par].status = WaitStatus(exit)

\* wake_parent_waiting_for on the path on which it finds a waiter: the wait is
\* completed without an error, and the waiter becomes Ready with the pid in rax.
LEMMA WakeEffect ==
  ASSUME SchedulerInv, NEW pid \in Pids, Exiting(pid),
         NEW ended, Ended(ended), NEW exit, NEW m, AfterExit(m, pid, exit),
         NEW w, NEW par, NEW woken, WokenFor(woken, w, par, ended, m, pid)
  PROVE  WaitEnds(woken, w, par, ended, m, pid, exit)
<1> DEFINE done == CompleteWait(ended, m, w, pid, ended[w].ptr)
           us == [done.tasks EXCEPT ![w].state = "Ready", ![w].child = NoPid,
                                    ![w].ptr = NoPtr]
<1>1. /\ current \in TaskIds
      /\ tasks[current].state = "Running"
      /\ pid # NoPid
      /\ ended \in [TaskIds -> Task]
  BY CurrentFacts, SMTT(30) DEF Exiting, Ended, Pids, NoPid
<1>2. WaitersFor(ended, pid) = WaitersFor(tasks, pid)
  BY <1>1, Zenon DEF WaitersFor, Ended, Terminal
<1>3. w \in WaitersFor(tasks, pid) /\ w \in TaskIds
  <2>1. WaitersFor(ended, pid) \in SUBSET Nat
    BY DEF WaitersFor, TaskIds
  <2> QED
    BY <1>2, <2>1, MinIsLeast, Zenon DEF WokenFor, WaitersFor
<1>4. woken = [tasks |-> us, procs |-> done.procs]
  BY Zenon DEF WakeParentWaitingFor, WokenFor
<1> HIDE DEF done
<1>5. woken.tasks = us /\ woken.procs = done.procs
  <2> HIDE DEF us
  <2> QED
    BY <1>4, Zenon
<1>6. /\ w # current
      /\ ended[w] = tasks[w]
      /\ tasks[w].state = "Blocked"
      /\ tasks[w].child = pid
      /\ par = ended[w].pid
  BY <1>1, <1>3, Zenon DEF WaitersFor, Ended, WokenFor
<1>7. /\ IsChild(procs, par, pid)
      /\ tasks[w].ptr # NoPtr => StatusTargetOk(procs, par, tasks[w].ptr)
  BY <1>3, <1>6, Zenon DEF SchedulerInv, WaiterWillBeServed, Served
<1>8. /\ par \in Pids
      /\ par # pid
      /\ par \notin procs[pid].children
  <2>1. Forest(procs)
    BY Zenon DEF SchedulerInv, FamilyConsistent
  <2> QED
    BY <1>7, <2>1, SMTT(60) DEF IsChild, Exists, Forest, Pids
<1>9. /\ m \in [Pids -> Process]
      /\ m[par] = procs[par]
      /\ m[pid].state = "Zombie"
      /\ m[pid].exit = exit
  BY <1>8, Zenon DEF AfterExit, IsZombieOf
<1>10. /\ IsChild(m, par, pid)
       /\ ended[w].ptr # NoPtr => StatusTargetOk(m, par, ended[w].ptr)
  BY <1>6, <1>7, <1>9, Zenon DEF IsChild, StatusTargetOk, Exists
<1>11. /\ done.tasks = SetRax(ended, w, pid)
       /\ Collected(done.procs, m, par, pid)
       /\ ended[w].ptr # NoPtr => done.procs[par].status = WaitStatus(m[pid].exit)
  <2>1. Completion(done, ended, m, w, par, pid, ended[w].ptr)
    BY <1>6, Zenon DEF Completion, done
  <2>2. Collectable(m, par, pid, ended[w].ptr)
    BY <1>8, <1>9, <1>10, Zenon DEF Collectable
  <2> QED
    BY <2>1, <2>2, CompleteWaitEffect
<1>12. Woken(us, ended, w) /\ us[w].rax = pid
  <2> DEFINE d == SetRax(ended, w, pid)
             f == [d EXCEPT ![w].state = "Ready"]
             g == [f EXCEPT ![w].child = NoPid]
  <2>1. SameTasks(d, ended) /\ \A t \in TaskIds : t # w => d[t] = ended[t]
    BY <1>1, <1>3, SetRaxEffect, SMTT(60) DEF Pids
  <2>r. d[w].rax = pid
    BY <1>1, <1>3, Zenon DEF SetRax, Task
  <2> HIDE DEF d
  <2>2. /\ f \in [TaskIds -> Task]
        /\ f[w].pid = d[w].pid
        /\ f[w].rax = d[w].rax
        /\ f[w].state = "Ready"
        /\ \A t \in TaskIds : t # w => f[t] = d[t]
    BY <1>3, <2>1 DEF SameTasks, Task, TaskStates
  <2> HIDE DEF f
  <2>3. /\ g \in [TaskIds -> Task]
        /\ g[w].pid = f[w].pid
        /\ g[w].rax = f[w].rax
        /\ g[w].state = f[w].state
        /\ \A t \in TaskIds : t # w => g[t] = f[t]
    BY <1>3, <2>2 DEF Task, NoPid
  <2>4. us = [g EXCEPT ![w].ptr = NoPtr]
    BY <1>11, Zenon DEF d, f
  <2> HIDE DEF g, us
  <2>5. /\ us \in [TaskIds -> Task]
        /\ us[w].pid = g[w].pid
        /\ us[w].rax = g[w].rax
        /\ us[w].state = g[w].state
        /\ \A t \in TaskIds : t # w => us[t] = g[t]
    BY <1>3, <2>3, <2>4 DEF Task
  <2>6. us[w].state = "Ready" /\ us[w].rax = pid
    BY <2>r, <2>2, <2>3, <2>5, Zenon
  <2>7. us[w].pid = ended[w].pid /\ \A t \in TaskIds : t # w => us[t] = ended[t]
    <3>1. d[w].pid = ended[w].pid
      BY <1>3, <2>1, Zenon DEF SameTasks
    <3> QED
      BY <2>1, <2>2, <2>3, <2>5, <3>1
  <2> QED
    BY <2>5, <2>6, <2>7, Zenon DEF Woken
<1> HIDE DEF us
<1> QED
  BY <1>3, <1>5, <1>6, <1>9, <1>11, <1>12, Zenon DEF WaitEnds, WaitedBy, WokenFor

\* finish_current_from_interrupt: exit and faults.
LEMMA FinishKeepsInv ==
  ASSUME SchedulerInv, CurrentRuns, NEW finalState \in Terminal, NEW exit \in Exits,
         FinishCurrent(finalState, exit)
  PROVE  Good'
<1> DEFINE pid == tasks[current].pid
           ended == EndTask(finalState, exit)
           m == MarkExited(procs, pid, ProcessExit(exit))
           woken == WakeParentWaitingFor(ended, m, pid)
<1>1. /\ current \in TaskIds
      /\ current # NoTask
      /\ tasks[current].state = "Running"
      /\ pid # NoPid => pid \in Pids /\ Exists(procs, pid)
  BY CurrentFacts, Zenon
<1>2. Ended(ended)
  BY EndTaskEffect, Zenon
<1>3. ProcessExit(exit) \in Exits
  BY StatusTyped, Zenon
<1>4. CASE pid = NoPid
  <2>1. RunNextOrMain(ended, procs)
    BY <1>4, Zenon DEF FinishCurrent, EndTask
  <2> HIDE DEF ended
  <2>2. Suspended(ended, procs)
    BY <1>2, <1>4, KernelTaskEnds, Zenon
  <2> QED
    BY <1>1, <2>1, <2>2, DispatchKeepsInv, Zenon
<1>5. CASE pid # NoPid
  <2>1. RunNextOrMain(woken.tasks, ReapOrphanIfZombie(woken.procs, pid))
    BY <1>1, <1>5, Zenon DEF FinishCurrent, EndTask
  <2> HIDE DEF ended, m
  <2>2. WaitersFor(ended, pid) = WaitersFor(tasks, pid)
    BY <1>1, <1>2, Zenon DEF WaitersFor, Ended, Terminal
  <2>3. pid \in Pids /\ Exiting(pid) /\ AfterExit(m, pid, ProcessExit(exit))
    BY <1>1, <1>3, <1>5, MarkExitedEffect, Zenon DEF m, Exiting
  <2>4. CASE WaitersFor(tasks, pid) = {}
    <3>1. woken.tasks = ended /\ woken.procs = m
      BY <2>2, <2>4, Zenon DEF WakeParentWaitingFor
    <3>2. Suspended(ended, ReapOrphanIfZombie(m, pid))
      BY <1>2, <2>3, <2>4, UnwaitedTaskEnds, Zenon DEF Unwaited
    <3>3. RunNextOrMain(ended, ReapOrphanIfZombie(m, pid))
      BY <2>1, <3>1, Zenon
    <3> QED
      BY <1>1, <3>2, <3>3, DispatchKeepsInv, Zenon
  <2>5. CASE WaitersFor(tasks, pid) # {}
    <3> DEFINE w == Min(WaitersFor(ended, pid))
               par == tasks[w].pid
    <3>1. WokenFor(woken, w, par, ended, m, pid)
      BY <2>2, <2>5, Zenon DEF WokenFor
    <3> HIDE DEF w, par, woken, pid
    <3>2. /\ w \in TaskIds
          /\ WaitedBy(w, par, pid)
          /\ Woken(woken.tasks, ended, w)
          /\ Collected(woken.procs, m, par, pid)
      BY <1>2, <2>3, <3>1, WakeEffect, Zenon DEF WaitEnds
    <3>3. Suspended(woken.tasks, woken.procs)
      BY <1>2, <2>3, <3>2, WaitedTaskEnds, Zenon
    <3>4. ReapOrphanIfZombie(woken.procs, pid) = woken.procs
      BY <3>2, FreeSlotFields, Zenon DEF Collected, ReapOrphanIfZombie
    <3>5. RunNextOrMain(woken.tasks, woken.procs)
      BY <2>1, <3>4, Zenon
    <3> QED
      BY <1>1, <3>3, <3>5, DispatchKeepsInv, Zenon
  <2> QED
    BY <2>4, <2>5, Zenon
<1> QED
  BY <1>4, <1>5, Zenon

-----------------------------------------------------------------------------
(***************************************************************************)
(* The other operations.                                                   *)
(***************************************************************************)
\* A step that keeps the process table, who runs, and every state, pid and wait
\* reason keeps the invariant.
LEMMA QuietStepKeepsInv ==
  ASSUME SchedulerInv, SameTasks(tasks', tasks),
         preemption' \in BOOLEAN, mainIrq' \in BOOLEAN,
         UNCHANGED <<ntasks, procs, nextPid, current, cached, cr3, rsp0, panicked>>
  PROVE  SchedulerInv'
<1>1. TypeOK'
  BY Zenon DEF SchedulerInv, TypeOK, SameTasks
<1>2. RunningIsCurrent' /\ NoTaskStranded' /\ NoKernelPanic'
  BY Zenon DEF SchedulerInv, RunningIsCurrent, NoTaskStranded, NoKernelPanic, SameTasks
<1>3. TasksAndProcessesAgree'
  BY DEF SchedulerInv, TypeOK, TasksAndProcessesAgree, TablesAgree, SameTasks
<1>4. WaiterWillBeServed'
  <2> SUFFICES ASSUME NEW t \in TaskIds, tasks'[t].state = "Blocked"
               PROVE  /\ IsChild(procs, tasks'[t].pid, tasks'[t].child)
                      /\ procs[tasks'[t].child].state = "Running"
                      /\ WaitersFor(tasks', tasks'[t].child) = {t}
                      /\ tasks'[t].ptr # NoPtr =>
                           StatusTargetOk(procs, tasks'[t].pid, tasks'[t].ptr)
    BY Zenon DEF WaiterWillBeServed, Served, IsChild, StatusTargetOk, Exists
  <2>1. WaitersFor(tasks', tasks'[t].child) = WaitersFor(tasks, tasks[t].child)
    BY Zenon DEF WaitersFor, SameTasks
  <2> QED
    BY <2>1 DEF SchedulerInv, WaiterWillBeServed, Served, SameTasks
<1>5. AddressSpaceCoherent'
  BY Zenon DEF SchedulerInv, TypeOK, AddressSpaceCoherent, SameTasks
<1>6. FamilyConsistent' /\ NumberedInOrder'
  BY DEF SchedulerInv, FamilyConsistent, Forest, Exists, NumberedInOrder, Numbered,
         SameTasks
<1> QED
  BY <1>1, <1>2, <1>3, <1>4, <1>5, <1>6, Zenon DEF SchedulerInv

\* run()
LEMMA RunKeepsInv == SchedulerInv /\ Run => SchedulerInv' /\ current' # NoTask
<1> SUFFICES ASSUME SchedulerInv, Run PROVE SchedulerInv' /\ current' # NoTask
  BY Zenon
<1> DEFINE next == FirstReady(tasks)
<1>1. Suspended(tasks, procs)
  <2>1. \A t \in TaskIds : tasks[t].state # "Running"
    BY DEF Run, SchedulerInv, RunningIsCurrent, NoTask, TaskIds
  <2> QED
    BY <2>1, Zenon
    DEF Suspended, SchedulerInv, TypeOK, TasksAndProcessesAgree, WaiterWillBeServed,
        FamilyConsistent, NumberedInOrder
<1>2. next \in TaskIds /\ tasks[next].state = "Ready"
  <2>1. ReadyTasks(tasks) \in SUBSET Nat /\ ReadyTasks(tasks) # {}
    BY DEF Run, ReadyTasks, TaskIds
  <2>2. next \in ReadyTasks(tasks)
    BY <2>1, MinIsLeast, Zenon DEF FirstReady
  <2> QED
    BY <2>2, Zenon DEF ReadyTasks
<1>3. Resumed(tasks, procs, next)
  BY Zenon DEF Run, Resumed
<1> QED
  BY <1>1, <1>2, <1>3, ResumeKeepsInv, Zenon

\* switch_from_interrupt: the timer and yield.
LEMMA SwitchKeepsInv ==
  ASSUME SchedulerInv, CurrentRuns, SwitchFromInterrupt
  PROVE  SchedulerInv' /\ current' # NoTask
<1> DEFINE saved == SaveFrame(tasks, current)
           next == NextReadyAfter(tasks, current)
           ts == [saved EXCEPT ![current].state = "Ready"]
<1>1. /\ current \in TaskIds
      /\ current # NoTask
      /\ tasks[current].state = "Running"
      /\ \A t \in TaskIds : t # current => tasks[t].state # "Running"
      /\ tasks \in [TaskIds -> Task]
  BY CurrentFacts, Zenon DEF SchedulerInv, TypeOK
<1>2. SameTasks(saved, tasks)
  BY <1>1, SaveFrameEffect, Zenon
<1>3. CASE next = NoTask
  <2>1. /\ tasks' = saved
        /\ UNCHANGED <<current, cached, cr3, rsp0, panicked>>
        /\ UNCHANGED <<ntasks, procs, nextPid, preemption, mainIrq>>
    BY <1>3, Zenon DEF SwitchFromInterrupt
  <2> HIDE DEF saved
  <2>2. preemption' \in BOOLEAN /\ mainIrq' \in BOOLEAN
    BY <2>1, Zenon DEF SchedulerInv, TypeOK
  <2> QED
    BY <1>1, <1>2, <2>1, <2>2, QuietStepKeepsInv, Zenon
<1>4. CASE next # NoTask
  <2>1. next \in TaskIds /\ tasks[next].state = "Ready" /\ next # current
    <3>1. /\ ntasks \in Nat
          /\ ntasks <= MaxTasks
          /\ current \in 0 .. ntasks - 1
      BY <1>1, MaxTasksAssumption
      DEF SchedulerInv, TypeOK, NumberedInOrder, Numbered, TaskIds
    <3>2. \A t \in TaskIds : t >= ntasks => tasks[t].state # "Ready"
      BY Zenon DEF SchedulerInv, NumberedInOrder, Numbered
    <3> QED
      BY <1>1, <1>4, <3>1, <3>2, NextReadyFound, Zenon
  <2>2. /\ tasks' = [ts EXCEPT ![next].state = "Running"]
        /\ current' = next
        /\ PrepareToRun(next, cached)
        /\ panicked' = LosesAddressSpace(procs, next)
        /\ UNCHANGED <<ntasks, procs, nextPid, preemption, mainIrq>>
    BY <1>4, Zenon DEF SwitchFromInterrupt
  <2>3. cached = cr3
    BY <1>1, Zenon DEF SchedulerInv, AddressSpaceCoherent
  <2>4. Resumed(ts, procs, next)
    BY <2>2, <2>3, Zenon DEF Resumed
  <2> HIDE DEF saved, next
  <2>5. /\ ts \in [TaskIds -> Task]
        /\ \A t \in TaskIds : /\ ts[t].state = IF t = current THEN "Ready"
                                               ELSE tasks[t].state
                              /\ ts[t].pid = tasks[t].pid
                              /\ ts[t].child = tasks[t].child
                              /\ ts[t].ptr = tasks[t].ptr
    BY <1>1, <1>2 DEF SameTasks, Task, TaskStates
  <2> HIDE DEF ts
  <2>6. TablesAgree(ts, procs)
    BY <1>1, <2>5 DEF SchedulerInv, TypeOK, TasksAndProcessesAgree, TablesAgree, Live
  <2>7. Served(ts, procs)
    <3> SUFFICES ASSUME NEW t \in TaskIds, ts[t].state = "Blocked"
                 PROVE  /\ IsChild(procs, ts[t].pid, ts[t].child)
                        /\ procs[ts[t].child].state = "Running"
                        /\ WaitersFor(ts, ts[t].child) = {t}
                        /\ ts[t].ptr # NoPtr =>
                             StatusTargetOk(procs, ts[t].pid, ts[t].ptr)
      BY Zenon DEF Served
    <3>1. WaitersFor(ts, ts[t].child) = WaitersFor(tasks, tasks[t].child)
      BY <1>1, <2>5, Zenon DEF WaitersFor
    <3>2. tasks[t].state = "Blocked"
      BY <2>5, Zenon
    <3> QED
      BY <2>5, <3>1, <3>2, Zenon DEF SchedulerInv, WaiterWillBeServed, Served
  <2>8. Numbered(ts, procs)
    BY <1>1, <2>5 DEF SchedulerInv, NumberedInOrder, Numbered
  <2>9. Suspended(ts, procs)
    BY <1>1, <2>5, <2>6, <2>7, <2>8, Zenon
    DEF Suspended, SchedulerInv, TypeOK, FamilyConsistent
  <2> QED
    BY <2>1, <2>4, <2>5, <2>9, ResumeKeepsInv, Zenon
<1> QED
  BY <1>3, <1>4, Zenon

\* What waitpid has checked when none of its early returns is taken.
LEMMA WaitPidChecks ==
  ASSUME SchedulerInv, CurrentRuns, NEW child, NEW ptr, NEW options,
         WaitPidError(tasks[current].pid, child, ptr, options) = 0
  PROVE  /\ tasks[current].pid \in Pids
         /\ child \in Pids
         /\ IsChild(procs, tasks[current].pid, child)
         /\ ptr # NoPtr => StatusTargetOk(procs, tasks[current].pid, ptr)
         /\ tasks[current].pid < child
<1>1. /\ IsChild(procs, tasks[current].pid, child)
      /\ ptr # NoPtr => StatusTargetOk(procs, tasks[current].pid, ptr)
      /\ Exists(procs, child)
  BY DEF WaitPidError, ECHILD, EFAULT, EINVAL
<1> QED
  BY <1>1, Zenon DEF IsChild, Exists, SchedulerInv, FamilyConsistent, Forest

\* The task table in which waitpid_from_interrupt has blocked its caller.
BlockTask(child, ptr) ==
  [SaveFrame(tasks, current) EXCEPT ![current].state = "Blocked",
                                    ![current].child = child,
                                    ![current].ptr = ptr]

\* ts is tasks with the current task blocked for child.
Blocked(ts, child, ptr) ==
  /\ ts \in [TaskIds -> Task]
  /\ ts[current].state = "Blocked"
  /\ ts[current].child = child
  /\ ts[current].ptr = ptr
  /\ ts[current].pid = tasks[current].pid
  /\ \A t \in TaskIds : t # current => ts[t] = tasks[t]

\* Blocking the current task leaves every other task alone.
LEMMA BlockTaskEffect ==
  ASSUME SchedulerInv, CurrentRuns, NEW child \in Pids, NEW ptr \in Ptrs \cup {NoPtr}
  PROVE  Blocked(BlockTask(child, ptr), child, ptr)
<1> DEFINE saved == SaveFrame(tasks, current)
           f == [saved EXCEPT ![current].state = "Blocked"]
           g == [f EXCEPT ![current].child = child]
           h == [g EXCEPT ![current].ptr = ptr]
<1>1. current \in TaskIds /\ tasks \in [TaskIds -> Task]
  BY CurrentFacts, Zenon DEF SchedulerInv, TypeOK
<1>2. SameTasks(saved, tasks) /\ \A t \in TaskIds : t # current => saved[t] = tasks[t]
  BY <1>1, SaveFrameEffect, Zenon
<1>3. BlockTask(child, ptr) = h
  BY Zenon DEF BlockTask
<1> HIDE DEF saved
<1>4. /\ f \in [TaskIds -> Task]
      /\ f[current].state = "Blocked"
      /\ f[current].pid = tasks[current].pid
      /\ \A t \in TaskIds : t # current => f[t] = tasks[t]
  BY <1>1, <1>2 DEF SameTasks, Task, TaskStates
<1> HIDE DEF f
<1>5. /\ g \in [TaskIds -> Task]
      /\ g[current].state = "Blocked"
      /\ g[current].child = child
      /\ g[current].pid = tasks[current].pid
      /\ \A t \in TaskIds : t # current => g[t] = tasks[t]
  BY <1>1, <1>4 DEF Task
<1> HIDE DEF g
<1>6. Blocked(h, child, ptr)
  BY <1>1, <1>5 DEF Task, Blocked
<1> HIDE DEF h
<1> QED
  BY <1>3, <1>6, Zenon

\* A call of waitpid that fails returns a number.
LEMMA WaitPidErrors ==
  WaitPidFails => \E error \in Int : tasks' = SetRax(tasks, current, -error)
<1> SUFFICES ASSUME WaitPidFails
             PROVE  \E error \in Int : tasks' = SetRax(tasks, current, -error)
  OBVIOUS
<1>1. \A child, ptr, options :
        WaitPidError(tasks[current].pid, child, ptr, options) \in {0, ECHILD, EFAULT, EINVAL}
  BY Zenon DEF WaitPidError
<1>2. {0, ECHILD, EFAULT, EINVAL} \subseteq Int
  BY DEF ECHILD, EFAULT, EINVAL
<1> QED
  BY <1>1, <1>2 DEF WaitPidFails

\* waitpid that has to wait.
LEMMA WaitPidBlocksKeepsInv ==
  ASSUME SchedulerInv, NEW child, NEW ptr \in Ptrs \cup {NoPtr},
         WaitPidBlocks(child, ptr)
  PROVE  Good'
<1> DEFINE pid == tasks[current].pid
           ts == BlockTask(child, ptr)
<1>1. /\ CurrentRuns
      /\ procs[child].state = "Running"
      /\ RunNextOrMain(ts, procs)
      /\ WaitPidError(pid, child, ptr, 0) = 0
  BY Zenon DEF WaitPidBlocks, BlockTask
<1>2. /\ current \in TaskIds
      /\ current # NoTask
      /\ tasks[current].state = "Running"
      /\ \A t \in TaskIds : t # current => tasks[t].state # "Running"
      /\ tasks \in [TaskIds -> Task]
      /\ procs[pid].main = current
  BY <1>1, CurrentFacts, WaitPidChecks DEF SchedulerInv, TypeOK, NoPid, Pids
<1>3. /\ pid \in Pids
      /\ child \in Pids
      /\ IsChild(procs, pid, child)
      /\ ptr # NoPtr => StatusTargetOk(procs, pid, ptr)
  BY <1>1, WaitPidChecks, Zenon
<1>4. /\ ts \in [TaskIds -> Task]
      /\ ts[current].state = "Blocked"
      /\ ts[current].child = child
      /\ ts[current].ptr = ptr
      /\ ts[current].pid = pid
      /\ \A t \in TaskIds : t # current => ts[t] = tasks[t]
  BY <1>1, <1>3, BlockTaskEffect DEF Blocked
<1> HIDE DEF ts
<1>5. WaitersFor(tasks, child) = {}
  <2> SUFFICES ASSUME NEW t \in TaskIds, tasks[t].state = "Blocked",
                      tasks[t].child = child
               PROVE  FALSE
    BY Zenon DEF WaitersFor
  <2>1. IsChild(procs, tasks[t].pid, child)
    BY Zenon DEF SchedulerInv, WaiterWillBeServed, Served
  <2>2. tasks[t].pid = pid
    BY <1>3, <2>1 DEF IsChild, Exists, SchedulerInv, FamilyConsistent, Forest
  <2>3. procs[tasks[t].pid].main = t
    BY <1>3, <2>2
    DEF SchedulerInv, TasksAndProcessesAgree, TablesAgree, Live, NoPid, Pids
  <2> QED
    BY <1>2, <2>2, <2>3, Zenon
<1>6. TablesAgree(ts, procs)
  BY <1>2, <1>4 DEF SchedulerInv, TypeOK, TasksAndProcessesAgree, TablesAgree, Live
<1>7. Served(ts, procs)
  <2> SUFFICES ASSUME NEW t \in TaskIds, ts[t].state = "Blocked"
               PROVE  /\ IsChild(procs, ts[t].pid, ts[t].child)
                      /\ procs[ts[t].child].state = "Running"
                      /\ WaitersFor(ts, ts[t].child) = {t}
                      /\ ts[t].ptr # NoPtr =>
                           StatusTargetOk(procs, ts[t].pid, ts[t].ptr)
    BY Zenon DEF Served
  <2>1. CASE t = current
    <3>1. WaitersFor(ts, child) = {current}
      BY <1>2, <1>4, <1>5 DEF WaitersFor
    <3> QED
      BY <1>1, <1>3, <1>4, <2>1, <3>1, Zenon
  <2>2. CASE t # current
    <3>1. ts[t] = tasks[t] /\ tasks[t].child # child
      BY <1>4, <1>5, <2>2, Zenon DEF WaitersFor
    <3>2. WaitersFor(ts, ts[t].child) = WaitersFor(tasks, tasks[t].child)
      BY <1>2, <1>4, <3>1 DEF WaitersFor
    <3> QED
      BY <3>1, <3>2, Zenon DEF SchedulerInv, WaiterWillBeServed, Served
  <2> QED
    BY <2>1, <2>2, Zenon
<1>8. Numbered(ts, procs)
  BY <1>2, <1>4, Zenon DEF SchedulerInv, NumberedInOrder, Numbered
<1>9. Suspended(ts, procs)
  BY <1>2, <1>4, <1>6, <1>7, <1>8, Zenon
  DEF Suspended, SchedulerInv, TypeOK, FamilyConsistent
<1> QED
  BY <1>1, <1>2, <1>9, DispatchKeepsInv, Zenon

\* waitpid for a child that has exited: the caller gets the child's pid, and the
\* child is reaped.
LEMMA CollectEffect ==
  ASSUME SchedulerInv, NEW child, NEW ptr, NEW options,
         WaitPidCollects(child, ptr, options)
  PROVE  /\ SameTasks(tasks', tasks)
         /\ \A t \in TaskIds : t # current => tasks'[t] = tasks[t]
         /\ tasks'[current].rax = child
         /\ Collected(procs', procs, tasks[current].pid, child)
<1> DEFINE pid == tasks[current].pid
           saved == SaveFrame(tasks, current)
           done == CompleteWait(saved, procs, current, child, ptr)
<1>1. /\ CurrentRuns
      /\ procs[child].state = "Zombie"
      /\ WaitPidError(pid, child, ptr, options) = 0
      /\ tasks' = done.tasks
      /\ procs' = done.procs
  BY Zenon DEF WaitPidCollects
<1>2. /\ current \in TaskIds
      /\ tasks \in [TaskIds -> Task]
      /\ procs \in [Pids -> Process]
  BY <1>1, CurrentFacts, Zenon DEF SchedulerInv, TypeOK
<1>3. /\ pid \in Pids
      /\ child \in Pids
      /\ IsChild(procs, pid, child)
      /\ ptr # NoPtr => StatusTargetOk(procs, pid, ptr)
      /\ pid < child
  BY <1>1, WaitPidChecks, Zenon
<1>4. SameTasks(saved, tasks) /\ \A t \in TaskIds : t # current => saved[t] = tasks[t]
  BY <1>2, SaveFrameEffect, Zenon
<1> HIDE DEF saved, done
<1>5. saved \in [TaskIds -> Task] /\ saved[current].pid = pid /\ pid # child
  BY <1>2, <1>3, <1>4 DEF SameTasks, Pids
<1>6. /\ done.tasks = SetRax(saved, current, child)
      /\ Collected(done.procs, procs, pid, child)
  <2>1. Completion(done, saved, procs, current, pid, child, ptr)
    BY <1>5, Zenon DEF Completion, done
  <2>2. Collectable(procs, pid, child, ptr)
    BY <1>1, <1>2, <1>3, <1>5, Zenon DEF Collectable
  <2> HIDE DEF pid
  <2> QED
    BY <2>1, <2>2, CompleteWaitEffect
<1>7. /\ SameTasks(SetRax(saved, current, child), saved)
      /\ \A t \in TaskIds : t # current => SetRax(saved, current, child)[t] = saved[t]
  BY <1>2, <1>3, <1>5, SetRaxEffect DEF Pids
<1>8. SetRax(saved, current, child)[current].rax = child
  BY <1>2, <1>5, Zenon DEF SetRax, Task
<1>9. SameTasks(tasks', tasks)
  BY <1>1, <1>4, <1>6, <1>7 DEF SameTasks
<1>10. Collected(procs', procs, pid, child)
  BY <1>1, <1>6, Zenon
<1> QED
  BY <1>1, <1>4, <1>6, <1>7, <1>8, <1>9, <1>10, Zenon

\* Collecting a child keeps the invariant.
LEMMA WaitPidCollectsKeepsInv ==
  ASSUME SchedulerInv, NEW child, NEW ptr, NEW options,
         WaitPidCollects(child, ptr, options)
  PROVE  SchedulerInv' /\ current' # NoTask
<1> DEFINE pid == tasks[current].pid
<1>1. /\ CurrentRuns
      /\ procs[child].state = "Zombie"
      /\ WaitPidError(pid, child, ptr, options) = 0
      /\ UNCHANGED <<ntasks, nextPid, current, preemption, cached, cr3, rsp0,
                     mainIrq, panicked>>
  BY Zenon DEF WaitPidCollects
<1>2. /\ current \in TaskIds
      /\ current # NoTask
      /\ tasks \in [TaskIds -> Task]
      /\ procs \in [Pids -> Process]
  BY <1>1, CurrentFacts, Zenon DEF SchedulerInv, TypeOK
<1>3. /\ pid \in Pids
      /\ child \in Pids
      /\ IsChild(procs, pid, child)
      /\ pid < child
  BY <1>1, WaitPidChecks, Zenon
<1>4. SameTasks(tasks', tasks)
  BY CollectEffect, Zenon
<1>5. Collected(procs', procs, pid, child)
  BY CollectEffect, Zenon
<1>6. /\ procs' \in [Pids -> Process]
      /\ procs'[child].state = "Free" /\ procs'[child].children = {}
      /\ procs'[child].orphaned = FALSE
      /\ procs'[child] = FreeSlot
      /\ \A p \in Pids : p # child =>
           /\ procs'[p].state = procs[p].state
           /\ procs'[p].main = procs[p].main
           /\ procs'[p].writable = procs[p].writable
           /\ procs'[p].parent = procs[p].parent
           /\ procs'[p].children = procs[p].children \ {child}
  <2>1. \A p \in Pids : p # pid => child \notin procs[p].children
    BY <1>3, SMTT(30) DEF SchedulerInv, FamilyConsistent, Forest, IsChild
  <2>2. \A p \in Pids : p # child /\ p # pid =>
          procs'[p] = procs[p] /\ procs[p].children = procs[p].children \ {child}
    BY <1>5, <2>1, Zenon DEF Collected
  <2> QED
    BY <1>5, <2>2, FreeSlotFields, Zenon DEF Collected
<1>7. \A p \in Pids : p # child => procs'[p].orphaned = procs[p].orphaned
  BY <1>5, Zenon DEF Collected
<1>8. TypeOK'
  BY <1>1, <1>4, <1>6, Zenon DEF SchedulerInv, TypeOK, SameTasks
<1>9. RunningIsCurrent' /\ NoTaskStranded' /\ NoKernelPanic'
  BY <1>1, <1>4
  DEF SchedulerInv, RunningIsCurrent, NoTaskStranded, NoKernelPanic, SameTasks
<1>10. TasksAndProcessesAgree'
  <2>1. \A t \in TaskIds : tasks'[t].state \in Live /\ tasks'[t].pid # NoPid =>
          procs'[tasks'[t].pid].state = "Running" /\ procs'[tasks'[t].pid].main = t
    BY <1>1, <1>2, <1>4, <1>6, SMTT(30)
    DEF SchedulerInv, TasksAndProcessesAgree, TablesAgree, SameTasks, Task
  <2>2. \A p \in Pids : procs'[p].state = "Running" =>
          /\ procs'[p].main \in TaskIds
          /\ tasks'[procs'[p].main].pid = p
          /\ tasks'[procs'[p].main].state \in Live
    BY <1>4, <1>6, SMTT(30)
    DEF SchedulerInv, TasksAndProcessesAgree, TablesAgree, SameTasks
  <2> QED
    BY <2>1, <2>2, Zenon DEF TasksAndProcessesAgree, TablesAgree
<1>11. WaiterWillBeServed'
  <2> SUFFICES ASSUME NEW t \in TaskIds, tasks'[t].state = "Blocked"
               PROVE  /\ IsChild(procs', tasks'[t].pid, tasks'[t].child)
                      /\ procs'[tasks'[t].child].state = "Running"
                      /\ WaitersFor(tasks', tasks'[t].child) = {t}
                      /\ tasks'[t].ptr # NoPtr =>
                           StatusTargetOk(procs', tasks'[t].pid, tasks'[t].ptr)
    BY Zenon DEF WaiterWillBeServed, Served
  <2>1. WaitersFor(tasks', tasks'[t].child) = WaitersFor(tasks, tasks[t].child)
    BY <1>4, Zenon DEF WaitersFor, SameTasks
  <2>2. /\ tasks[t].state = "Blocked"
        /\ tasks'[t].pid = tasks[t].pid
        /\ tasks'[t].child = tasks[t].child
        /\ tasks'[t].ptr = tasks[t].ptr
    BY <1>4, Zenon DEF SameTasks
  <2>3. /\ IsChild(procs, tasks[t].pid, tasks[t].child)
        /\ procs[tasks[t].child].state = "Running"
        /\ WaitersFor(tasks, tasks[t].child) = {t}
        /\ tasks[t].ptr # NoPtr => StatusTargetOk(procs, tasks[t].pid, tasks[t].ptr)
    BY <2>2, Zenon DEF SchedulerInv, WaiterWillBeServed, Served
  <2>4. /\ tasks[t].child # child
        /\ tasks[t].child \in Pids
        /\ tasks[t].pid \in Pids
        /\ tasks[t].pid # child
    <3>1. tasks[t].pid \in Pids /\ tasks[t].child \in Pids
      BY <1>2, <2>3, Zenon DEF IsChild, Exists, Process
    <3>2. procs[tasks[t].pid].state = "Running"
      BY <2>2, <3>1
      DEF SchedulerInv, TasksAndProcessesAgree, TablesAgree, Live, NoPid, Pids
    <3> QED
      BY <1>1, <2>3, <3>1, <3>2, Zenon
  <2> QED
    BY <1>6, <2>1, <2>2, <2>3, <2>4 DEF IsChild, Exists, StatusTargetOk
<1>12. AddressSpaceCoherent'
  BY <1>1, <1>2, <1>4, Zenon DEF SchedulerInv, AddressSpaceCoherent, SameTasks
<1>13. FamilyConsistent'
  <2>1. \A p, c \in Pids : c \in procs'[p].children =>
          Exists(procs', c) /\ procs'[c].parent = p /\ p < c
    BY <1>3, <1>6, SMTT(30) DEF SchedulerInv, FamilyConsistent, Forest, Exists
  <2>2. \A c \in Pids : Exists(procs', c) /\ Exists(procs', procs'[c].parent) =>
          c \in procs'[procs'[c].parent].children
    BY <1>3, <1>6, SMTT(60) DEF SchedulerInv, FamilyConsistent, Forest, Exists
  <2>3. \A c \in Pids : procs'[c].orphaned =>
          procs'[c].parent = NoPid /\ procs'[c].state = "Running"
    BY <1>6, <1>7 DEF SchedulerInv, FamilyConsistent, Forest
  <2> QED
    BY <2>1, <2>2, <2>3, Zenon DEF FamilyConsistent, Forest
<1>14. NumberedInOrder'
  <2>1. \A p \in Pids : p >= nextPid => p # child /\ procs'[p] = FreeSlot
    <3> SUFFICES ASSUME NEW p \in Pids, p >= nextPid
                 PROVE  p # child /\ procs'[p] = FreeSlot
      BY Zenon
    <3>1. procs[p] = FreeSlot
      BY Zenon DEF SchedulerInv, NumberedInOrder, Numbered
    <3>2. p # child /\ p # pid
      BY <1>1, <1>3, <3>1, FreeSlotFields, Zenon DEF IsChild, Exists
    <3> QED
      BY <1>5, <3>1, <3>2, Zenon DEF Collected
  <2>2. \A t \in TaskIds : /\ t >= ntasks <=> tasks'[t].state = "Absent"
                           /\ tasks'[t].pid < nextPid
    BY <1>4 DEF SchedulerInv, NumberedInOrder, Numbered, SameTasks
  <2>3. \A p \in Pids : /\ procs'[p].state # "Free" => procs'[p].parent < p
                        /\ procs'[p].state = "Free" => procs'[p].children = {}
    BY <1>6 DEF SchedulerInv, NumberedInOrder, Numbered
  <2> QED
    BY <1>1, <2>1, <2>2, <2>3, Zenon DEF NumberedInOrder, Numbered
<1> QED
  BY <1>1, <1>2, <1>8, <1>9, <1>10, <1>11, <1>12, <1>13, <1>14, Zenon DEF SchedulerInv

\* Facts about the slot that a new task takes.
LEMMA NewTaskSlot ==
  ASSUME SchedulerInv, ntasks < MaxTasks
  PROVE  /\ ntasks \in TaskIds
         /\ tasks[ntasks].state = "Absent"
         /\ ntasks # current
         /\ \A p \in Pids : procs[p].state = "Running" => procs[p].main # ntasks
<1>1. ntasks \in TaskIds
  BY MaxTasksAssumption DEF SchedulerInv, TypeOK, TaskIds
<1>2. tasks[ntasks].state = "Absent"
  BY <1>1 DEF SchedulerInv, NumberedInOrder, Numbered, TaskIds
<1> QED
  BY <1>1, <1>2, Zenon
  DEF SchedulerInv, RunningIsCurrent, TasksAndProcessesAgree, TablesAgree, Live

\* A new task is Ready and belongs to the process it was made for.
LEMMA NewTaskTyped ==
  ASSUME SchedulerInv, NEW pid \in Pids \cup {NoPid}
  PROVE  /\ NewTask(pid, CallerIrq) \in Task
         /\ NewTask(pid, CallerIrq).state = "Ready"
         /\ NewTask(pid, CallerIrq).pid = pid
<1>1. CallerIrq \in BOOLEAN
  BY Zenon DEF CallerIrq, SchedulerInv, TypeOK, Task
<1> HIDE DEF CallerIrq
<1>2. NoExit \in Exits
  BY DEF NoExit, Exits
<1>3. NewTask(pid, CallerIrq) \in Task
  BY <1>1, <1>2 DEF NewTask, Task, TaskStates, NoPid
<1> QED
  BY <1>3, Zenon DEF NewTask

\* The task table after a spawn: one more Ready task.
AddedTask(us, pid) ==
  /\ us \in [TaskIds -> Task]
  /\ us[ntasks].state = "Ready"
  /\ us[ntasks].pid = pid
  /\ \A t \in TaskIds : t # ntasks => us[t] = tasks[t]

\* A spawn fills the next free slot and no other.
LEMMA AddTaskEffect ==
  ASSUME SchedulerInv, ntasks < MaxTasks, NEW pid \in Pids \cup {NoPid},
         AddTask(pid)
  PROVE  AddedTask(tasks', pid) /\ ntasks' = ntasks + 1
<1> DEFINE new == NewTask(pid, CallerIrq)
<1>1. new \in Task /\ new.state = "Ready" /\ new.pid = pid
  BY NewTaskTyped, Zenon
<1>2. tasks' = [tasks EXCEPT ![ntasks] = new] /\ ntasks' = ntasks + 1
  BY Zenon DEF AddTask
<1> HIDE DEF new
<1>3. ntasks \in TaskIds /\ tasks \in [TaskIds -> Task]
  BY NewTaskSlot, Zenon DEF SchedulerInv, TypeOK
<1> QED
  BY <1>1, <1>2, <1>3, Zenon DEF AddedTask

\* spawn
LEMMA SpawnKeepsInv == SchedulerInv /\ Spawn => SchedulerInv'
<1> SUFFICES ASSUME SchedulerInv, Spawn PROVE SchedulerInv'
  BY Zenon
<1>1. /\ ntasks < MaxTasks
      /\ AddTask(NoPid)
      /\ UNCHANGED <<procs, nextPid, current, preemption, cached, cr3, rsp0,
                     mainIrq, panicked>>
  BY Zenon DEF Spawn
<1>2. /\ ntasks \in TaskIds
      /\ tasks[ntasks].state = "Absent"
      /\ ntasks # current
      /\ \A p \in Pids : procs[p].state = "Running" => procs[p].main # ntasks
  BY <1>1, NewTaskSlot, Zenon
<1>3. AddedTask(tasks', NoPid) /\ ntasks' = ntasks + 1
  BY <1>1, AddTaskEffect, Zenon
<1>4. TypeOK'
  BY <1>1, <1>3, MaxTasksAssumption DEF SchedulerInv, TypeOK, AddedTask
<1>5. RunningIsCurrent' /\ NoTaskStranded' /\ NoKernelPanic' /\ AddressSpaceCoherent'
  BY <1>1, <1>2, <1>3, Zenon
  DEF SchedulerInv, TypeOK, RunningIsCurrent, NoTaskStranded, NoKernelPanic,
      AddressSpaceCoherent, AddedTask
<1>6. TasksAndProcessesAgree'
  <2>1. \A t \in TaskIds : tasks'[t].state \in Live /\ tasks'[t].pid # NoPid =>
          procs[tasks'[t].pid].state = "Running" /\ procs[tasks'[t].pid].main = t
    BY <1>3 DEF SchedulerInv, TasksAndProcessesAgree, TablesAgree, AddedTask
  <2>2. \A p \in Pids : procs[p].state = "Running" =>
          /\ procs[p].main \in TaskIds
          /\ tasks'[procs[p].main].pid = p
          /\ tasks'[procs[p].main].state \in Live
    BY <1>2, <1>3, SMTT(30) DEF SchedulerInv, TasksAndProcessesAgree, TablesAgree, AddedTask
  <2> QED
    BY <1>1, <2>1, <2>2, Zenon DEF TasksAndProcessesAgree, TablesAgree
<1>7. WaiterWillBeServed'
  <2> SUFFICES ASSUME NEW t \in TaskIds, tasks'[t].state = "Blocked"
               PROVE  /\ IsChild(procs, tasks'[t].pid, tasks'[t].child)
                      /\ procs[tasks'[t].child].state = "Running"
                      /\ WaitersFor(tasks', tasks'[t].child) = {t}
                      /\ tasks'[t].ptr # NoPtr =>
                           StatusTargetOk(procs, tasks'[t].pid, tasks'[t].ptr)
    BY <1>1, Zenon DEF WaiterWillBeServed, Served, IsChild, StatusTargetOk, Exists
  <2>1. t # ntasks /\ tasks'[t] = tasks[t]
    BY <1>3, Zenon DEF AddedTask
  <2>2. WaitersFor(tasks', tasks'[t].child) = WaitersFor(tasks, tasks[t].child)
    BY <1>2, <1>3, <2>1 DEF WaitersFor, AddedTask
  <2> QED
    BY <2>1, <2>2, Zenon DEF SchedulerInv, WaiterWillBeServed, Served
<1>8. FamilyConsistent'
  BY <1>1, Zenon DEF SchedulerInv, FamilyConsistent, Forest, Exists
<1>9. NumberedInOrder'
  <2>1. \A t \in TaskIds : t >= ntasks + 1 <=> tasks'[t].state = "Absent"
    BY <1>2, <1>3 DEF SchedulerInv, NumberedInOrder, Numbered, AddedTask, TaskIds
  <2>2. \A t \in TaskIds : tasks'[t].pid < nextPid
    BY <1>2, <1>3
    DEF SchedulerInv, TypeOK, NumberedInOrder, Numbered, AddedTask, NoPid
  <2> QED
    BY <1>1, <1>3, <2>1, <2>2, Zenon DEF SchedulerInv, NumberedInOrder, Numbered
<1> QED
  BY <1>4, <1>5, <1>6, <1>7, <1>8, <1>9, Zenon DEF SchedulerInv

\* spawn_user_process, with or without a parent.
LEMMA SpawnUserProcessKeepsInv ==
  ASSUME SchedulerInv, NEW parent \in Pids \cup {NoPid}, SpawnUserProcess(parent)
  PROVE  SchedulerInv'
<1> DEFINE pid == nextPid
           born == NewProcess(parent, ntasks)
<1>1. /\ ntasks < MaxTasks
      /\ CanCreate(parent)
      /\ procs' = Create(procs, parent, pid, ntasks)
      /\ nextPid' = pid + 1
      /\ AddTask(pid)
      /\ UNCHANGED <<current, preemption, cached, cr3, rsp0, mainIrq, panicked>>
  BY Zenon DEF SpawnUserProcess
<1>2. /\ ntasks \in TaskIds
      /\ tasks[ntasks].state = "Absent"
      /\ ntasks # current
      /\ \A p \in Pids : procs[p].state = "Running" => procs[p].main # ntasks
  BY <1>1, NewTaskSlot, Zenon
<1>3. /\ pid \in Pids
      /\ procs[pid] = FreeSlot
      /\ procs[pid].state = "Free"
      /\ procs \in [Pids -> Process]
      /\ parent # NoPid => Exists(procs, parent) /\ parent # pid /\ parent < pid
  <2>1. pid \in Pids /\ procs \in [Pids -> Process]
    BY <1>1, MaxProcessesAssumption DEF CanCreate, SchedulerInv, TypeOK, Pids
  <2>2. \A p \in Pids : p >= pid => procs[p] = FreeSlot
    BY Zenon DEF SchedulerInv, NumberedInOrder, Numbered
  <2>3. parent # NoPid => Exists(procs, parent)
    BY <1>1, Zenon DEF CanCreate
  <2> QED
    BY <2>1, <2>2, <2>3, FreeSlotFields DEF Exists, Pids
<1>4. AddedTask(tasks', pid) /\ ntasks' = ntasks + 1
  BY <1>1, <1>3, AddTaskEffect, Zenon
<1>5. /\ born \in Process
      /\ born.state = "Running"
      /\ born.parent = parent
      /\ born.children = {}
      /\ born.main = ntasks
      /\ born.orphaned = FALSE
  <2>1. NoExit \in Exits /\ NoStatus \in [kind : -1 .. 1, code : Int]
    BY DEF NoExit, Exits, NoStatus
  <2>2. born \in Process
    BY <1>2, <2>1, Zenon DEF NewProcess, Process
  <2> QED
    BY <2>2, Zenon DEF NewProcess
<1> HIDE DEF born
<1>6. /\ procs' \in [Pids -> Process]
      /\ procs'[pid] = born
      /\ \A p \in Pids : p # pid /\ p # parent => procs'[p] = procs[p]
      /\ parent # NoPid =>
           procs'[parent] = [procs[parent] EXCEPT !.children = @ \cup {pid}]
  <2> DEFINE heir(p) == [procs[p] EXCEPT !.children = @ \cup {pid}]
             entry(p) == IF p = pid THEN born
                         ELSE IF p = parent THEN heir(p) ELSE procs[p]
  <2>1. procs' = [p \in Pids |-> entry(p)]
    BY <1>1, Zenon DEF Create, born
  <2>2. \A p \in Pids : heir(p) \in Process
    BY <1>3 DEF Process
  <2> HIDE DEF heir
  <2>3. \A p \in Pids : entry(p) \in Process
    BY <1>3, <1>5, <2>2, Zenon
  <2>4. \A p \in Pids : p # pid /\ p # parent => procs'[p] = procs[p]
    BY <2>1, Zenon
  <2>5. parent # NoPid => procs'[parent] = heir(parent)
    BY <1>3, <2>1, Zenon
  <2>6. procs'[pid] = born
    BY <1>3, <2>1, Zenon
  <2> HIDE DEF entry
  <2> QED
    BY <2>1, <2>3, <2>4, <2>5, <2>6, Zenon DEF heir
<1>7. \A p \in Pids : p # pid =>
        /\ procs'[p].state = procs[p].state
        /\ procs'[p].main = procs[p].main
        /\ procs'[p].writable = procs[p].writable
        /\ procs'[p].parent = procs[p].parent
        /\ p # parent => procs'[p].children = procs[p].children
        /\ p = parent => procs'[p].children = procs[p].children \cup {pid}
  <2>1. parent # NoPid =>
          /\ procs'[parent].state = procs[parent].state
          /\ procs'[parent].main = procs[parent].main
          /\ procs'[parent].writable = procs[parent].writable
          /\ procs'[parent].parent = procs[parent].parent
          /\ procs'[parent].children = procs[parent].children \cup {pid}
    BY <1>3, <1>6 DEF Process, Exists
  <2>2. \A p \in Pids : p # NoPid
    BY DEF NoPid, Pids
  <2> QED
    BY <1>6, <2>1, <2>2, Zenon
<1>8. \A p \in Pids : p # pid => procs'[p].orphaned = procs[p].orphaned
  <2>1. parent # NoPid => procs'[parent].orphaned = procs[parent].orphaned
    BY <1>3, <1>6 DEF Process
  <2> QED
    BY <1>3, <1>6, <2>1 DEF NoPid, Pids
<1>9. TypeOK'
  BY <1>1, <1>3, <1>4, <1>6, MaxTasksAssumption, MaxProcessesAssumption, SMTT(30)
  DEF SchedulerInv, TypeOK, AddedTask, Pids
<1>10. RunningIsCurrent' /\ NoTaskStranded' /\ NoKernelPanic' /\ AddressSpaceCoherent'
  BY <1>1, <1>2, <1>4
  DEF SchedulerInv, TypeOK, RunningIsCurrent, NoTaskStranded, NoKernelPanic,
      AddressSpaceCoherent, AddedTask
<1>11. \A t \in TaskIds : tasks[t].pid # pid
  BY DEF SchedulerInv, TypeOK, NumberedInOrder, Numbered, Task, Pids, NoPid
<1>12. TasksAndProcessesAgree'
  <2>1. \A t \in TaskIds : tasks'[t].state \in Live /\ tasks'[t].pid # NoPid =>
          procs'[tasks'[t].pid].state = "Running" /\ procs'[tasks'[t].pid].main = t
    <3> SUFFICES ASSUME NEW t \in TaskIds, tasks'[t].state \in Live,
                        tasks'[t].pid # NoPid
                 PROVE  /\ procs'[tasks'[t].pid].state = "Running"
                        /\ procs'[tasks'[t].pid].main = t
      BY Zenon
    <3>1. CASE t = ntasks
      BY <1>4, <1>5, <1>6, <3>1, Zenon DEF AddedTask
    <3>2. CASE t # ntasks
      <4>1. tasks'[t] = tasks[t] /\ tasks[t].pid \in Pids
        BY <1>4, <3>2, Zenon DEF AddedTask, SchedulerInv, TypeOK, Task
      <4> QED
        BY <1>7, <1>11, <4>1, SMTT(60) DEF SchedulerInv, TasksAndProcessesAgree, TablesAgree
    <3> QED
      BY <3>1, <3>2, Zenon
  <2>2. \A p \in Pids : procs'[p].state = "Running" =>
          /\ procs'[p].main \in TaskIds
          /\ tasks'[procs'[p].main].pid = p
          /\ tasks'[procs'[p].main].state \in Live
    BY <1>2, <1>4, <1>5, <1>6, <1>7, SMTT(30)
    DEF SchedulerInv, TasksAndProcessesAgree, TablesAgree, AddedTask, Live
  <2> QED
    BY <2>1, <2>2, Zenon DEF TasksAndProcessesAgree, TablesAgree
<1>13. WaiterWillBeServed'
  <2> SUFFICES ASSUME NEW t \in TaskIds, tasks'[t].state = "Blocked"
               PROVE  /\ IsChild(procs', tasks'[t].pid, tasks'[t].child)
                      /\ procs'[tasks'[t].child].state = "Running"
                      /\ WaitersFor(tasks', tasks'[t].child) = {t}
                      /\ tasks'[t].ptr # NoPtr =>
                           StatusTargetOk(procs', tasks'[t].pid, tasks'[t].ptr)
    BY Zenon DEF WaiterWillBeServed, Served
  <2>1. t # ntasks /\ tasks'[t] = tasks[t]
    BY <1>4, Zenon DEF AddedTask
  <2>2. WaitersFor(tasks', tasks'[t].child) = WaitersFor(tasks, tasks[t].child)
    BY <1>2, <1>4, <2>1, Zenon DEF WaitersFor, AddedTask
  <2>3. /\ IsChild(procs, tasks[t].pid, tasks[t].child)
        /\ procs[tasks[t].child].state = "Running"
        /\ WaitersFor(tasks, tasks[t].child) = {t}
        /\ tasks[t].ptr # NoPtr => StatusTargetOk(procs, tasks[t].pid, tasks[t].ptr)
    BY <2>1, Zenon DEF SchedulerInv, WaiterWillBeServed, Served
  <2>4. /\ tasks[t].pid \in Pids \ {pid}
        /\ tasks[t].child \in Pids \ {pid}
    BY <1>3, <1>11, <2>3, Zenon DEF IsChild, Exists, Process
  <2>5. /\ procs'[tasks[t].pid].state = procs[tasks[t].pid].state
        /\ procs'[tasks[t].pid].writable = procs[tasks[t].pid].writable
        /\ procs[tasks[t].pid].children \subseteq procs'[tasks[t].pid].children
        /\ procs'[tasks[t].child].state = procs[tasks[t].child].state
    BY <1>7, <2>4, Zenon
  <2>6. IsChild(procs', tasks[t].pid, tasks[t].child)
    BY <2>3, <2>5, Zenon DEF IsChild, Exists
  <2>7. tasks[t].ptr # NoPtr => StatusTargetOk(procs', tasks[t].pid, tasks[t].ptr)
    BY <2>3, <2>5, Zenon DEF StatusTargetOk, Exists
  <2> QED
    BY <2>1, <2>2, <2>3, <2>5, <2>6, <2>7, Zenon
<1>14. FamilyConsistent'
  <2>1. \A p, c \in Pids : c \in procs'[p].children =>
          Exists(procs', c) /\ procs'[c].parent = p /\ p < c
    <3> SUFFICES ASSUME NEW p \in Pids, NEW c \in Pids, c \in procs'[p].children
                 PROVE  Exists(procs', c) /\ procs'[c].parent = p /\ p < c
      BY Zenon
    <3>1. p # pid
      BY <1>5, <1>6, Zenon
    <3>2. CASE c = pid
      <4>1. pid \notin procs[p].children
        BY <1>3, Zenon DEF SchedulerInv, FamilyConsistent, Forest, Exists
      <4>2. p = parent /\ parent # NoPid
        BY <1>7, <3>1, <3>2, <4>1 DEF NoPid, Pids
      <4> QED
        BY <1>3, <1>5, <1>6, <3>2, <4>2 DEF Exists
    <3>3. CASE c # pid
      <4>1. c \in procs[p].children
        BY <1>7, <3>1, <3>3
      <4> QED
        BY <1>7, <3>3, <4>1 DEF SchedulerInv, FamilyConsistent, Forest, Exists
    <3> QED
      BY <3>2, <3>3, Zenon
  <2>2. \A c \in Pids : Exists(procs', c) /\ Exists(procs', procs'[c].parent) =>
          c \in procs'[procs'[c].parent].children
    <3> SUFFICES ASSUME NEW c \in Pids, Exists(procs', c),
                        Exists(procs', procs'[c].parent)
                 PROVE  c \in procs'[procs'[c].parent].children
      BY Zenon
    <3>1. CASE c = pid
      BY <1>3, <1>5, <1>6, <1>7, <3>1 DEF Exists, NoPid, Pids
    <3>2. CASE c # pid
      <4>1. Exists(procs, c) /\ procs'[c].parent = procs[c].parent
        BY <1>7, <3>2, Zenon DEF Exists
      <4>2. procs[c].parent \in Pids /\ procs[c].parent # pid
        <5>1. procs[c].parent < c /\ c < pid
          BY <4>1, FreeSlotFields, SMTT(30)
          DEF SchedulerInv, TypeOK, NumberedInOrder, Numbered, Exists, Pids
        <5> QED
          BY <1>3, <4>1, <5>1, SMTT(30) DEF Exists, Pids
      <4>3. c \in procs[procs[c].parent].children
        BY <1>7, <4>1, <4>2, SMTT(60) DEF SchedulerInv, FamilyConsistent, Forest, Exists
      <4> QED
        BY <1>7, <4>1, <4>2, <4>3
    <3> QED
      BY <3>1, <3>2, Zenon
  <2>3. \A c \in Pids : procs'[c].orphaned =>
          procs'[c].parent = NoPid /\ procs'[c].state = "Running"
    BY <1>5, <1>6, <1>7, <1>8, SMTT(30) DEF SchedulerInv, FamilyConsistent, Forest
  <2> QED
    BY <2>1, <2>2, <2>3, Zenon DEF FamilyConsistent, Forest
<1>15. NumberedInOrder'
  <2>1. \A t \in TaskIds : t >= ntasks + 1 <=> tasks'[t].state = "Absent"
    BY <1>2, <1>4, SMTT(30) DEF SchedulerInv, NumberedInOrder, Numbered, AddedTask, TaskIds
  <2>2. \A t \in TaskIds : tasks'[t].pid < pid + 1
    BY <1>2, <1>3, <1>4
    DEF SchedulerInv, TypeOK, NumberedInOrder, Numbered, AddedTask, NoPid, Pids, Task
  <2>3. \A p \in Pids : p >= pid + 1 => procs'[p] = FreeSlot
    <3> SUFFICES ASSUME NEW p \in Pids, p >= pid + 1 PROVE procs'[p] = FreeSlot
      BY Zenon
    <3>1. p # pid /\ p # parent /\ p >= pid
      BY <1>3 DEF NoPid, Pids
    <3> QED
      BY <1>6, <3>1, Zenon DEF SchedulerInv, NumberedInOrder, Numbered
  <2>4. \A p \in Pids : procs'[p].state # "Free" => procs'[p].parent < p
    BY <1>3, <1>5, <1>6, <1>7
    DEF SchedulerInv, NumberedInOrder, Numbered, NoPid, Pids
  <2>5. \A p \in Pids : procs'[p].state = "Free" => procs'[p].children = {}
    BY <1>3, <1>5, <1>6, <1>7
    DEF SchedulerInv, NumberedInOrder, Numbered, Exists, NoPid, Pids
  <2> QED
    BY <1>1, <1>4, <2>1, <2>2, <2>3, <2>4, <2>5, Zenon DEF NumberedInOrder, Numbered
<1> QED
  BY <1>9, <1>10, <1>12, <1>13, <1>14, <1>15, Zenon DEF SchedulerInv

\* brk: no blocked task belongs to the calling process, so no pending status
\* pointer is affected by what brk maps or unmaps.
LEMMA SysBrkKeepsInv ==
  ASSUME SchedulerInv, NEW writable \in SUBSET Ptrs, SysBrk(writable)
  PROVE  SchedulerInv'
<1> DEFINE pid == tasks[current].pid
<1>1. /\ CurrentRuns
      /\ Exists(procs, pid)
      /\ procs' = [procs EXCEPT ![pid].writable = writable]
      /\ tasks' = SetRax(tasks, current, 0)
      /\ UNCHANGED <<ntasks, nextPid, current, preemption, cached, cr3, rsp0,
                     mainIrq, panicked>>
  BY Zenon DEF SysBrk
<1>2. /\ current \in TaskIds
      /\ tasks[current].state = "Running"
      /\ tasks \in [TaskIds -> Task]
      /\ procs \in [Pids -> Process]
      /\ pid \in Pids
      /\ procs[pid].state = "Running"
      /\ procs[pid].main = current
  BY <1>1, CurrentFacts, SMTT(60) DEF SchedulerInv, TypeOK, Exists, Pids, NoPid
<1>3. SameTasks(tasks', tasks)
  BY <1>1, <1>2, SetRaxEffect
<1> DEFINE p2 == procs'
<1>4. /\ p2 \in [Pids -> Process]
      /\ \A p \in Pids : p # pid => p2[p] = procs[p]
      /\ p2[pid].state = "Running"
      /\ p2[pid].main = current
      /\ p2[pid].parent = procs[pid].parent
      /\ p2[pid].children = procs[pid].children
  BY <1>1, <1>2 DEF Process
<1>5. p2[pid].orphaned = procs[pid].orphaned
  BY <1>1, <1>2 DEF Process
<1>6. \A p \in Pids : /\ p2[p].state = procs[p].state
                      /\ p2[p].main = procs[p].main
                      /\ p2[p].parent = procs[p].parent
                      /\ p2[p].children = procs[p].children
  BY <1>2, <1>4, Zenon
<1>7. \A p \in Pids : p2[p].orphaned = procs[p].orphaned
  BY <1>4, <1>5, Zenon
<1> HIDE DEF p2, pid
<1>8. TypeOK'
  BY <1>1, <1>3, <1>4 DEF SchedulerInv, TypeOK, SameTasks, p2
<1>9. RunningIsCurrent' /\ NoTaskStranded' /\ NoKernelPanic' /\ AddressSpaceCoherent'
  BY <1>1, <1>2, <1>3
  DEF SchedulerInv, TypeOK, RunningIsCurrent, NoTaskStranded, NoKernelPanic,
      AddressSpaceCoherent, SameTasks
<1>10. TasksAndProcessesAgree'
  <2>1. TablesAgree(tasks', p2)
    BY <1>2, <1>3, <1>6, SMTT(30)
    DEF SchedulerInv, TasksAndProcessesAgree, TablesAgree, SameTasks, Task, NoPid
  <2> QED
    BY <2>1, Zenon DEF TasksAndProcessesAgree, p2
<1>11. WaiterWillBeServed'
  <2> SUFFICES ASSUME NEW t \in TaskIds, tasks'[t].state = "Blocked"
               PROVE  /\ IsChild(p2, tasks'[t].pid, tasks'[t].child)
                      /\ p2[tasks'[t].child].state = "Running"
                      /\ WaitersFor(tasks', tasks'[t].child) = {t}
                      /\ tasks'[t].ptr # NoPtr =>
                           StatusTargetOk(p2, tasks'[t].pid, tasks'[t].ptr)
    BY Zenon DEF WaiterWillBeServed, Served, p2
  <2>1. /\ tasks[t].state = "Blocked"
        /\ tasks'[t].pid = tasks[t].pid
        /\ tasks'[t].child = tasks[t].child
        /\ tasks'[t].ptr = tasks[t].ptr
    BY <1>3, Zenon DEF SameTasks
  <2>2. /\ IsChild(procs, tasks[t].pid, tasks[t].child)
        /\ procs[tasks[t].child].state = "Running"
        /\ WaitersFor(tasks, tasks[t].child) = {t}
        /\ tasks[t].ptr # NoPtr => StatusTargetOk(procs, tasks[t].pid, tasks[t].ptr)
    BY <2>1, Zenon DEF SchedulerInv, WaiterWillBeServed, Served
  <2>3. WaitersFor(tasks', tasks[t].child) = WaitersFor(tasks, tasks[t].child)
    BY <1>3, Zenon DEF WaitersFor, SameTasks
  <2>4. tasks[t].pid \in Pids /\ tasks[t].child \in Pids
    BY <1>2, <2>2, Zenon DEF IsChild, Exists, Process
  <2>5. tasks[t].pid # pid
    BY <1>2, <2>1, <2>4
    DEF SchedulerInv, TasksAndProcessesAgree, TablesAgree, Live, NoPid, Pids
  <2> QED
    BY <1>4, <1>6, <2>1, <2>2, <2>3, <2>4, <2>5, SMTT(30) DEF IsChild, Exists, StatusTargetOk
<1>12. FamilyConsistent'
  <2>1. Forest(p2)
    BY <1>6, <1>7, SMTT(60) DEF SchedulerInv, FamilyConsistent, Forest, Exists
  <2> QED
    BY <2>1, Zenon DEF FamilyConsistent, p2
<1>13. NumberedInOrder'
  <2>1. \A t \in TaskIds : /\ t >= ntasks <=> tasks'[t].state = "Absent"
                           /\ tasks'[t].pid < nextPid
    BY <1>3 DEF SchedulerInv, NumberedInOrder, Numbered, SameTasks
  <2>2. \A p \in Pids : /\ p >= nextPid => p2[p] = FreeSlot
                        /\ p2[p].state # "Free" => p2[p].parent < p
                        /\ p2[p].state = "Free" => p2[p].children = {}
    BY <1>2, <1>4, <1>6, FreeSlotFields DEF SchedulerInv, NumberedInOrder, Numbered
  <2> QED
    BY <1>1, <2>1, <2>2, Zenon DEF NumberedInOrder, Numbered, p2
<1> QED
  BY <1>8, <1>9, <1>10, <1>11, <1>12, <1>13, Zenon DEF SchedulerInv

\* A system call that only returns a number.
LEMMA ReturnsKeepsInv ==
  ASSUME SchedulerInv, CurrentRuns, NEW value \in Int,
         tasks' = SetRax(tasks, current, value),
         UNCHANGED <<ntasks, procs, nextPid, current, preemption, cached, cr3,
                     rsp0, mainIrq, panicked>>
  PROVE  SchedulerInv'
<1>1. current \in TaskIds /\ tasks \in [TaskIds -> Task]
  BY CurrentFacts, Zenon DEF SchedulerInv, TypeOK
<1>2. SameTasks(tasks', tasks)
  BY <1>1, SetRaxEffect, Zenon
<1>3. preemption' \in BOOLEAN /\ mainIrq' \in BOOLEAN
  BY Zenon DEF SchedulerInv, TypeOK
<1> QED
  BY <1>2, <1>3, QuietStepKeepsInv, Zenon

\* set_task_initial_arg
LEMMA SetTaskInitialArgKeepsInv ==
  ASSUME SchedulerInv, NEW t \in TaskIds, SetTaskInitialArg(t)
  PROVE  SchedulerInv'
<1> DEFINE f == [tasks EXCEPT ![t].initialArg = TRUE]
<1>1. tasks \in [TaskIds -> Task]
  BY Zenon DEF SchedulerInv, TypeOK
<1>2. f \in [TaskIds -> Task]
  <2>1. \A q \in Task : [q EXCEPT !.initialArg = TRUE] \in Task
    BY Zenon DEF Task
  <2> QED
    BY <1>1, <2>1, Zenon
<1>3. SameTasks(f, tasks)
  BY <1>1, <1>2 DEF SameTasks, Task
<1>4. /\ tasks' = f
      /\ UNCHANGED <<ntasks, procs, nextPid, current, preemption, cached, cr3,
                     rsp0, mainIrq, panicked>>
  BY Zenon DEF SetTaskInitialArg
<1>5. preemption' \in BOOLEAN /\ mainIrq' \in BOOLEAN
  BY <1>4, Zenon DEF SchedulerInv, TypeOK
<1> HIDE DEF f
<1> QED
  BY <1>3, <1>4, <1>5, QuietStepKeepsInv, Zenon

\* enable_preemption, disable_preemption and enable_interrupts.
LEMMA FlagsKeepInv ==
  ASSUME SchedulerInv,
         EnableInterrupts \/ \E enabled \in BOOLEAN : SetPreemption(enabled)
  PROVE  SchedulerInv'
<1>1. SameTasks(tasks, tasks)
  BY Zenon DEF SchedulerInv, TypeOK, SameTasks
<1> DEFINE flags == /\ UNCHANGED <<tasks, ntasks, procs, nextPid, current, cached,
                                   cr3, rsp0, panicked>>
                    /\ preemption' \in BOOLEAN
                    /\ mainIrq' \in BOOLEAN
<1>2. flags
  <2>1. preemption \in BOOLEAN /\ mainIrq \in BOOLEAN
    BY Zenon DEF SchedulerInv, TypeOK
  <2>2. CASE EnableInterrupts
    BY <2>1, <2>2, Zenon DEF EnableInterrupts
  <2>3. ASSUME NEW enabled \in BOOLEAN, SetPreemption(enabled)
        PROVE  flags
    BY <2>1, <2>3, Zenon DEF SetPreemption
  <2> QED
    BY <2>2, <2>3, Zenon
<1> QED
  BY <1>1, <1>2, QuietStepKeepsInv, Zenon

\* finish_current_task
LEMMA FinishCurrentTaskKeepsInv ==
  ASSUME SchedulerInv, FinishCurrentTask
  PROVE  Good'
<1> DEFINE ts == [tasks EXCEPT ![current].state = "Finished"]
<1>1. /\ CurrentRuns
      /\ tasks[current].pid = NoPid
      /\ RunNextOrMain(ts, procs)
  BY Zenon DEF FinishCurrentTask
<1>2. current \in TaskIds /\ current # NoTask /\ tasks \in [TaskIds -> Task]
  BY <1>1, CurrentFacts, Zenon DEF SchedulerInv, TypeOK
<1>3. Ended(ts)
  BY <1>2 DEF Ended, Task, TaskStates, Terminal
<1> HIDE DEF ts
<1>4. Suspended(ts, procs)
  BY <1>1, <1>3, KernelTaskEnds, Zenon
<1> QED
  BY <1>1, <1>2, <1>4, DispatchKeepsInv, Zenon

\* The invariant holds before the first task is spawned.
LEMMA InitKeepsInv == Init => SchedulerInv
<1> SUFFICES ASSUME Init PROVE SchedulerInv
  BY Zenon
<1>1. AbsentTask \in Task /\ AbsentTask.state = "Absent" /\ AbsentTask.pid = NoPid
  <2>1. NoExit \in Exits
    BY DEF NoExit, Exits
  <2>2. AbsentTask \in Task
    BY <2>1 DEF AbsentTask, Task, TaskStates
  <2> QED
    BY <2>2, Zenon DEF AbsentTask
<1>2. FreeSlot \in Process
  BY FreeSlotFields, Zenon
<1>3. \A t \in TaskIds : tasks[t].state = "Absent" /\ tasks[t].pid = NoPid
  BY <1>1, Zenon DEF Init
<1>4. \A p \in Pids : procs[p] = FreeSlot
  BY Zenon DEF Init
<1>5. TypeOK
  <2>1. tasks \in [TaskIds -> Task] /\ procs \in [Pids -> Process]
    BY <1>1, <1>2, Zenon DEF Init
  <2>2. preemption \in BOOLEAN /\ mainIrq \in BOOLEAN /\ panicked \in BOOLEAN
    BY Zenon DEF Init
  <2>3. /\ ntasks \in 0 .. MaxTasks
        /\ nextPid \in 1 .. MaxProcesses + 1
        /\ current \in TaskIds \cup {NoTask}
        /\ cached \in Pids \cup {KernelRoot, NoRoot}
        /\ cr3 \in Pids \cup {KernelRoot}
        /\ rsp0 \in TaskIds \cup {NoTask}
    BY MaxTasksAssumption, MaxProcessesAssumption, SMTT(30) DEF Init
  <2> QED
    BY <2>1, <2>2, <2>3, Zenon DEF TypeOK
<1>6. /\ NoKernelPanic /\ RunningIsCurrent /\ NoTaskStranded /\ AddressSpaceCoherent
      /\ TasksAndProcessesAgree /\ WaiterWillBeServed
  BY <1>3, <1>4, FreeSlotFields, SMTT(30)
  DEF Init, NoKernelPanic, RunningIsCurrent, NoTaskStranded, AddressSpaceCoherent,
      TasksAndProcessesAgree, TablesAgree, WaiterWillBeServed, Served, Live,
      TaskIds, NoTask
<1>7. FamilyConsistent
  BY <1>4, FreeSlotFields, Zenon DEF FamilyConsistent, Forest, Exists
<1>8. NumberedInOrder
  BY <1>3, <1>4, FreeSlotFields
  DEF Init, NumberedInOrder, Numbered, TaskIds, NoPid
<1> QED
  BY <1>5, <1>6, <1>7, <1>8, Zenon DEF SchedulerInv

\* What one step guarantees: the invariant, and that run() returns to the main
\* context only when no task is left.
StepKeepsInv ==
  /\ SchedulerInv'
  /\ current # NoTask /\ current' = NoTask =>
       \A t \in TaskIds : tasks'[t].state \in Terminal \cup {"Absent"}

\* Every action keeps the invariant.
LEMMA NextKeepsInv == SchedulerInv /\ [Next]_vars => StepKeepsInv
<1> SUFFICES ASSUME SchedulerInv, [Next]_vars PROVE StepKeepsInv
  BY Zenon
<1>1. Good' => StepKeepsInv
  BY Zenon DEF Good, StepKeepsInv
<1>2. SchedulerInv' /\ current' # NoTask => StepKeepsInv
  BY Zenon DEF StepKeepsInv
<1>3. SchedulerInv' /\ UNCHANGED current => StepKeepsInv
  BY Zenon DEF StepKeepsInv
<1>4. CASE Spawn
  BY <1>3, <1>4, SpawnKeepsInv, Zenon DEF Spawn
<1>5. ASSUME NEW parent \in Pids \cup {NoPid}, SpawnUserProcess(parent)
      PROVE  StepKeepsInv
  BY <1>3, <1>5, SpawnUserProcessKeepsInv, Zenon DEF SpawnUserProcess
<1>6. CASE Run
  BY <1>2, <1>6, RunKeepsInv, Zenon
<1>7. CASE TimerInterrupt
  BY <1>2, <1>7, SwitchKeepsInv, Zenon DEF TimerInterrupt
<1>8. CASE Yield
  BY <1>2, <1>8, SwitchKeepsInv, Zenon DEF Yield
<1>9. CASE WaitPidFails
  <2>1. PICK error \in Int : tasks' = SetRax(tasks, current, -error)
    BY <1>9, WaitPidErrors, Zenon
  <2>2. -error \in Int
    OBVIOUS
  <2>3. /\ CurrentRuns
        /\ UNCHANGED <<ntasks, procs, nextPid, current, preemption, cached, cr3,
                       rsp0, mainIrq, panicked>>
    BY <1>9 DEF WaitPidFails
  <2> QED
    BY <1>3, <2>1, <2>2, <2>3, ReturnsKeepsInv, Zenon
<1>10. ASSUME NEW child \in Pids \cup {NoPid}, NEW ptr \in Ptrs \cup {NoPtr},
              NEW options \in 0 .. WNOHANG + 1, WaitPidCollects(child, ptr, options)
       PROVE  StepKeepsInv
  BY <1>2, <1>10, WaitPidCollectsKeepsInv, Zenon
<1>11. ASSUME NEW child \in Pids \cup {NoPid}, NEW ptr \in Ptrs \cup {NoPtr},
              WaitPidNoHang(child, ptr)
       PROVE  StepKeepsInv
  <2>1. /\ CurrentRuns
        /\ tasks' = SetRax(tasks, current, 0)
        /\ UNCHANGED <<ntasks, procs, nextPid, current, preemption, cached, cr3,
                       rsp0, mainIrq, panicked>>
    BY <1>11, Zenon DEF WaitPidNoHang
  <2>2. 0 \in Int
    OBVIOUS
  <2> QED
    BY <1>3, <2>1, <2>2, ReturnsKeepsInv, Zenon
<1>12. ASSUME NEW child \in Pids \cup {NoPid}, NEW ptr \in Ptrs \cup {NoPtr},
              WaitPidBlocks(child, ptr)
       PROVE  StepKeepsInv
  BY <1>1, <1>12, WaitPidBlocksKeepsInv, Zenon
<1>13. ASSUME NEW code \in ExitCodes, ExitCurrent(code)
       PROVE  StepKeepsInv
  <2>1. "Finished" \in Terminal /\ Exited(code) \in Exits
    BY ExitCodesAssumption DEF Exited, Exits, Terminal
  <2>2. CurrentRuns /\ FinishCurrent("Finished", Exited(code))
    BY <1>13, Zenon DEF ExitCurrent
  <2> QED
    BY <1>1, <2>1, <2>2, FinishKeepsInv, Zenon
<1>14. CASE FailCurrentWithFault
  <2>1. "Failed" \in Terminal /\ Faulted \in Exits
    BY DEF Faulted, Exits, Terminal
  <2>2. CurrentRuns /\ FinishCurrent("Failed", Faulted)
    BY <1>14, Zenon DEF FailCurrentWithFault
  <2> QED
    BY <1>1, <2>1, <2>2, FinishKeepsInv, Zenon
<1>15. CASE FinishCurrentTask
  BY <1>1, <1>15, FinishCurrentTaskKeepsInv, Zenon
<1>16. ASSUME NEW writable \in SUBSET Ptrs, SysBrk(writable)
       PROVE  StepKeepsInv
  <2>1. UNCHANGED current
    BY <1>16, Zenon DEF SysBrk
  <2> QED
    BY <1>3, <1>16, <2>1, SysBrkKeepsInv, Zenon
<1>17. ASSUME NEW t \in TaskIds, SetTaskInitialArg(t)
       PROVE  StepKeepsInv
  <2>1. UNCHANGED current
    BY <1>17, Zenon DEF SetTaskInitialArg
  <2> QED
    BY <1>3, <1>17, <2>1, SetTaskInitialArgKeepsInv, Zenon
<1>18. ASSUME NEW enabled \in BOOLEAN, SetPreemption(enabled)
       PROVE  StepKeepsInv
  BY <1>3, <1>18, FlagsKeepInv, Zenon DEF SetPreemption
<1>19. CASE EnableInterrupts
  BY <1>3, <1>19, FlagsKeepInv DEF EnableInterrupts
<1>20. CASE UNCHANGED vars
  <2>1. SameTasks(tasks', tasks) /\ preemption' \in BOOLEAN /\ mainIrq' \in BOOLEAN
    BY <1>20, Zenon DEF SchedulerInv, TypeOK, SameTasks, vars
  <2> QED
    BY <1>3, <1>20, <2>1, QuietStepKeepsInv, Zenon DEF vars
<1> QED
  BY <1>4, <1>5, <1>6, <1>7, <1>8, <1>9, <1>10, <1>11, <1>12, <1>13, <1>14, <1>15,
     <1>16, <1>17, <1>18, <1>19, <1>20, Zenon DEF Next

-----------------------------------------------------------------------------
\* SchedulerInv is an invariant for every number of tasks and processes, every
\* set of exit codes and status pointers and every width of an exit code.
THEOREM SchedulerSafe == Spec => []SchedulerInv
<1>1. Init => SchedulerInv
  BY InitKeepsInv, Zenon
<1>2. SchedulerInv /\ [Next]_vars => SchedulerInv'
  BY NextKeepsInv, Zenon DEF StepKeepsInv
<1> QED
  BY <1>1, <1>2, PTL DEF Spec

\* Every variable of the scheduler keeps its type.
THEOREM TypeCorrect == Spec => []TypeOK
<1>1. SchedulerInv => TypeOK
  BY Zenon DEF SchedulerInv
<1> QED
  BY <1>1, SchedulerSafe, PTL

\* No expect() on the dispatch, exit and creation paths fires: whatever the order
\* of exits, faults, waits and switches, a task that is resumed has its process.
THEOREM KernelNeverPanics == Spec => []NoKernelPanic
<1>1. SchedulerInv => NoKernelPanic
  BY DEF SchedulerInv
<1> QED
  BY <1>1, SchedulerSafe, PTL

\* A task blocked in waitpid has a running child that no other task waits for and
\* a status pointer that is still writable.
THEOREM WaitersAreServed == Spec => []WaiterWillBeServed
<1>1. SchedulerInv => WaiterWillBeServed
  BY Zenon DEF SchedulerInv
<1> QED
  BY <1>1, SchedulerSafe, PTL

\* waitpid never deadlocks the machine: the main context does not regain the CPU
\* while a task is blocked.
THEOREM NobodyIsStranded == Spec => []NoTaskStranded
<1>1. SchedulerInv => NoTaskStranded
  BY Zenon DEF SchedulerInv
<1> QED
  BY <1>1, SchedulerSafe, PTL

\* The task table and the process table agree after every exit, fault, reaping
\* and orphaning.
THEOREM TablesStayConsistent == Spec => []TasksAndProcessesAgree
<1>1. SchedulerInv => TasksAndProcessesAgree
  BY Zenon DEF SchedulerInv
<1> QED
  BY <1>1, SchedulerSafe, PTL

\* Children lists and parent links always describe one forest, through exits,
\* reaping and orphaning, and an orphan never lingers as a zombie.
THEOREM FamiliesStayConsistent == Spec => []FamilyConsistent
<1>1. SchedulerInv => FamilyConsistent
  BY Zenon DEF SchedulerInv
<1> QED
  BY <1>1, SchedulerSafe, PTL

\* Whatever switch brought it there, the running task has its own page tables and
\* its own kernel stack loaded, although equal roots are never reloaded.
THEOREM RightAddressSpace == Spec => []AddressSpaceCoherent
<1>1. SchedulerInv => AddressSpaceCoherent
  BY Zenon DEF SchedulerInv
<1> QED
  BY <1>1, SchedulerSafe, PTL

\* run() returns only when every task has ended.
THEOREM RunReturnsWhenAllEnded == Spec => MainResumesWhenAllEnded
<1> DEFINE resumes == current # NoTask /\ current' = NoTask =>
                        \A t \in TaskIds : tasks'[t].state \in Terminal \cup {"Absent"}
<1>1. SchedulerInv /\ [Next]_vars => [resumes]_vars
  BY NextKeepsInv, Zenon DEF StepKeepsInv
<1> QED
  BY <1>1, SchedulerSafe, PTL DEF Spec, MainResumesWhenAllEnded

-----------------------------------------------------------------------------
(***************************************************************************)
(* What a step may never do: lose an exit status, wake a waiter without    *)
(* its result, or bring back a pid, a zombie or a task that has ended.     *)
(* Most steps touch neither a blocked nor an ended task and no entry of    *)
(* the process table; the three that do have a lemma each.                 *)
(***************************************************************************)
\* The bodies of the three action properties.
Wakes ==
  \A t \in TaskIds :
    LET child == tasks[t].child
        ended == tasks'[procs[child].main].exit
    IN  tasks[t].state = "Blocked" /\ tasks'[t].state # "Blocked" =>
          /\ tasks'[t].rax = child
          /\ ~Exists(procs', child)
          /\ tasks[t].ptr # NoPtr =>
               procs'[tasks[t].pid].status = WaitStatus(ProcessExit(ended))

Collects(c) ==
  \E t \in TaskIds : /\ tasks[t].pid = procs[c].parent
                     /\ tasks[t].state \in {"Running", "Blocked"}
                     /\ tasks'[t].rax = c

ParentEnds(c) ==
  \E t \in TaskIds : /\ tasks[t].pid = procs[c].parent
                     /\ tasks[t].state = "Running"
                     /\ tasks'[t].state \in Terminal

OrphanEnds(c) == procs[c].orphaned /\ tasks'[procs[c].main].state \in Terminal

Frees ==
  \A c \in Pids : Exists(procs, c) /\ ~Exists(procs', c) =>
                    \/ Collects(c)
                    \/ ParentEnds(c)
                    \/ OrphanEnds(c)

NewEntries ==
  \A p \in Pids : \/ Exists(procs, p)
                  \/ ~Exists(procs', p)
                  \/ p = nextPid /\ nextPid' = p + 1

ZombiesStay == \A p \in Pids : procs[p].state = "Zombie" => procs'[p].state # "Running"

EndedStay ==
  \A t \in TaskIds : tasks[t].state \in Terminal =>
                       /\ tasks'[t].state = tasks[t].state
                       /\ tasks'[t].exit = tasks[t].exit

Guarantee == Wakes /\ Frees /\ NewEntries /\ ZombiesStay /\ EndedStay

\* The tasks that wait or have ended are in us what they are in tasks.
Resting(us) ==
  \A t \in TaskIds : tasks[t].state \in Terminal \cup {"Blocked"} => us[t] = tasks[t]

\* A step that leaves them alone wakes nobody and brings nobody back.
LEMMA RestingStep ==
  ASSUME Resting(tasks') PROVE Wakes /\ EndedStay
<1>1. Wakes
  BY Zenon DEF Resting, Wakes
<1>2. EndedStay
  BY Zenon DEF Resting, EndedStay
<1> QED
  BY <1>1, <1>2, Zenon

\* A step that also keeps the state of every process.
LEMMA QuietStep ==
  ASSUME Resting(tasks'), \A p \in Pids : procs'[p].state = procs[p].state
  PROVE  Guarantee
<1>1. Wakes /\ EndedStay
  BY RestingStep, Zenon
<1>2. Frees /\ NewEntries /\ ZombiesStay
  BY Zenon DEF Frees, NewEntries, ZombiesStay, Exists
<1> QED
  BY <1>1, <1>2, Zenon DEF Guarantee

\* A step that keeps the process table and changes no task but the running one.
LEMMA RunningStep ==
  ASSUME SchedulerInv, CurrentRuns, UNCHANGED procs,
         \A t \in TaskIds : t # current => tasks'[t] = tasks[t]
  PROVE  Guarantee
<1>1. Resting(tasks')
  BY CurrentFacts, Zenon DEF Resting, Terminal
<1> QED
  BY <1>1, QuietStep, Zenon

\* The task that RunNextOrMain dispatches was Ready, and only its state changes.
LEMMA DispatchEffect ==
  ASSUME SchedulerInv, CurrentRuns, NEW ts \in [TaskIds -> Task], NEW ps,
         \A t \in TaskIds : t >= ntasks => ts[t].state # "Ready",
         RunNextOrMain(ts, ps)
  PROVE  /\ procs' = ps
         /\ UNCHANGED nextPid
         /\ \A t \in TaskIds : ts[t].state # "Ready" => tasks'[t] = ts[t]
         /\ \A t \in TaskIds : tasks'[t].rax = ts[t].rax
<1> DEFINE next == NextReadyAfter(ts, current)
<1>1. /\ ntasks \in Nat
      /\ ntasks <= MaxTasks
      /\ current \in 0 .. ntasks - 1
  BY CurrentFacts, MaxTasksAssumption
  DEF SchedulerInv, TypeOK, NumberedInOrder, Numbered, TaskIds
<1>2. next # NoTask => next \in TaskIds /\ ts[next].state = "Ready"
  BY <1>1, NextReadyFound, Zenon
<1>3. /\ procs' = ps
      /\ UNCHANGED nextPid
      /\ tasks' = IF next # NoTask THEN [ts EXCEPT ![next].state = "Running"] ELSE ts
  BY Zenon DEF RunNextOrMain
<1> HIDE DEF next
<1> QED
  BY <1>2, <1>3, Zenon DEF Task

\* A dispatch from a task table that differs from tasks in the running task only.
LEMMA DispatchStep ==
  ASSUME SchedulerInv, CurrentRuns, NEW ts \in [TaskIds -> Task],
         ts[current].state # "Ready",
         \A t \in TaskIds : t # current => ts[t] = tasks[t],
         RunNextOrMain(ts, procs)
  PROVE  Guarantee
<1>1. current \in TaskIds /\ tasks[current].state = "Running"
  BY CurrentFacts, Zenon
<1>2. \A t \in TaskIds : t >= ntasks => ts[t].state # "Ready"
  BY <1>1, Zenon DEF SchedulerInv, NumberedInOrder, Numbered
<1>3. /\ procs' = procs
      /\ \A t \in TaskIds : ts[t].state # "Ready" => tasks'[t] = ts[t]
  BY <1>2, DispatchEffect, Zenon
<1>4. Resting(tasks')
  BY <1>1, <1>3, Zenon DEF Resting, Terminal
<1> QED
  BY <1>3, <1>4, QuietStep, Zenon

\* The timer interrupt and yield: the current task and the next one trade states.
LEMMA SwitchStep ==
  ASSUME SchedulerInv, CurrentRuns, SwitchFromInterrupt
  PROVE  Guarantee
<1> DEFINE saved == SaveFrame(tasks, current)
           next == NextReadyAfter(tasks, current)
<1>1. /\ current \in TaskIds
      /\ current # NoTask
      /\ tasks[current].state = "Running"
      /\ tasks \in [TaskIds -> Task]
  BY CurrentFacts DEF SchedulerInv, TypeOK
<1>2. SameTasks(saved, tasks) /\ \A t \in TaskIds : t # current => saved[t] = tasks[t]
  BY <1>1, SaveFrameEffect, Zenon
<1>3. next # NoTask => next \in TaskIds /\ tasks[next].state = "Ready"
  <2>1. /\ ntasks \in Nat
        /\ ntasks <= MaxTasks
        /\ current \in 0 .. ntasks - 1
    BY <1>1, MaxTasksAssumption
    DEF SchedulerInv, TypeOK, NumberedInOrder, Numbered, TaskIds
  <2>2. \A t \in TaskIds : t >= ntasks => tasks[t].state # "Ready"
    BY Zenon DEF SchedulerInv, NumberedInOrder, Numbered
  <2> QED
    BY <2>1, <2>2, NextReadyFound, Zenon
<1>4. /\ UNCHANGED procs
      /\ tasks' = IF next = NoTask THEN saved
                  ELSE [saved EXCEPT ![current].state = "Ready",
                                     ![next].state = "Running"]
  BY Zenon DEF SwitchFromInterrupt
<1> HIDE DEF saved, next
<1>5. \A t \in TaskIds : t # current /\ t # next => tasks'[t] = tasks[t]
  BY <1>1, <1>2, <1>3, <1>4, Zenon DEF SameTasks
<1>6. Resting(tasks')
  <2> SUFFICES ASSUME NEW t \in TaskIds, tasks[t].state \in Terminal \cup {"Blocked"}
               PROVE  tasks'[t] = tasks[t]
    BY Zenon DEF Resting
  <2>1. t # current /\ t # next
    BY <1>1, <1>3 DEF Terminal, NoTask, TaskIds
  <2> QED
    BY <1>5, <2>1, Zenon
<1> QED
  BY <1>4, <1>6, QuietStep, Zenon

\* run() dispatches a Ready task from the main context.
LEMMA RunStep ==
  ASSUME SchedulerInv, Run PROVE Guarantee
<1> DEFINE next == FirstReady(tasks)
<1>1. next \in TaskIds /\ tasks[next].state = "Ready"
  <2>1. ReadyTasks(tasks) \in SUBSET Nat /\ ReadyTasks(tasks) # {}
    BY DEF Run, ReadyTasks, TaskIds
  <2>2. next \in ReadyTasks(tasks)
    BY <2>1, MinIsLeast, Zenon DEF FirstReady
  <2> QED
    BY <2>2, Zenon DEF ReadyTasks
<1>2. tasks' = [tasks EXCEPT ![next].state = "Running"] /\ UNCHANGED procs
  BY Zenon DEF Run
<1> HIDE DEF next
<1>3. Resting(tasks')
  BY <1>1, <1>2, Zenon DEF Resting, Terminal, SchedulerInv, TypeOK
<1> QED
  BY <1>2, <1>3, QuietStep, Zenon

\* A new task takes a slot that was never used.
LEMMA AddTaskRests ==
  ASSUME SchedulerInv, ntasks < MaxTasks, NEW pid \in Pids \cup {NoPid}, AddTask(pid)
  PROVE  Resting(tasks')
BY AddTaskEffect, NewTaskSlot, Zenon DEF AddedTask, Resting, Terminal

\* A new process takes the pid nextPid, which no process had before.
LEMMA SpawnUserProcessStep ==
  ASSUME SchedulerInv, NEW parent \in Pids \cup {NoPid}, SpawnUserProcess(parent)
  PROVE  Guarantee
<1>1. /\ ntasks < MaxTasks
      /\ nextPid <= MaxProcesses
      /\ AddTask(nextPid)
      /\ procs' = Create(procs, parent, nextPid, ntasks)
      /\ nextPid' = nextPid + 1
  BY Zenon DEF SpawnUserProcess, CanCreate
<1>2. nextPid \in Pids /\ procs \in [Pids -> Process] /\ procs[nextPid] = FreeSlot
  BY <1>1, MaxProcessesAssumption
  DEF SchedulerInv, TypeOK, NumberedInOrder, Numbered, Pids
<1>3. \A p \in Pids : p # nextPid => procs'[p].state = procs[p].state
  BY <1>1, <1>2 DEF Create, Process
<1>4. procs'[nextPid].state = "Running"
  BY <1>1, <1>2, Zenon DEF Create, NewProcess
<1>5. Wakes /\ EndedStay
  BY <1>1, <1>2, AddTaskRests, RestingStep, Zenon
<1>6. Frees /\ NewEntries /\ ZombiesStay
  BY <1>1, <1>2, <1>3, <1>4, FreeSlotFields, Zenon DEF Frees, NewEntries, ZombiesStay, Exists
<1> QED
  BY <1>5, <1>6, Zenon DEF Guarantee

\* brk changes the running task and what its process may write.
LEMMA SysBrkStep ==
  ASSUME SchedulerInv, NEW writable \in SUBSET Ptrs, SysBrk(writable)
  PROVE  Guarantee
<1> DEFINE pid == tasks[current].pid
<1>1. /\ CurrentRuns
      /\ procs' = [procs EXCEPT ![pid].writable = writable]
      /\ tasks' = SetRax(tasks, current, 0)
  BY Zenon DEF SysBrk
<1>2. /\ current \in TaskIds
      /\ tasks[current].state = "Running"
      /\ tasks \in [TaskIds -> Task]
      /\ procs \in [Pids -> Process]
  BY <1>1, CurrentFacts, Zenon DEF SchedulerInv, TypeOK
<1>3. Resting(tasks')
  BY <1>1, <1>2, SetRaxEffect DEF Resting, Terminal
<1>4. \A p \in Pids : procs'[p].state = procs[p].state
  BY <1>1, <1>2 DEF Process
<1> QED
  BY <1>3, <1>4, QuietStep, Zenon

\* waitpid for a child that has exited: the parent collects it.
LEMMA WaitPidCollectsStep ==
  ASSUME SchedulerInv, NEW child, NEW ptr, NEW options,
         WaitPidCollects(child, ptr, options)
  PROVE  Guarantee
<1> DEFINE pid == tasks[current].pid
<1>1. /\ CurrentRuns
      /\ WaitPidError(pid, child, ptr, options) = 0
      /\ UNCHANGED nextPid
  BY Zenon DEF WaitPidCollects
<1>2. current \in TaskIds /\ tasks[current].state = "Running"
  BY <1>1, CurrentFacts, Zenon
<1>3. pid \in Pids /\ child \in Pids /\ IsChild(procs, pid, child)
  BY <1>1, WaitPidChecks, Zenon
<1>4. /\ \A t \in TaskIds : t # current => tasks'[t] = tasks[t]
      /\ tasks'[current].rax = child
      /\ Collected(procs', procs, pid, child)
  BY CollectEffect
<1>5. procs[child].parent = pid
  BY <1>3, Zenon DEF SchedulerInv, FamilyConsistent, Forest, IsChild
<1>6. Resting(tasks')
  BY <1>2, <1>4, Zenon DEF Resting, Terminal
<1>7. ASSUME NEW p \in Pids, p # child
      PROVE  procs'[p].state = procs[p].state
  BY <1>4, <1>7, Zenon DEF Collected
<1>8. procs'[child].state = "Free"
  BY <1>4, FreeSlotFields, Zenon DEF Collected
<1>9. Collects(child)
  BY <1>2, <1>4, <1>5, Zenon DEF Collects
<1>10. Frees
  BY <1>7, <1>9 DEF Frees, Exists
<1>11. NewEntries /\ ZombiesStay
  BY <1>7, <1>8, Zenon DEF NewEntries, ZombiesStay, Exists
<1> QED
  BY <1>6, <1>10, <1>11, RestingStep, Zenon DEF Guarantee

\* procs' is the process table after the exit of pid, whose own entry is a zombie
\* or is collected.
Leaves(m, pid) ==
  /\ \A p \in Pids \ {pid} : procs'[p].state = m[p].state
  /\ procs'[pid].state \in {"Zombie", "Free"}
  /\ procs'[pid].state = "Free" => Collects(pid) \/ OrphanEnds(pid)

\* An exit frees, besides the entry of the process itself, only those of its
\* zombie children.
LEMMA ExitFrees ==
  ASSUME SchedulerInv, NEW pid \in Pids, Exiting(pid),
         NEW exit, NEW m, AfterExit(m, pid, exit), Leaves(m, pid),
         tasks'[current].state \in Terminal
  PROVE  Frees /\ NewEntries /\ ZombiesStay
<1>1. /\ current \in TaskIds
      /\ tasks[current].state = "Running"
      /\ pid = tasks[current].pid
      /\ procs[pid].state = "Running"
  BY CurrentFacts DEF Exiting, Pids, NoPid
<1>2. \A p \in Pids \ {pid} :
        /\ p \notin procs[pid].children => procs'[p].state = procs[p].state
        /\ p \in procs[pid].children /\ procs[p].state = "Zombie" =>
             procs'[p].state = "Free"
        /\ p \in procs[pid].children /\ procs[p].state # "Zombie" =>
             procs'[p].state = procs[p].state
  <2> SUFFICES ASSUME NEW p \in Pids \ {pid}
               PROVE  /\ p \notin procs[pid].children => m[p].state = procs[p].state
                      /\ p \in procs[pid].children /\ procs[p].state = "Zombie" =>
                           m[p].state = "Free"
                      /\ p \in procs[pid].children /\ procs[p].state # "Zombie" =>
                           m[p].state = procs[p].state
    BY DEF Leaves
  <2> QED
    BY FreeSlotFields, Zenon DEF AfterExit, IsOrphanOf, SameProcess
<1>3. \A p \in procs[pid].children : procs[p].parent = pid
  <2>1. procs[pid].children \subseteq Pids
    BY Zenon DEF SchedulerInv, TypeOK, Process
  <2> QED
    BY <2>1, Zenon DEF SchedulerInv, FamilyConsistent, Forest
<1>4. \A p \in procs[pid].children : ParentEnds(p)
  BY <1>1, <1>3, Zenon DEF ParentEnds
<1>5. Frees
  <2> SUFFICES ASSUME NEW c \in Pids, Exists(procs, c), ~Exists(procs', c)
               PROVE  Collects(c) \/ ParentEnds(c) \/ OrphanEnds(c)
    BY Zenon DEF Frees
  <2>1. CASE c = pid
    BY <2>1, Zenon DEF Leaves, Exists
  <2>2. CASE c # pid
    BY <1>2, <1>4, <2>2, Zenon DEF Exists
  <2> QED
    BY <2>1, <2>2, Zenon
<1>6. NewEntries /\ ZombiesStay
  BY <1>1, <1>2, Zenon DEF NewEntries, ZombiesStay, Exists, Leaves
<1> QED
  BY <1>5, <1>6, Zenon

\* A process exits that nobody waits for: it stays a zombie unless it is an orphan.
LEMMA UnwaitedExitStep ==
  ASSUME SchedulerInv, NEW pid \in Pids, Exiting(pid),
         NEW ended, Ended(ended), NEW exit, NEW m, AfterExit(m, pid, exit),
         RunNextOrMain(ended, ReapOrphanIfZombie(m, pid))
  PROVE  Guarantee
<1>1. /\ CurrentRuns
      /\ current \in TaskIds
      /\ tasks[current].state = "Running"
      /\ procs[pid].state = "Running"
      /\ procs[pid].main = current
  <2>1. CurrentRuns /\ pid = tasks[current].pid /\ tasks[current].pid # NoPid
    BY DEF Exiting, Pids, NoPid
  <2> QED
    BY <2>1, CurrentFacts, Zenon
<1>2. /\ ended \in [TaskIds -> Task]
      /\ ended[current].state \in Terminal
      /\ ended[current].state # "Ready"
      /\ \A t \in TaskIds : t # current => ended[t] = tasks[t]
  BY Zenon DEF Ended, Terminal
<1>3. \A t \in TaskIds : t >= ntasks => ended[t].state # "Ready"
  BY <1>1, <1>2, Zenon DEF SchedulerInv, NumberedInOrder, Numbered
<1>4. /\ procs' = ReapOrphanIfZombie(m, pid)
      /\ \A t \in TaskIds : ended[t].state # "Ready" => tasks'[t] = ended[t]
  BY <1>1, <1>2, <1>3, DispatchEffect
<1>5. Resting(tasks') /\ tasks'[current].state \in Terminal
  BY <1>1, <1>2, <1>4, Zenon DEF Resting, Terminal
<1>6. /\ m \in [Pids -> Process]
      /\ m[pid].state = "Zombie"
      /\ m[pid].orphaned = procs[pid].orphaned
  BY Zenon DEF AfterExit, IsZombieOf
<1>7. /\ \A p \in Pids \ {pid} : procs'[p].state = m[p].state
      /\ procs'[pid].state \in {"Zombie", "Free"}
      /\ procs'[pid].state = "Free" => m[pid].orphaned
  <2>1. CASE m[pid].orphaned
    BY <1>4, <1>6, <2>1, FreeSlotFields, Zenon DEF ReapOrphanIfZombie
  <2>2. CASE ~m[pid].orphaned
    BY <1>4, <1>6, <2>2, Zenon DEF ReapOrphanIfZombie
  <2> QED
    BY <2>1, <2>2
<1>8. m[pid].orphaned => OrphanEnds(pid)
  BY <1>1, <1>5, <1>6, Zenon DEF OrphanEnds
<1>9. Leaves(m, pid)
  BY <1>7, <1>8, Zenon DEF Leaves
<1> QED
  BY <1>5, <1>9, ExitFrees, RestingStep DEF Guarantee

\* A process exits whose parent waits for it: the waiter is the only task that
\* wakes, with the pid and the status in place.
LEMMA WaitedExitStep ==
  ASSUME SchedulerInv, NEW pid \in Pids, Exiting(pid),
         NEW ended, Ended(ended), NEW exit, exit = ProcessExit(ended[current].exit),
         NEW m, AfterExit(m, pid, exit),
         NEW w, NEW par, NEW woken, WokenFor(woken, w, par, ended, m, pid),
         RunNextOrMain(woken.tasks, ReapOrphanIfZombie(woken.procs, pid))
  PROVE  Guarantee
<1>1. /\ CurrentRuns
      /\ current \in TaskIds
      /\ tasks[current].state = "Running"
      /\ pid = tasks[current].pid
      /\ procs[pid].state = "Running"
      /\ procs[pid].main = current
  <2>1. CurrentRuns /\ pid = tasks[current].pid /\ tasks[current].pid # NoPid
    BY DEF Exiting, Pids, NoPid
  <2> QED
    BY <2>1, CurrentFacts, Zenon
<1>2. /\ w \in TaskIds
      /\ WaitedBy(w, par, pid)
      /\ Woken(woken.tasks, ended, w)
      /\ woken.tasks[w].rax = pid
      /\ Collected(woken.procs, m, par, pid)
      /\ tasks[w].ptr # NoPtr => woken.procs[par].status = WaitStatus(exit)
  <2>1. WaitEnds(woken, w, par, ended, m, pid, exit)
    BY WakeEffect, Zenon
  <2> QED
    BY <2>1, Zenon DEF WaitEnds
<1>3. /\ w # current
      /\ tasks[w].state = "Blocked"
      /\ tasks[w].child = pid
      /\ par = tasks[w].pid
  BY <1>1, <1>2, Zenon DEF WaitedBy, WaitersFor
<1>4. /\ woken.tasks \in [TaskIds -> Task]
      /\ woken.tasks[current] = ended[current]
      /\ ended[current].state \in Terminal
      /\ \A t \in TaskIds : t # current /\ t # w => woken.tasks[t] = tasks[t]
  BY <1>1, <1>2, <1>3, Zenon DEF Woken, Ended
<1>5. \A t \in TaskIds : t >= ntasks => woken.tasks[t].state # "Ready"
  BY <1>1, <1>3, <1>4 DEF SchedulerInv, NumberedInOrder, Numbered, Terminal
<1>6. /\ procs' = ReapOrphanIfZombie(woken.procs, pid)
      /\ \A t \in TaskIds : woken.tasks[t].state # "Ready" => tasks'[t] = woken.tasks[t]
      /\ \A t \in TaskIds : tasks'[t].rax = woken.tasks[t].rax
  BY <1>1, <1>4, <1>5, DispatchEffect
<1>7. procs' = woken.procs
  BY <1>2, <1>6, FreeSlotFields, Zenon DEF Collected, ReapOrphanIfZombie
<1>8. tasks'[current] = ended[current] /\ tasks'[w].rax = pid
  BY <1>1, <1>2, <1>4, <1>6, Zenon DEF Terminal
<1>9. \A t \in TaskIds :
        t # w /\ tasks[t].state \in Terminal \cup {"Blocked"} => tasks'[t] = tasks[t]
  BY <1>1, <1>4, <1>6 DEF Terminal
<1>10. procs'[pid].state = "Free"
  BY <1>2, <1>7, FreeSlotFields, Zenon DEF Collected
<1>11. Wakes
  <2> SUFFICES ASSUME NEW t \in TaskIds,
                      tasks[t].state = "Blocked", tasks'[t].state # "Blocked"
               PROVE  /\ tasks'[t].rax = tasks[t].child
                      /\ ~Exists(procs', tasks[t].child)
                      /\ tasks[t].ptr # NoPtr =>
                           procs'[tasks[t].pid].status =
                             WaitStatus(ProcessExit(
                               tasks'[procs[tasks[t].child].main].exit))
    BY Zenon DEF Wakes
  <2>1. t = w
    BY <1>9
  <2>2. tasks'[t].rax = tasks[t].child /\ ~Exists(procs', tasks[t].child)
    BY <1>3, <1>8, <1>10, <2>1, Zenon DEF Exists
  <2>3. exit = ProcessExit(tasks'[procs[tasks[t].child].main].exit)
    BY <1>1, <1>3, <1>8, <2>1, Zenon
  <2>4. tasks[t].ptr # NoPtr => procs'[tasks[t].pid].status = WaitStatus(exit)
    BY <1>2, <1>3, <1>7, <2>1, Zenon
  <2> QED
    BY <2>2, <2>3, <2>4, Zenon
<1>12. EndedStay
  BY <1>3, <1>9, Zenon DEF EndedStay, Terminal
<1>13. Leaves(m, pid)
  <2>1. IsChild(procs, par, pid)
    BY <1>2, <1>3, Zenon DEF SchedulerInv, WaiterWillBeServed, Served
  <2>2. procs[pid].parent = par
    BY <2>1 DEF SchedulerInv, FamilyConsistent, Forest, IsChild, Exists
  <2>3. Collects(pid)
    BY <1>2, <1>3, <1>8, <2>2, Zenon DEF Collects
  <2>4. \A p \in Pids \ {pid} : procs'[p].state = m[p].state
    BY <1>2, <1>7, Zenon DEF Collected
  <2> QED
    BY <1>10, <2>3, <2>4 DEF Leaves
<1>14. Frees /\ NewEntries /\ ZombiesStay
  BY <1>4, <1>8, <1>13, ExitFrees, Zenon
<1> QED
  BY <1>11, <1>12, <1>14, Zenon DEF Guarantee

\* exit and faults.
LEMMA FinishStep ==
  ASSUME SchedulerInv, CurrentRuns, NEW finalState \in Terminal, NEW exit \in Exits,
         FinishCurrent(finalState, exit)
  PROVE  Guarantee
<1> DEFINE pid == tasks[current].pid
           ended == EndTask(finalState, exit)
           m == MarkExited(procs, pid, ProcessExit(exit))
           woken == WakeParentWaitingFor(ended, m, pid)
<1>1. /\ current \in TaskIds
      /\ tasks[current].state = "Running"
      /\ pid # NoPid => pid \in Pids /\ Exists(procs, pid)
  BY CurrentFacts, Zenon
<1>2. Ended(ended) /\ ended[current].exit = exit
  BY EndTaskEffect, Zenon
<1>3. ProcessExit(exit) \in Exits
  BY StatusTyped, Zenon
<1>4. CASE pid = NoPid
  <2>1. RunNextOrMain(ended, procs)
    BY <1>4, Zenon DEF FinishCurrent, EndTask
  <2> HIDE DEF ended
  <2>2. /\ ended \in [TaskIds -> Task]
        /\ ended[current].state # "Ready"
        /\ \A t \in TaskIds : t # current => ended[t] = tasks[t]
    BY <1>2, Zenon DEF Ended, Terminal
  <2> QED
    BY <2>1, <2>2, DispatchStep
<1>5. CASE pid # NoPid
  <2>1. RunNextOrMain(woken.tasks, ReapOrphanIfZombie(woken.procs, pid))
    BY <1>1, <1>5, Zenon DEF FinishCurrent, EndTask
  <2> HIDE DEF ended, m
  <2>2. pid \in Pids /\ Exiting(pid) /\ AfterExit(m, pid, ProcessExit(exit))
    BY <1>1, <1>3, <1>5, MarkExitedEffect, Zenon DEF m, Exiting
  <2>3. CASE WaitersFor(ended, pid) = {}
    <3>1. woken.tasks = ended /\ woken.procs = m
      BY <2>3, Zenon DEF WakeParentWaitingFor
    <3>2. RunNextOrMain(ended, ReapOrphanIfZombie(m, pid))
      BY <2>1, <3>1, Zenon
    <3> HIDE DEF pid, woken
    <3> QED
      BY <1>2, <2>2, <3>2, UnwaitedExitStep, Zenon
  <2>4. CASE WaitersFor(ended, pid) # {}
    <3> DEFINE w == Min(WaitersFor(ended, pid))
               par == tasks[w].pid
    <3>1. WokenFor(woken, w, par, ended, m, pid)
      BY <2>4, Zenon DEF WokenFor
    <3> HIDE DEF w, par, woken, pid
    <3> QED
      BY <1>2, <2>1, <2>2, <3>1, WaitedExitStep
  <2> QED
    BY <2>3, <2>4
<1> QED
  BY <1>4, <1>5, Zenon

\* waitpid for a child that runs: the caller is the one task that blocks.
LEMMA WaitPidBlocksStep ==
  ASSUME SchedulerInv, NEW child, NEW ptr \in Ptrs \cup {NoPtr},
         WaitPidBlocks(child, ptr)
  PROVE  Guarantee
<1> DEFINE ts == BlockTask(child, ptr)
<1>1. /\ CurrentRuns
      /\ RunNextOrMain(ts, procs)
      /\ WaitPidError(tasks[current].pid, child, ptr, 0) = 0
  BY Zenon DEF WaitPidBlocks, BlockTask
<1>2. child \in Pids
  BY <1>1, WaitPidChecks, Zenon
<1>3. /\ ts \in [TaskIds -> Task]
      /\ ts[current].state # "Ready"
      /\ \A t \in TaskIds : t # current => ts[t] = tasks[t]
  BY <1>1, <1>2, BlockTaskEffect DEF Blocked
<1> HIDE DEF ts
<1> QED
  BY <1>1, <1>3, DispatchStep, Zenon

\* The return of a kernel task's entry function.
LEMMA FinishCurrentTaskStep ==
  ASSUME SchedulerInv, FinishCurrentTask PROVE Guarantee
<1> DEFINE ts == [tasks EXCEPT ![current].state = "Finished"]
<1>1. CurrentRuns /\ RunNextOrMain(ts, procs)
  BY Zenon DEF FinishCurrentTask
<1>2. current \in TaskIds /\ tasks \in [TaskIds -> Task]
  BY <1>1, CurrentFacts DEF SchedulerInv, TypeOK
<1>3. /\ ts \in [TaskIds -> Task]
      /\ ts[current].state # "Ready"
      /\ \A t \in TaskIds : t # current => ts[t] = tasks[t]
  BY <1>2 DEF Task, TaskStates
<1> HIDE DEF ts
<1> QED
  BY <1>1, <1>3, DispatchStep, Zenon

\* A step that only puts a value into rax of the running task.
LEMMA ReturnsStep ==
  ASSUME SchedulerInv, CurrentRuns, NEW value \in Int,
         tasks' = SetRax(tasks, current, value), UNCHANGED procs
  PROVE  Guarantee
<1>1. current \in TaskIds /\ tasks \in [TaskIds -> Task]
  BY CurrentFacts, Zenon DEF SchedulerInv, TypeOK
<1>2. \A t \in TaskIds : t # current => tasks'[t] = tasks[t]
  BY <1>1, SetRaxEffect
<1> QED
  BY <1>2, RunningStep, Zenon

\* Every action keeps these guarantees.
LEMMA NextGuarantees == SchedulerInv /\ [Next]_vars => Guarantee
<1> SUFFICES ASSUME SchedulerInv, [Next]_vars PROVE Guarantee
  BY Zenon
<1>1. UNCHANGED <<tasks, procs>> => Guarantee
  BY QuietStep, Zenon DEF Resting
<1>2. CASE Spawn
  <2>1. ntasks < MaxTasks /\ AddTask(NoPid) /\ UNCHANGED procs
    BY <1>2, Zenon DEF Spawn
  <2>2. Resting(tasks')
    BY <2>1, AddTaskRests, Zenon
  <2> QED
    BY <2>1, <2>2, QuietStep, Zenon
<1>3. ASSUME NEW parent \in Pids \cup {NoPid}, SpawnUserProcess(parent)
      PROVE  Guarantee
  BY <1>3, SpawnUserProcessStep, Zenon
<1>4. CASE Run
  BY <1>4, RunStep
<1>5. CASE TimerInterrupt \/ Yield
  BY <1>5, SwitchStep, Zenon DEF TimerInterrupt, Yield
<1>6. CASE WaitPidFails
  <2>1. PICK error \in Int : tasks' = SetRax(tasks, current, -error)
    BY <1>6, WaitPidErrors, Zenon
  <2>2. -error \in Int
    OBVIOUS
  <2>3. CurrentRuns /\ UNCHANGED procs
    BY <1>6 DEF WaitPidFails
  <2> QED
    BY <2>1, <2>2, <2>3, ReturnsStep, Zenon
<1>7. ASSUME NEW child \in Pids \cup {NoPid}, NEW ptr \in Ptrs \cup {NoPtr},
             NEW options \in 0 .. WNOHANG + 1, WaitPidCollects(child, ptr, options)
      PROVE  Guarantee
  BY <1>7, WaitPidCollectsStep, Zenon
<1>8. ASSUME NEW child \in Pids \cup {NoPid}, NEW ptr \in Ptrs \cup {NoPtr},
             WaitPidNoHang(child, ptr)
      PROVE  Guarantee
  <2>1. CurrentRuns /\ tasks' = SetRax(tasks, current, 0) /\ UNCHANGED procs
    BY <1>8, Zenon DEF WaitPidNoHang
  <2>2. 0 \in Int
    OBVIOUS
  <2> QED
    BY <2>1, <2>2, ReturnsStep, Zenon
<1>9. ASSUME NEW child \in Pids \cup {NoPid}, NEW ptr \in Ptrs \cup {NoPtr},
             WaitPidBlocks(child, ptr)
      PROVE  Guarantee
  BY <1>9, WaitPidBlocksStep, Zenon
<1>10. ASSUME NEW code \in ExitCodes, ExitCurrent(code)
       PROVE  Guarantee
  <2>1. "Finished" \in Terminal /\ Exited(code) \in Exits
    BY ExitCodesAssumption DEF Exited, Exits, Terminal
  <2>2. CurrentRuns /\ FinishCurrent("Finished", Exited(code))
    BY <1>10, Zenon DEF ExitCurrent
  <2> QED
    BY <2>1, <2>2, FinishStep, Zenon
<1>11. CASE FailCurrentWithFault
  <2>1. "Failed" \in Terminal /\ Faulted \in Exits
    BY DEF Faulted, Exits, Terminal
  <2>2. CurrentRuns /\ FinishCurrent("Failed", Faulted)
    BY <1>11, Zenon DEF FailCurrentWithFault
  <2> QED
    BY <2>1, <2>2, FinishStep, Zenon
<1>12. CASE FinishCurrentTask
  BY <1>12, FinishCurrentTaskStep
<1>13. ASSUME NEW writable \in SUBSET Ptrs, SysBrk(writable)
       PROVE  Guarantee
  BY <1>13, SysBrkStep, Zenon
<1>14. ASSUME NEW t \in TaskIds, SetTaskInitialArg(t)
       PROVE  Guarantee
  <2>1. /\ tasks[t].state = "Ready"
        /\ tasks' = [tasks EXCEPT ![t].initialArg = TRUE]
        /\ UNCHANGED procs
    BY <1>14 DEF SetTaskInitialArg
  <2>2. Resting(tasks')
    BY <2>1, Zenon DEF Resting, Terminal, SchedulerInv, TypeOK
  <2> QED
    BY <2>1, <2>2, QuietStep, Zenon
<1>15. ASSUME NEW enabled \in BOOLEAN, SetPreemption(enabled)
       PROVE  Guarantee
  BY <1>1, <1>15, Zenon DEF SetPreemption
<1>16. CASE EnableInterrupts
  BY <1>1, <1>16 DEF EnableInterrupts
<1>17. CASE UNCHANGED vars
  BY <1>1, <1>17, Zenon DEF vars
<1> QED
  BY <1>2, <1>3, <1>4, <1>5, <1>6, <1>7, <1>8, <1>9, <1>10, <1>11, <1>12, <1>13,
     <1>14, <1>15, <1>16, <1>17, Zenon DEF Next

-----------------------------------------------------------------------------
\* A task that waitpid blocked goes on only with its child's pid as the result,
\* the child reaped, and the status of how the child ended where it asked for it.
THEOREM WaitersWakeWithResult == Spec => WokenWaiterHasResult
<1>1. SchedulerInv /\ [Next]_vars => [Wakes]_vars
  BY NextGuarantees, Zenon DEF Guarantee
<1> QED
  BY <1>1, SchedulerSafe, PTL DEF Spec, WokenWaiterHasResult, Wakes

\* An entry leaves the process table only when its parent collects it, when its
\* parent ends, or when it is an orphan and ends.
THEOREM StatusesAreKept == Spec => ExitStatusNotLost
<1>1. SchedulerInv /\ [Next]_vars => [Frees]_vars
  BY NextGuarantees, Zenon DEF Guarantee
<1> QED
  BY <1>1, SchedulerSafe, PTL
  DEF Spec, ExitStatusNotLost, Frees, Collects, ParentEnds, OrphanEnds

\* No pid is given out twice, no zombie runs again, and a task that ended stays as
\* it ended.
THEOREM EndsAreFinal == Spec => NothingComesBack
<1>1. SchedulerInv /\ [Next]_vars => [NewEntries /\ ZombiesStay /\ EndedStay]_vars
  BY NextGuarantees, Zenon DEF Guarantee
<1> QED
  BY <1>1, SchedulerSafe, PTL
  DEF Spec, NothingComesBack, NewEntries, ZombiesStay, EndedStay

==============================================================================
