----------------------------- MODULE KernelLocks -----------------------------
(***************************************************************************)
(* The spinlocks of the kernel on its one CPU: MEMORY_STATE                *)
(* (src/src/memory.rs), the lock of the heap (src/src/allocator.rs),       *)
(* WRITER (src/src/vga_buffer.rs), SERIAL1 and OUTPUT_BUFFER               *)
(* (src/src/serial.rs) and PICS (src/src/interrupts.rs).                   *)
(*                                                                         *)
(* Main, kernel tasks and user tasks run instructions that matter here:    *)
(* take a lock, release it, turn interrupts off and back on, switch, and   *)
(* send an end of interrupt.  An interrupt adds a handler on top of the    *)
(* stack of the running context.  A lock that is taken makes the CPU spin  *)
(* where it is.                                                            *)
(*                                                                         *)
(* Kernel tasks create processes only while preemption is off, as every    *)
(* one in this repository does; docs/code_walkthrough/address_spaces.md    *)
(* asks for it ("only while local interrupts are disabled or during        *)
(* controlled setup paths").                                               *)
(***************************************************************************)
EXTENDS Integers, Sequences, FiniteSets

CONSTANTS KernelTasks, UserTasks, Main

Tasks == KernelTasks \cup UserTasks
Contexts == Tasks \cup {Main}
Locks == {"MEMORY_STATE", "ALLOCATOR", "WRITER", "SERIAL1", "OUTPUT_BUFFER", "PICS"}
Irqs == {"timer", "keyboard"}
Free == "free"

ASSUME KernelLocksAssumption ==
  KernelTasks \cap UserTasks = {} /\ Main \notin Tasks /\ Free \notin Contexts

VARIABLES held,       \* lock -> the context that holds it, or Free
          streams,    \* context -> what it has to run, the top handler first
          cur,        \* the running context
          ready,      \* tasks that have not ended
          preempt,    \* preemption_enabled
          inService   \* interrupts the PIC waits for the end of

vars == <<held, streams, cur, ready, preempt, inService>>

-----------------------------------------------------------------------------
(* Instructions *)

Locked(lock) == <<<<"lock", lock>>, <<"unlock", lock>>>>
Pick == <<<<"pick", "">>>>
Leave == <<<<"leave", "">>>>
Iret == <<<<"iret", "">>>>

WithoutInterrupts(body) == <<<<"cli", "">>>> \o body \o <<<<"restore", "">>>>

\* Mistakes: printing with interrupts on.
VgaUnprotected == Locked("WRITER")
SerialUnprotected == Locked("SERIAL1")

\* vga_buffer::_print, serial::_print, serial::write_bytes.
VgaPrint == WithoutInterrupts(Locked("WRITER"))
SerialPrint == WithoutInterrupts(Locked("SERIAL1"))
WriteBytes == WithoutInterrupts(Locked("SERIAL1") \o Locked("OUTPUT_BUFFER"))

\* memory::with_state and kernel_level_4_frame; an allocation.
WithState == Locked("MEMORY_STATE")
Allocate == Locked("ALLOCATOR")

\* load_user_elf and create_user_task, which leave interrupts on; spawn; the
\* queries of the scheduler, without and with access to user memory.
Load == Allocate \o WithState
Spawn == WithoutInterrupts(Allocate)
Query == WithoutInterrupts(<<>>)
QueryUserMemory == WithoutInterrupts(WithState)

\* notify_end_of_interrupt.
Eoi(irq) == <<<<"lock", "PICS">>, <<"eoi", irq>>, <<"unlock", "PICS">>>>

\* timer_interrupt_rust with a mistake: no end of interrupt after a switch.
EoiUnlessSwitched(switches) ==
  (IF switches THEN Pick ELSE Eoi("timer")) \o Iret

\* timer_interrupt_rust: the scheduler first, then the end of interrupt.
TimerHandler(switches) ==
  (IF switches THEN Pick ELSE <<>>) \o Eoi("timer") \o Iret

KeyboardHandler == VgaPrint \o Eoi("keyboard") \o Iret

\* write; open, read and brk; waitpid, which may drop a process; yield.
Syscalls ==
  {WithState \o WriteBytes \o Iret, WithState \o Iret,
   WithState \o Allocate \o Iret, Pick \o Iret}

\* exit copies the list of children; a fault is reported first.
Exit == Allocate \o Leave \o Iret
Fault == VgaPrint \o Exit

\* finish_current_task.
Finish == WithoutInterrupts(Leave \o Iret)

-----------------------------------------------------------------------------
(* Running *)

Top(c) == streams[c][1]
Below(c) == Tail(streams[c])
Idle(c) == Len(streams[c]) = 1 /\ Top(c).rest = <<>>
Interruptible == Top(cur).enabled

\* The running context has s on top instead.
Goes(s) == streams' = [streams EXCEPT ![cur] = <<s>> \o Below(cur)]

Continue(rest) == Goes([Top(cur) EXCEPT !.rest = rest])

\* A context starts an operation.
Starts(ops) ==
  /\ Idle(cur)
  /\ Continue(ops)
  /\ UNCHANGED <<held, cur, ready, preempt, inService>>

\* The gates of the IDT turn interrupts off.
InterruptGate(c, ops) ==
  [rest |-> ops, enabled |-> FALSE, was |-> FALSE, next |-> c]

Enters(ops) ==
  /\ streams' = [streams EXCEPT ![cur] = <<InterruptGate(cur, ops)>> \o @]
  /\ UNCHANGED <<held, cur, ready, preempt>>

At(op) == Top(cur).rest # <<>> /\ Top(cur).rest[1][1] = op
Arg == Top(cur).rest[1][2]
After == Tail(Top(cur).rest)

Lock ==
  /\ At("lock")
  /\ IF held[Arg] # Free THEN UNCHANGED vars
     ELSE /\ held' = [held EXCEPT ![Arg] = cur]
          /\ Continue(After)
          /\ UNCHANGED <<cur, ready, preempt, inService>>

Unlock ==
  /\ At("unlock")
  /\ held' = [held EXCEPT ![Arg] = Free]
  /\ Continue(After)
  /\ UNCHANGED <<cur, ready, preempt, inService>>

Cli ==
  /\ At("cli")
  /\ Goes([Top(cur) EXCEPT !.rest = After, !.was = Top(cur).enabled, !.enabled = FALSE])
  /\ UNCHANGED <<held, cur, ready, preempt, inService>>

\* Restore with a mistake: interrupts stay off.
RestoreNothing ==
  /\ At("restore")
  /\ Continue(After)
  /\ UNCHANGED <<held, cur, ready, preempt, inService>>

\* The end of without_interrupts: on again if they were on before.
Restore ==
  /\ At("restore")
  /\ Goes([Top(cur) EXCEPT !.rest = After, !.enabled = Top(cur).was])
  /\ UNCHANGED <<held, cur, ready, preempt, inService>>

SendEoi ==
  /\ At("eoi")
  /\ inService' = inService \ {Arg}
  /\ Continue(After)
  /\ UNCHANGED <<held, cur, ready, preempt>>

\* Contexts other than user tasks have the root of the kernel, which is read
\* from MEMORY_STATE.
Root(c) == IF c \in UserTasks THEN <<>> ELSE WithState

\* switch_from_interrupt.
SwitchTo ==
  /\ At("pick")
  /\ IF ready \ {cur} = {} \/ cur = Main THEN Continue(After)
     ELSE \E c \in ready \ {cur} :
            Goes([Top(cur) EXCEPT !.rest = Root(c) \o After, !.next = c])
  /\ UNCHANGED <<held, cur, ready, preempt, inService>>

\* The end of a task: the next task, or main.
LeaveTask ==
  /\ At("leave")
  /\ ready' = ready \ {cur}
  /\ \E c \in IF ready' = {} THEN {Main} ELSE ready' :
       Goes([Top(cur) EXCEPT !.rest = Root(c) \o After, !.next = c])
  /\ UNCHANGED <<held, cur, preempt, inService>>

\* The end of a handler; of a task that has ended nothing is left.
Return ==
  /\ At("iret")
  /\ cur' = Top(cur).next
  /\ streams' = [streams EXCEPT ![cur] = IF cur \in ready \cup {Main} THEN Tail(@) ELSE <<>>]
  /\ UNCHANGED <<held, ready, preempt, inService>>

Step == Lock \/ Unlock \/ Cli \/ Restore \/ SendEoi \/ SwitchTo \/ LeaveTask \/ Return

-----------------------------------------------------------------------------
(* What contexts do *)

InKernel == cur \notin UserTasks

KernelOperation ==
  InKernel /\ \E ops \in {VgaPrint, SerialPrint, Spawn, Query, QueryUserMemory} : Starts(ops)

LoadProgram == InKernel /\ ~preempt /\ Starts(Load)

\* enable_preemption and disable_preemption.
SetPreemption(on) ==
  /\ InKernel /\ Idle(cur)
  /\ preempt' = on
  /\ UNCHANGED <<held, streams, cur, ready, inService>>

\* yield_now.
Yield == cur \in KernelTasks /\ Idle(cur) /\ Enters(Pick \o Iret) /\ UNCHANGED inService

FinishTask == cur \in KernelTasks /\ Starts(Finish)

\* run: main waits with interrupts off.
Run ==
  /\ cur = Main /\ Idle(Main) /\ ready # {}
  /\ \E c \in ready :
       /\ cur' = c
       /\ streams' = [streams EXCEPT
            ![Main] = <<[Top(Main) EXCEPT !.rest = <<<<"restore", "">>>>, !.enabled = FALSE,
                                          !.was = Top(Main).enabled]>>]
  /\ UNCHANGED <<held, ready, preempt, inService>>

UserTrap ==
  /\ cur \in UserTasks /\ Idle(cur)
  /\ \E ops \in Syscalls \cup {Exit, Fault} : Enters(ops)
  /\ UNCHANGED inService

\* The PIC delivers an interrupt unless one of its priority or a higher one is
\* being served.
Timer ==
  /\ Interruptible /\ "timer" \notin inService
  /\ Enters(TimerHandler(preempt /\ cur # Main))
  /\ inService' = inService \cup {"timer"}

Keyboard ==
  /\ Interruptible /\ inService = {}
  /\ Enters(KeyboardHandler)
  /\ inService' = inService \cup {"keyboard"}

Init ==
  /\ held = [lock \in Locks |-> Free]
  /\ streams = [c \in Contexts |->
                  <<[rest |-> <<>>, enabled |-> TRUE, was |-> FALSE, next |-> c]>>]
  /\ cur = Main
  /\ ready = Tasks
  /\ preempt = FALSE
  /\ inService = {}

Next ==
  \/ Step
  \/ KernelOperation
  \/ LoadProgram
  \/ \E on \in BOOLEAN : SetPreemption(on)
  \/ Yield
  \/ FinishTask
  \/ Run
  \/ UserTrap
  \/ Timer
  \/ Keyboard

Spec == Init /\ [][Next]_vars

-----------------------------------------------------------------------------
(* Properties                                                              *)

\* The type of every variable; interrupt gates do not nest.
TypeOK ==
  /\ held \in [Locks -> Contexts \cup {Free}]
  /\ \A c \in Contexts : Len(streams[c]) <= 2
  /\ cur \in Contexts
  /\ ready \subseteq Tasks
  /\ preempt \in BOOLEAN
  /\ inService \subseteq Irqs

\* The variables have their types, and no context is suspended while it holds a
\* lock: locks that handlers need are held with interrupts off, and those of
\* the set-up paths without preemption.
NoLockAcrossSwitch == TypeOK /\ \A lock \in Locks : held[lock] \in {cur, Free}

\* Nobody ever finds a lock taken; on one CPU with interrupts off that would
\* be spinning for ever (the comment of vga_buffer::_print).
LocksAreFree == At("lock") => held[Arg] = Free

\* An interrupt in service has its handler on the stack of the running
\* context: no switch, exit or return to main leaves an end of interrupt out,
\* which would be the last timer interrupt of the machine.
EveryInterruptEnds ==
  \A irq \in inService :
    \E i \in 1 .. Len(streams[cur]) :
      <<"eoi", irq>> \in {streams[cur][i].rest[j] : j \in 1 .. Len(streams[cur][i].rest)}

\* Between its operations every context has interrupts on, however its
\* operations, handlers and switches were nested.
InterruptsComeBack == \A c \in ready \cup {Main} : Idle(c) => Top(c).enabled

=============================================================================
