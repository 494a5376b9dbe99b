---------------------------- MODULE ContextsProofs ----------------------------
(***************************************************************************)
(* Saving and restoring contexts, for any number of kernel and user tasks  *)
(* and any sizes of stacks that leave room for a frame and a handler: what *)
(* a context keeps in registers and on its kernel stack survives whatever  *)
(* runs in between.                                                        *)
(*                                                                         *)
(* The argument is about one stack at a time.  Settled says, of a memory,  *)
(* what every context will find in it; a handler changes the stack of the  *)
(* context it interrupted and then takes one frame off one stack, and both *)
(* keep it.                                                                *)
(***************************************************************************)
EXTENDS Contexts, TLAPS

-----------------------------------------------------------------------------
(* The inductive invariant *)

IsMemory(m) == DOMAIN m = Words

States == {"none", "Ready", "Running", "Blocked", "Finished", "Failed"}
Waiting == {"Ready", "Blocked"}
Live == {"Ready", "Running", "Blocked"}

\* The registers that context c may have.
Image(c, e) ==
  /\ e \in [Regs -> Int]
  /\ e["rflags"] \in {0, 1}
  /\ e["cs"] = (IF IsUser(c) THEN UserMode ELSE 0)
  /\ e["ss"] = e["cs"]
  /\ ~IsUser(c) => e["rsp"] \in {Start(c), Start(c) - MaxDepth}
  /\ \E k \in {0, 1} : e["rip"] = Value(c, "rip", k)

\* What a kernel context keeps on its stack.
StackHolds(m, c, e) ==
  \A a \in e["rsp"] .. Start(c) - 1 : m[a] = e["rip"]

\* A TrapFrame with the registers e.
FrameHolds(m, f, e) ==
  \A i \in 1 .. Len(TrapFrame) : m[f + i - 1] = e[TrapFrame[i]]

\* Where the frame of a context with the registers e may be.
Placed(c, f, e) ==
  /\ f \in Int
  /\ IF IsUser(c) THEN f + Len(TrapFrame) = Top(c)
     ELSE f + Len(TrapFrame) \in {e["rsp"] - 1, e["rsp"]}

Parked(m, c, f, e) == Placed(c, f, e) /\ FrameHolds(m, f, e)

\* What switch_from_main_to_task pushed.
MainHolds(m, f, e) ==
  \A i \in 1 .. Len(MainPops) : m[f + i - 1] = e[MainPops[i]]

\* Context c, in state s, finds in the memory m what its registers e expect: its
\* own words on its stack and, when it does not run, its frame at f.
Fits(m, c, s, f, e) ==
  s \in Live => /\ Image(c, e)
                /\ ~IsUser(c) => StackHolds(m, c, e)
                /\ s \in Waiting => Parked(m, c, f, e)

\* A memory, the task states, the saved stack pointers, the registers expected.
Typed(m, st, sv, e) ==
  /\ IsMemory(m)
  /\ st \in [Tasks -> States]
  /\ sv \in [Tasks -> Words]
  /\ e \in [Stacks -> [Regs -> Int]]

\* Every context finds in the memory m what the registers e expect.
Settled(m, st, sv, e) ==
  /\ Typed(m, st, sv, e)
  /\ Fits(m, Main, "Running", 0, e[Main])
  /\ \A t \in Tasks : Fits(m, t, st[t], sv[t], e[t])

\* run() left main's registers at f, and en is what it will restore IF to.
MainReady(m, e, f, en) ==
  /\ f = e[Main]["rsp"] - Len(MainPops)
  /\ en = e[Main]["rflags"]
  /\ MainHolds(m, f, e[Main])

\* The inductive invariant.
ContextsInv ==
  /\ Settled(mem, state, saved, expect)
  /\ tss \in {0} \cup {Top(t) : t \in Tasks}
  /\ main \in Words
  /\ enable \in {0, 1}
  /\ current \in Stacks
  /\ \A t \in Tasks : state[t] = "Running" <=> current = t
  /\ cpu = expect[current]
  /\ current # Main => tss = Top(current) /\ MainReady(mem, expect, main, enable)

\* Two memories differ only on the stack of context c.
SameOff(c, m, m2) == \A a \in Words \ Zone(c) : m2[a] = m[a]

\* What is not of context c is the same.
OthersSame(c, m, st, sv, e, m2, st2, sv2, e2) ==
  /\ SameOff(c, m, m2)
  /\ \A t \in Tasks : t # c => st2[t] = st[t] /\ sv2[t] = sv[t]
  /\ \A d \in Stacks : d # c => e2[d] = e[d]

\* Context c runs in st2, and the others are as in st.
Runs(c, st, st2) ==
  /\ st2 \in [Tasks -> States]
  /\ \A t \in Tasks : t # c => st2[t] = st[t]
  /\ c # Main => st[c] \in Live /\ st2[c] = "Running"

-----------------------------------------------------------------------------
(* Layouts *)

\* The layouts have as many words as the assembly pushes and pops.
LEMMA Lengths ==
  /\ Len(TrapFrame) = 20 /\ Len(MainPops) = 7 /\ Len(MainPushes) = 7
  /\ Len(CpuPushes) = 5 /\ Len(PushOrder) = 15
BY DEF TrapFrame, MainPops, MainPushes, CpuPushes, PushOrder

\* No register is twice in a TrapFrame.
LEMMA TrapFrameInjective ==
  \A i, j \in 1 .. 20 : TrapFrame[i] = TrapFrame[j] => i = j
BY DEF TrapFrame

\* No register is twice in what restore_main_context pops.
LEMMA MainPopsInjective ==
  \A i, j \in 1 .. 7 : MainPops[i] = MainPops[j] => i = j
BY DEF MainPops

\* restore_interrupt_context pops a TrapFrame.
LEMMA PopsAreFrame ==
  /\ Len(PopOrder \o IretPops) = 20
  /\ \A i \in 1 .. 20 : (PopOrder \o IretPops)[i] = TrapFrame[i]
BY DEF PopOrder, IretPops, TrapFrame

\* The entries push a TrapFrame from its end.
LEMMA PushesAreFrame ==
  \A i \in 1 .. 20 : Pushes(FALSE)[21 - i] = TrapFrame[i]
BY DEF Pushes, CpuPushes, PushOrder, TrapFrame

\* Without an error code an entry pushes a TrapFrame, with one a word more.
LEMMA PushCounts == Len(Pushes(FALSE)) = 20 /\ Len(Pushes(TRUE)) = 21
BY DEF Pushes, CpuPushes, PushOrder

\* switch_from_main_to_task pushes what restore_main_context pops, from its end.
LEMMA MainPushesReversed ==
  \A i \in 1 .. 7 : MainPushes[8 - i] = MainPops[i]
BY DEF MainPushes, MainPops
\* Regs are the words of a TrapFrame, and each is at its FrameSlot.
LEMMA FrameSlots ==
  \A i \in 1 .. 20 : TrapFrame[i] \in Regs /\ FrameSlot[TrapFrame[i]] = i - 1
<1> SUFFICES ASSUME NEW i \in 1 .. 20
             PROVE  TrapFrame[i] \in Regs /\ FrameSlot[TrapFrame[i]] = i - 1
  OBVIOUS
<1>1. TrapFrame[i] \in {TrapFrame[j] : j \in 1 .. 20}
  OBVIOUS
<1>2. (CHOOSE j \in 1 .. 20 : TrapFrame[j] = TrapFrame[i]) = i
  BY TrapFrameInjective
<1> QED  BY <1>1, <1>2, Lengths, Zenon DEF Regs, FrameSlot, Layout

\* restore_interrupt_context finds each register at its FrameSlot.
LEMMA PopSlots ==
  \A i \in 1 .. 20 : PopSlot[TrapFrame[i]] = i - 1
<1> SUFFICES ASSUME NEW i \in 1 .. 20
             PROVE  PopSlot[TrapFrame[i]] = i - 1
  OBVIOUS
<1> DEFINE order == PopOrder \o IretPops
<1>0. Len(order) = 20 /\ \A j \in 1 .. 20 : order[j] = TrapFrame[j]
  BY PopsAreFrame
<1> HIDE DEF order
<1>1. TrapFrame[i] \in {order[j] : j \in 1 .. 20}
  BY <1>0
<1>2. (CHOOSE j \in 1 .. 20 : order[j] = TrapFrame[i]) = i
  BY <1>0, TrapFrameInjective
<1>3. Layout(order)[TrapFrame[i]] = i - 1
  BY <1>0, <1>1, <1>2, Zenon DEF Layout
<1> QED  BY <1>3, Zenon DEF PopSlot, order

\* restore_main_context finds each register at its MainSlot.
LEMMA MainSlots ==
  /\ \A i \in 1 .. 7 : MainSlot[MainPops[i]] = i - 1
  /\ DOMAIN MainSlot = {"r15", "r14", "r13", "r12", "rbx", "rbp", "rip"}
<1>1. ASSUME NEW i \in 1 .. 7
      PROVE  MainSlot[MainPops[i]] = i - 1
  <2>1. MainPops[i] \in {MainPops[j] : j \in 1 .. 7}
    OBVIOUS
  <2>2. (CHOOSE j \in 1 .. 7 : MainPops[j] = MainPops[i]) = i
    BY MainPopsInjective
  <2> QED  BY <2>1, <2>2, Lengths, Zenon DEF MainSlot, Layout
<1>2. DOMAIN MainSlot = {MainPops[i] : i \in 1 .. 7}
  BY Lengths, Zenon DEF MainSlot, Layout
<1>3. {MainPops[i] : i \in 1 .. 7} = {"r15", "r14", "r13", "r12", "rbx", "rbp", "rip"}
  BY DEF MainPops
<1> QED  BY <1>1, <1>2, <1>3, Zenon

\* Every register is a word of a TrapFrame.
LEMMA RegsAreWords ==
  \A r \in Regs : \E i \in 1 .. 20 : r = TrapFrame[i]
BY Lengths, Zenon DEF Regs

\* The registers that the handlers and main name.
LEMMA NamedRegs ==
  /\ {"rax", "rdi", "rip", "cs", "rflags", "rsp", "ss"} \subseteq Regs
  /\ {"r15", "r14", "r13", "r12", "rbx", "rbp", "rip"} \subseteq Regs
  /\ "error" \notin Regs
<1>1. Regs = {TrapFrame[i] : i \in 1 .. 20}
  BY Lengths, Zenon DEF Regs
<1> QED  BY <1>1 DEF TrapFrame

-----------------------------------------------------------------------------
(* Stacks *)

\* The sizes are numbers, and a stack has room for a frame and a handler.
LEMMA Sizes ==
  /\ StackSize \in Nat /\ HandlerDepth \in Nat /\ MaxDepth \in Nat
  /\ StackSize >= 22 + MaxDepth + HandlerDepth
BY ContextsAssumption

\* Main has no task number.
LEMMA MainIsNoTask == 0 \notin Tasks
BY ContextsAssumption

\* Stacks have numbers.
LEMMA StackNumbers == \A c \in Stacks : c \in Nat
BY ContextsAssumption DEF Stacks, Main

\* A product with an even number is even.
LEMMA EvenTop == \A c \in Stacks : Top(c) \in Nat /\ Top(c) % 2 = 0
<1> SUFFICES ASSUME NEW c \in Stacks
             PROVE  Top(c) \in Nat /\ Top(c) % 2 = 0
  OBVIOUS
<1>1. PICK h \in Nat : StackSize = 2 * h
  BY ContextsAssumption, Sizes
<1>2. c \in Nat
  BY StackNumbers
<1>3. (c + 1) * h \in Nat /\ Top(c) = 2 * ((c + 1) * h)
  BY <1>1, <1>2 DEF Top
<1>4. \A x \in Nat : (2 * x) \in Nat /\ (2 * x) % 2 = 0
  OBVIOUS
<1> QED  BY <1>3, <1>4, Zenon

\* Addresses are numbers.
LEMMA WordNumbers == \A a \in Words : a \in Int
<1>1. \A c \in Stacks : \A a \in Zone(c) : a \in Int
  BY EvenTop, Sizes DEF Zone
<1> QED  BY <1>1, Zenon DEF Words

\* The words of a stack are in the memory.
LEMMA ZoneIsMemory ==
  ASSUME NEW c \in Stacks, NEW a \in Int, Top(c) - StackSize <= a, a < Top(c)
  PROVE  a \in Words
<1>1. a \in Zone(c)
  BY EvenTop, Sizes DEF Zone
<1> QED  BY <1>1, Zenon DEF Words

\* Two stacks lie one above the other.
LEMMA ZonesApart ==
  \A c, d \in Stacks :
    c # d => Top(c) <= Top(d) - StackSize \/ Top(d) <= Top(c) - StackSize
<1> SUFFICES ASSUME NEW c \in Stacks, NEW d \in Stacks, c # d
             PROVE  Top(c) <= Top(d) - StackSize \/ Top(d) <= Top(c) - StackSize
  OBVIOUS
<1>1. c \in Nat /\ d \in Nat
  BY StackNumbers
<1>2. \A x, y, s \in Nat : x + 1 <= y => (x + 1) * s <= (y + 1) * s - s
  OBVIOUS
<1>3. c + 1 <= d \/ d + 1 <= c
  BY <1>1
<1> QED  BY <1>1, <1>2, <1>3, Sizes DEF Top
\* Main is not a user task.
LEMMA MainIsKernel == Main \in Stacks /\ ~IsUser(Main)
BY MainIsNoTask, Zenon DEF IsUser, Tasks, Stacks, Main

\* A task has a stack.
LEMMA TaskStacks == Main \notin Tasks /\ \A t \in Tasks : t \in Stacks /\ t # Main
BY MainIsNoTask, Zenon DEF Stacks, Main

\* The stack pointer of a kernel context is near the top of its stack.
LEMMA KernelRsp ==
  ASSUME NEW c \in Stacks, NEW e, Image(c, e), ~IsUser(c)
  PROVE  /\ e["rsp"] \in Int
         /\ e["rsp"] <= Top(c) - 1
         /\ e["rsp"] >= Top(c) - 1 - MaxDepth
<1>1. e["rsp"] \in {Top(c) - 1, (Top(c) - 1) - MaxDepth}
  BY Zenon DEF Image, Start
<1> QED  BY <1>1, EvenTop, Sizes

\* A frame, and the room for a handler below it, are on the stack of its context,
\* and below what the context keeps there.
LEMMA PlacedInZone ==
  ASSUME NEW c \in Stacks, NEW e, NEW f, Image(c, e), Placed(c, f, e)
  PROVE  /\ f \in Int
         /\ f - HandlerDepth >= Top(c) - StackSize
         /\ f + 20 <= Top(c)
         /\ ~IsUser(c) => f + 20 <= e["rsp"]
<1>0. f \in Int
  BY Zenon DEF Placed
<1>1. CASE IsUser(c)
  <2>1. f + 20 = Top(c)
    BY <1>1, Lengths DEF Placed
  <2> QED  BY <1>0, <1>1, <2>1, EvenTop, Sizes
<1>2. CASE ~IsUser(c)
  <2>1. f + 20 \in {e["rsp"] - 1, e["rsp"]}
    BY <1>2, Lengths DEF Placed
  <2> QED  BY <1>0, <1>2, <2>1, KernelRsp, EvenTop, Sizes
<1> QED  BY <1>1, <1>2, Zenon

\* The words of a stack are words of the memory and of no other stack.
LEMMA ZoneWords ==
  ASSUME NEW c \in Stacks, NEW d \in Stacks, c # d,
         NEW a \in Int, Top(d) - StackSize <= a, a < Top(d)
  PROVE  a \in Words \ Zone(c)
<1>3. a \in Words
  BY ZoneIsMemory, Zenon
<1>4. a \notin Top(c) - StackSize .. Top(c) - 1
  BY ZonesApart, EvenTop, Sizes
<1> QED  BY <1>3, <1>4, Zenon DEF Zone
-----------------------------------------------------------------------------
(* One stack at a time *)

\* A context does not notice what is written to the stack of another one.
LEMMA FitsElsewhere ==
  ASSUME NEW c \in Stacks, NEW d \in Stacks, c # d,
         NEW m, NEW m2, NEW s, NEW f, NEW e,
         SameOff(c, m, m2),
         Fits(m, d, s, f, e)
  PROVE  Fits(m2, d, s, f, e)
<1> SUFFICES ASSUME s \in Live
             PROVE  /\ Image(d, e)
                    /\ ~IsUser(d) => StackHolds(m2, d, e)
                    /\ s \in Waiting => Parked(m2, d, f, e)
  BY Zenon DEF Fits
<1>1. Image(d, e)
  BY Zenon DEF Fits
<1>2. ASSUME ~IsUser(d)
      PROVE  StackHolds(m2, d, e)
  <2> SUFFICES ASSUME NEW a \in e["rsp"] .. Start(d) - 1
               PROVE  m2[a] = e["rip"]
    BY Zenon DEF StackHolds
  <2>1. m[a] = e["rip"]
    BY <1>2, Zenon DEF Fits, StackHolds
  <2>2. a \in Int /\ Top(d) - StackSize <= a /\ a < Top(d)
    BY <1>1, <1>2, KernelRsp, EvenTop, Sizes DEF Start
  <2>3. a \in Words \ Zone(c)
    BY <2>2, ZoneWords, Zenon
  <2> QED  BY <2>1, <2>3, Zenon DEF SameOff
<1>3. ASSUME s \in Waiting
      PROVE  Parked(m2, d, f, e)
  <2>1. Placed(d, f, e) /\ FrameHolds(m, f, e)
    BY <1>3, Zenon DEF Fits, Parked
  <2> SUFFICES ASSUME NEW i \in 1 .. 20
               PROVE  m2[f + i - 1] = e[TrapFrame[i]]
    BY <2>1, Lengths, Zenon DEF Parked, FrameHolds
  <2>2. m[f + i - 1] = e[TrapFrame[i]]
    BY <2>1, Lengths, Zenon DEF FrameHolds
  <2>3. /\ f \in Int
        /\ f - HandlerDepth >= Top(d) - StackSize
        /\ f + 20 <= Top(d)
    BY <1>1, <2>1, PlacedInZone, Zenon
  <2>4. f + i - 1 \in Int /\ Top(d) - StackSize <= f + i - 1 /\ f + i - 1 < Top(d)
    BY <2>3, EvenTop, Sizes
  <2>5. f + i - 1 \in Words \ Zone(c)
    BY <2>4, ZoneWords, Zenon
  <2> QED  BY <2>2, <2>5, Zenon DEF SameOff
<1> QED  BY <1>1, <1>2, <1>3, Zenon

\* A context that runs, or that has ended, has nothing to lose but its stack.
LEMMA SettledStep ==
  ASSUME NEW c \in Stacks, NEW m, NEW st, NEW sv, NEW e,
         NEW m2, NEW st2, NEW sv2, NEW e2,
         Settled(m, st, sv, e),
         Typed(m2, st2, sv2, e2),
         OthersSame(c, m, st, sv, e, m2, st2, sv2, e2),
         c = Main => Fits(m2, Main, "Running", 0, e2[Main]),
         c # Main => Fits(m2, c, st2[c], sv2[c], e2[c])
  PROVE  Settled(m2, st2, sv2, e2)
<1>1. Fits(m2, Main, "Running", 0, e2[Main])
  <2>1. CASE c # Main
    <3>1. Fits(m, Main, "Running", 0, e[Main]) /\ e2[Main] = e[Main]
      BY <2>1, MainIsKernel, Zenon DEF Settled, OthersSame
    <3> QED  BY <2>1, <3>1, FitsElsewhere, MainIsKernel, Zenon DEF OthersSame
  <2> QED  BY <2>1, Zenon
<1>2. ASSUME NEW t \in Tasks
      PROVE  Fits(m2, t, st2[t], sv2[t], e2[t])
  <2>1. CASE t # c
    <3>1. Fits(m, t, st[t], sv[t], e[t])
      BY Zenon DEF Settled
    <3>2. st2[t] = st[t] /\ sv2[t] = sv[t] /\ e2[t] = e[t] /\ t \in Stacks
      BY <2>1, TaskStacks, Zenon DEF OthersSame
    <3>3. Fits(m2, t, st[t], sv[t], e[t])
      BY <2>1, <3>1, <3>2, FitsElsewhere, Zenon DEF OthersSame
    <3> QED  BY <3>2, <3>3, Zenon
  <2> QED  BY <2>1, TaskStacks, Zenon
<1> QED  BY <1>1, <1>2, Zenon DEF Settled
-----------------------------------------------------------------------------
(* Entry *)

\* The context that runs: its registers are those it expects, and it is alive.
LEMMA RunningContext ==
  ASSUME ContextsInv
  PROVE  /\ current \in Stacks /\ cpu = expect[current]
         /\ Image(current, cpu)
         /\ ~IsUser(current) => StackHolds(mem, current, cpu)
         /\ IsUser(current) => current \in Tasks /\ state[current] = "Running"
<1>1. current \in Stacks /\ cpu = expect[current]
  BY Zenon DEF ContextsInv
<1>2. CASE current = Main
  <2>1. Fits(mem, Main, "Running", 0, expect[Main])
    BY Zenon DEF ContextsInv, Settled
  <2>2. "Running" \in Live
    BY DEF Live
  <2> QED  BY <1>1, <1>2, <2>1, <2>2, MainIsKernel, Zenon DEF Fits
<1>3. CASE current # Main
  <2>1. current \in Tasks
    BY <1>1, <1>3, Zenon DEF Stacks
  <2>2. state[current] = "Running"
    BY <2>1, Zenon DEF ContextsInv
  <2>3. Fits(mem, current, state[current], saved[current], expect[current])
    BY <2>1, Zenon DEF ContextsInv, Settled
  <2>4. "Running" \in Live
    BY DEF Live
  <2> QED  BY <1>1, <2>1, <2>2, <2>3, <2>4, Zenon DEF Fits
<1> QED  BY <1>2, <1>3, Zenon

\* An entry goes to the top of the stack of a user task, and to the stack pointer
\* of a kernel context, aligned.
LEMMA EntryPlace ==
  ASSUME ContextsInv
  PROVE  /\ EntryBase \in Int /\ EntryBase % 2 = 0
         /\ IsUser(current) => EntryBase = Top(current)
         /\ ~IsUser(current) => EntryBase \in {cpu["rsp"] - 1, cpu["rsp"]}
<1>0. current \in Stacks /\ Image(current, cpu)
  BY RunningContext, Zenon
<1>1. CASE IsUser(current)
  <2>1. cpu["cs"] = UserMode
    BY <1>0, <1>1, Zenon DEF Image
  <2>2. current # Main
    BY <1>1, MainIsKernel, Zenon
  <2>3. tss = Top(current)
    BY <2>2, Zenon DEF ContextsInv
  <2>4. EntryBase = Top(current) - (Top(current) % 2)
    BY <2>1, <2>3, Zenon DEF EntryBase
  <2>5. Top(current) \in Nat /\ Top(current) % 2 = 0
    BY <1>0, EvenTop, Zenon
  <2> QED  BY <1>1, <2>4, <2>5
<1>2. CASE ~IsUser(current)
  <2>1. cpu["cs"] # UserMode
    BY <1>0, <1>2 DEF Image, UserMode
  <2>2. EntryBase = cpu["rsp"] - (cpu["rsp"] % 2)
    BY <2>1, Zenon DEF EntryBase
  <2>3. cpu["rsp"] \in Int
    BY <1>0, <1>2, KernelRsp
  <2>4. \A x \in Int : /\ x - (x % 2) \in {x - 1, x}
                       /\ (x - (x % 2)) \in Int
                       /\ (x - (x % 2)) % 2 = 0
    OBVIOUS
  <2> QED  BY <1>2, <2>2, <2>3, <2>4, Zenon
<1> QED  BY <1>1, <1>2, Zenon

\* The frame and the handler stay on the stack of the context interrupted.
LEMMA EntryRoom ==
  ASSUME ContextsInv, NEW error \in BOOLEAN, error => IsUser(current)
  PROVE  /\ FrameRsp(error) \in Int
         /\ FrameRsp(error) = EntryBase - (IF error THEN 21 ELSE 20)
         /\ (FrameRsp(error) - (FrameRsp(error) % 2)) - HandlerDepth
              >= Top(current) - StackSize
         /\ FrameRsp(error) % 2 \in {0, 1}
         /\ EntryBase <= Top(current)
<1>0. current \in Stacks /\ Image(current, cpu)
  BY RunningContext, Zenon
<1>1. FrameRsp(error) = EntryBase - (IF error THEN 21 ELSE 20)
  BY PushCounts DEF FrameRsp
<1>2. /\ EntryBase \in Int /\ EntryBase % 2 = 0
      /\ IsUser(current) => EntryBase = Top(current)
      /\ ~IsUser(current) => EntryBase \in {cpu["rsp"] - 1, cpu["rsp"]}
  BY EntryPlace, Zenon
<1>3. Top(current) \in Nat
  BY <1>0, EvenTop, Zenon
<1>4. EntryBase <= Top(current) /\ EntryBase >= Top(current) - 2 - MaxDepth
  <2>1. CASE IsUser(current)
    BY <1>2, <1>3, <2>1, Sizes
  <2>2. CASE ~IsUser(current)
    <3>1. /\ cpu["rsp"] \in Int
          /\ cpu["rsp"] <= Top(current) - 1
          /\ cpu["rsp"] >= Top(current) - 1 - MaxDepth
      BY <1>0, <2>2, KernelRsp, Zenon
    <3> QED  BY <1>2, <1>3, <2>2, <3>1, Sizes
  <2> QED  BY <2>1, <2>2
<1>5. \A b \in Int : b % 2 = 0 => (b - 20) % 2 = 0 /\ (b - 21) % 2 = 1
  OBVIOUS
<1>6. CASE error
  <2>1. EntryBase = Top(current)
    BY <1>2, <1>6
  <2>2. FrameRsp(error) = EntryBase - 21 /\ FrameRsp(error) % 2 = 1
    BY <1>1, <1>2, <1>5, <1>6
  <2> QED  BY <1>1, <1>2, <1>3, <1>6, <2>1, <2>2, Sizes
<1>7. CASE ~error
  <2>1. FrameRsp(error) = EntryBase - 20 /\ FrameRsp(error) % 2 = 0
    BY <1>1, <1>2, <1>5, <1>7
  <2> QED  BY <1>1, <1>2, <1>3, <1>4, <1>7, <2>1, Sizes
<1> QED  BY <1>6, <1>7
\* The memory of ContextsInv.
LEMMA MemoryWords ==
  ASSUME ContextsInv
  PROVE  DOMAIN mem = Words
BY Zenon DEF ContextsInv, Settled, Typed, IsMemory

\* Every entry leaves the other stacks alone.
LEMMA EnteredElsewhere ==
  ASSUME ContextsInv, NEW error \in BOOLEAN, error => IsUser(current)
  PROVE  /\ IsMemory(Entered(error))
         /\ SameOff(current, mem, Entered(error))
<1>1. IsMemory(Entered(error))
  BY MemoryWords, Zenon DEF Entered, IsMemory
<1>2. ASSUME NEW a \in Words \ Zone(current)
      PROVE  Entered(error)[a] = mem[a]
  <2> DEFINE f == FrameRsp(error)
             g == f - (f % 2)
  <2>1. /\ f \in Int /\ f % 2 \in {0, 1}
        /\ g - HandlerDepth >= Top(current) - StackSize
        /\ EntryBase <= Top(current)
    BY EntryRoom, Zenon
  <2>2. /\ EntryBase \in Int /\ Top(current) \in Nat
        /\ a \in Int /\ a \notin Top(current) - StackSize .. Top(current) - 1
    BY EntryPlace, EvenTop, RunningContext, WordNumbers DEF Zone
  <2>3. f = EntryBase - (IF error THEN 21 ELSE 20)
    BY EntryRoom, Zenon
  <2>4. Entered(error)[a] =
          IF a \in f .. EntryBase - 1
          THEN (IF Pushes(error)[EntryBase - a] = "error" THEN Junk
                ELSE cpu[Pushes(error)[EntryBase - a]])
          ELSE IF a \in g - HandlerDepth .. g - 1 THEN Junk
          ELSE mem[a]
    BY MemoryWords, Zenon DEF Entered
  <2> HIDE DEF f
  <2>5. a \notin f .. EntryBase - 1 /\ a \notin g - HandlerDepth .. g - 1
    BY <2>1, <2>2, <2>3, Sizes
  <2> QED  BY <2>4, <2>5, Zenon
<1> QED  BY <1>1, <1>2, Zenon DEF SameOff

\* An entry without an error code leaves a whole TrapFrame, in its place, and
\* what the context keeps on its stack.
LEMMA EnteredFrame ==
  ASSUME ContextsInv
  PROVE  /\ Parked(Entered(FALSE), current, FrameRsp(FALSE), cpu)
         /\ ~IsUser(current) => StackHolds(Entered(FALSE), current, cpu)
<1> DEFINE f == FrameRsp(FALSE)
           g == f - (f % 2)
           m == Entered(FALSE)
<1>0. current \in Stacks /\ Image(current, cpu)
  BY RunningContext, Zenon
<1>1. /\ f \in Int /\ f % 2 \in {0, 1}
      /\ g - HandlerDepth >= Top(current) - StackSize
      /\ EntryBase <= Top(current)
      /\ f = EntryBase - 20
  BY EntryRoom
<1>2. /\ EntryBase \in Int /\ Top(current) \in Nat
  BY <1>0, EntryPlace, EvenTop, Zenon
<1>3. ASSUME NEW a \in Words
      PROVE  m[a] = IF a \in f .. EntryBase - 1
                    THEN (IF Pushes(FALSE)[EntryBase - a] = "error" THEN Junk
                          ELSE cpu[Pushes(FALSE)[EntryBase - a]])
                    ELSE IF a \in g - HandlerDepth .. g - 1 THEN Junk
                    ELSE mem[a]
  BY MemoryWords, Zenon DEF Entered
<1>4. ASSUME NEW a \in Int, Top(current) - StackSize <= a, a < Top(current)
      PROVE  a \in Words
  BY <1>0, <1>4, ZoneIsMemory, Zenon
<1> HIDE DEF f, m
<1>5. Placed(current, f, cpu)
  <2>1. IsUser(current) => f + 20 = Top(current)
    BY <1>1, <1>2, EntryPlace
  <2>2. ~IsUser(current) => f + 20 \in {cpu["rsp"] - 1, cpu["rsp"]}
    BY <1>1, <1>2, EntryPlace
  <2> QED  BY <1>1, <2>1, <2>2, Lengths, Zenon DEF Placed
<1>6. FrameHolds(m, f, cpu)
  <2> SUFFICES ASSUME NEW i \in 1 .. 20
               PROVE  m[f + i - 1] = cpu[TrapFrame[i]]
    BY Lengths, Zenon DEF FrameHolds
  <2>1. /\ f + i - 1 \in f .. EntryBase - 1
        /\ EntryBase - (f + i - 1) = 21 - i
        /\ f + i - 1 \in Int
        /\ Top(current) - StackSize <= f + i - 1 /\ f + i - 1 < Top(current)
    BY <1>1, <1>2, Sizes
  <2>2. f + i - 1 \in Words
    BY <1>4, <2>1, Zenon
  <2>3. Pushes(FALSE)[21 - i] = TrapFrame[i] /\ TrapFrame[i] # "error"
    BY PushesAreFrame, FrameSlots, NamedRegs, Zenon
  <2> QED  BY <1>3, <2>1, <2>2, <2>3, Zenon
<1>7. ASSUME ~IsUser(current)
      PROVE  StackHolds(m, current, cpu)
  <2> SUFFICES ASSUME NEW a \in cpu["rsp"] .. Start(current) - 1
               PROVE  m[a] = cpu["rip"]
    BY Zenon DEF StackHolds
  <2>1. mem[a] = cpu["rip"]
    BY <1>7, RunningContext, Zenon DEF StackHolds
  <2>2. /\ cpu["rsp"] \in Int
        /\ cpu["rsp"] <= Top(current) - 1
        /\ cpu["rsp"] >= Top(current) - 1 - MaxDepth
        /\ EntryBase \in {cpu["rsp"] - 1, cpu["rsp"]}
    BY <1>0, <1>7, KernelRsp, EntryPlace, Zenon
  <2>3. a \in Int /\ cpu["rsp"] <= a /\ a < Top(current)
    BY <1>2, <2>2 DEF Start
  <2>4. /\ a \notin f .. EntryBase - 1 /\ a \notin g - HandlerDepth .. g - 1
        /\ Top(current) - StackSize <= a
    BY <1>1, <1>2, <2>2, <2>3, Sizes
  <2>5. a \in Words
    BY <1>4, <2>3, <2>4, Zenon
  <2> QED  BY <1>3, <2>1, <2>4, <2>5, Zenon
<1> QED  BY <1>5, <1>6, <1>7, Zenon DEF Parked, f, m
-----------------------------------------------------------------------------
(* Restore *)

\* restore_interrupt_context brings back the registers of the frame.
LEMMA RestoredFrame ==
  ASSUME NEW m, NEW f, NEW e \in [Regs -> Int], FrameHolds(m, f, e), f \in Int
  PROVE  Restored(m, f) = e
<1>1. ASSUME NEW r \in Regs
      PROVE  m[f + PopSlot[r]] = e[r]
  <2>1. PICK i \in 1 .. 20 : r = TrapFrame[i]
    BY RegsAreWords, Zenon
  <2>2. m[f + i - 1] = e[r]
    BY <2>1, Lengths, Zenon DEF FrameHolds
  <2>3. PopSlot[r] = i - 1
    BY <2>1, PopSlots, Zenon
  <2>4. f + PopSlot[r] = f + i - 1
    BY <2>3
  <2> QED  BY <2>2, <2>4, Zenon
<1>2. Restored(m, f) = [r \in Regs |-> e[r]]
  BY <1>1, Zenon DEF Restored
<1> QED  BY <1>2, Zenon

\* Popping words of a stack, below what a kernel context keeps there.
LEMMA PoppedWords ==
  ASSUME NEW c \in Stacks, NEW m, IsMemory(m), NEW f \in Int, NEW k \in Nat,
         Top(c) - StackSize <= f, f + k <= Top(c)
  PROVE  /\ IsMemory(Popped(m, f, k))
         /\ SameOff(c, m, Popped(m, f, k))
         /\ \A a \in Words : a >= f + k => Popped(m, f, k)[a] = m[a]
<1>1. IsMemory(Popped(m, f, k))
  BY Zenon DEF Popped, IsMemory
<1>2. \A a \in Words : a \notin f .. f + k - 1 => Popped(m, f, k)[a] = m[a]
  BY Zenon DEF Popped, IsMemory
<1>3. \A a \in Words \ Zone(c) : a \notin f .. f + k - 1
  BY EvenTop, Sizes, WordNumbers DEF Zone
<1>4. \A a \in Words : a >= f + k => a \notin f .. f + k - 1
  BY WordNumbers
<1> QED  BY <1>1, <1>2, <1>3, <1>4, Zenon DEF SameOff

\* What is kept above the words that change stays.
LEMMA StackAbove ==
  ASSUME NEW c \in Stacks, NEW m, NEW m2, NEW e, Image(c, e), ~IsUser(c),
         StackHolds(m, c, e),
         \A a \in Words : a >= e["rsp"] => m2[a] = m[a]
  PROVE  StackHolds(m2, c, e)
<1> SUFFICES ASSUME NEW a \in e["rsp"] .. Start(c) - 1
             PROVE  m2[a] = e["rip"]
  BY Zenon DEF StackHolds
<1>1. m[a] = e["rip"]
  BY Zenon DEF StackHolds
<1>2. a \in Int /\ Top(c) - StackSize <= a /\ a < Top(c) /\ a >= e["rsp"]
  BY KernelRsp, EvenTop, Sizes DEF Start
<1>3. a \in Words
  BY <1>2, ZoneIsMemory, Zenon
<1> QED  BY <1>1, <1>2, <1>3, Zenon

\* A context that is alive has registers of its own, and keeps its stack.
LEMMA LiveFits ==
  ASSUME NEW m, NEW st, NEW sv, NEW e, NEW c \in Stacks,
         Settled(m, st, sv, e), c # Main => st[c] \in Live
  PROVE  Image(c, e[c]) /\ (~IsUser(c) => StackHolds(m, c, e[c]))
<1>0. "Running" \in Live
  BY DEF Live
<1>1. CASE c = Main
  BY <1>0, <1>1, Zenon DEF Settled, Fits
<1>2. CASE c # Main
  BY <1>2, Zenon DEF Settled, Fits, Stacks
<1> QED  BY <1>1, <1>2, Zenon

\* Taking a frame off leaves the other stacks, and what is kept above, alone.
LEMMA ParkedPops ==
  ASSUME NEW c \in Stacks, NEW m, NEW f, NEW e, IsMemory(m),
         Image(c, e), Parked(m, c, f, e)
  PROVE  /\ IsMemory(Popped(m, f, Len(TrapFrame)))
         /\ SameOff(c, m, Popped(m, f, Len(TrapFrame)))
         /\ \A a \in Words : a >= f + 20 => Popped(m, f, Len(TrapFrame))[a] = m[a]
<1>1. Placed(c, f, e)
  BY Zenon DEF Parked
<1>2. /\ f \in Int /\ f - HandlerDepth >= Top(c) - StackSize /\ f + 20 <= Top(c)
  BY <1>1, PlacedInZone, Zenon
<1>3. Top(c) - StackSize <= f /\ 20 \in Nat
  BY <1>2, EvenTop, Sizes
<1>4. /\ IsMemory(Popped(m, f, 20))
      /\ SameOff(c, m, Popped(m, f, 20))
      /\ \A a \in Words : a >= f + 20 => Popped(m, f, 20)[a] = m[a]
  BY <1>2, <1>3, PoppedWords, Zenon
<1> QED  BY <1>4, Lengths, Zenon

\* The same, of the other stacks only.
LEMMA PopElsewhere ==
  ASSUME NEW c \in Stacks, NEW m, NEW f, NEW e, IsMemory(m),
         Image(c, e), Parked(m, c, f, e)
  PROVE  SameOff(c, m, Popped(m, f, Len(TrapFrame)))
BY ParkedPops, Zenon

\* A context that goes on from its frame has the registers it expects.
LEMMA ParkedRestores ==
  ASSUME NEW c, NEW m, NEW f, NEW e, Image(c, e), Parked(m, c, f, e)
  PROVE  Restored(m, f) = e
BY RestoredFrame, Zenon DEF Parked, Placed, Image

\* When a context has gone on from its frame, every context finds what it found
\* before.
LEMMA Resume ==
  ASSUME NEW c \in Stacks, NEW m, NEW st, NEW sv, NEW e, NEW st2, NEW f,
         Settled(m, st, sv, e), Runs(c, st, st2), Parked(m, c, f, e[c])
  PROVE  Settled(Popped(m, f, Len(TrapFrame)), st2, sv, e)
<1> DEFINE m2 == Popped(m, f, Len(TrapFrame))
<1>0. "Running" \in Live /\ "Running" \notin Waiting
  BY DEF Live, Waiting
<1>1. Image(c, e[c]) /\ (~IsUser(c) => StackHolds(m, c, e[c]))
  BY LiveFits, Zenon DEF Runs
<1>2. IsMemory(m)
  BY Zenon DEF Settled, Typed
<1>3. /\ f \in Int
      /\ ~IsUser(c) => f + 20 <= e[c]["rsp"]
  BY <1>1, PlacedInZone, Zenon DEF Parked
<1>4. /\ IsMemory(m2)
      /\ SameOff(c, m, m2)
      /\ \A a \in Words : a >= f + 20 => m2[a] = m[a]
  BY <1>1, <1>2, ParkedPops, Zenon
<1> HIDE DEF m2
<1>5. ASSUME ~IsUser(c)
      PROVE  StackHolds(m2, c, e[c])
  <2>1. e[c]["rsp"] \in Int
    BY <1>1, <1>5, KernelRsp, Zenon
  <2>2. \A a \in Words : a >= e[c]["rsp"] => a >= f + 20
    BY <1>3, <1>5, <2>1, WordNumbers
  <2>3. \A a \in Words : a >= e[c]["rsp"] => m2[a] = m[a]
    BY <1>4, <2>2, Zenon
  <2> QED  BY <1>1, <1>5, <2>3, StackAbove, Zenon
<1>6. \A g : Fits(m2, c, "Running", g, e[c])
  BY <1>0, <1>1, <1>5, Zenon DEF Fits
<1>7. c = Main => Fits(m2, Main, "Running", 0, e[Main])
  BY <1>6, Zenon
<1>8. c # Main => Fits(m2, c, st2[c], sv[c], e[c])
  BY <1>6, Zenon DEF Runs
<1>9. Typed(m2, st2, sv, e)
  BY <1>4, Zenon DEF Settled, Typed, Runs
<1>10. OthersSame(c, m, st, sv, e, m2, st2, sv, e)
  BY <1>4, Zenon DEF OthersSame, Runs
<1>11. Settled(m2, st2, sv, e)
  BY <1>7, <1>8, <1>9, <1>10, SettledStep, Zenon
<1> QED  BY <1>11, Zenon DEF m2

-----------------------------------------------------------------------------
(* The end of a handler *)

\* Image of main, in every settled memory.
LEMMA MainImage ==
  ASSUME NEW m, NEW st, NEW sv, NEW e, Settled(m, st, sv, e)
  PROVE  Image(Main, e[Main]) /\ StackHolds(m, Main, e[Main])
<1>1. "Running" \in Live
  BY DEF Live
<1> QED  BY <1>1, MainIsKernel, Zenon DEF Settled, Fits

\* Where main's registers are while a task runs.
LEMMA MainPlace ==
  ASSUME NEW m, NEW st, NEW sv, NEW e, NEW f, NEW en, NEW m1,
         Settled(m, st, sv, e), MainReady(m1, e, f, en)
  PROVE  /\ f \in Int /\ f + 7 = e[Main]["rsp"]
         /\ Top(Main) - StackSize <= f /\ f + 7 < Top(Main)
         /\ f \in Words /\ en \in {0, 1}
<1>1. Image(Main, e[Main])
  BY MainImage, Zenon
<1>2. /\ e[Main]["rsp"] \in Int
      /\ e[Main]["rsp"] <= Top(Main) - 1
      /\ e[Main]["rsp"] >= Top(Main) - 1 - MaxDepth
  BY <1>1, KernelRsp, MainIsKernel, Zenon
<1>3. f = e[Main]["rsp"] - 7 /\ en = e[Main]["rflags"]
  BY Lengths, Zenon DEF MainReady
<1>4. en \in {0, 1}
  BY <1>1, <1>3, Zenon DEF Image
<1>5. /\ f \in Int /\ f + 7 = e[Main]["rsp"]
      /\ Top(Main) - StackSize <= f /\ f + 7 < Top(Main) /\ f < Top(Main)
  BY <1>2, <1>3, MainIsKernel, EvenTop, Sizes
<1>6. f \in Words
  BY <1>5, MainIsKernel, ZoneIsMemory, Zenon
<1> QED  BY <1>4, <1>5, <1>6, Zenon

\* Main's registers stay where they are when another stack is written to.
LEMMA MainElsewhere ==
  ASSUME NEW m, NEW st, NEW sv, NEW e, NEW f, NEW en, NEW m2, NEW c \in Tasks,
         Settled(m, st, sv, e), MainReady(m, e, f, en),
         SameOff(c, m, m2)
  PROVE  MainReady(m2, e, f, en)
<1> SUFFICES ASSUME NEW i \in 1 .. 7
             PROVE  m2[f + i - 1] = e[Main][MainPops[i]]
  BY Lengths, Zenon DEF MainReady, MainHolds
<1>1. m[f + i - 1] = e[Main][MainPops[i]]
  BY Lengths, Zenon DEF MainReady, MainHolds
<1>2. f \in Int /\ Top(Main) - StackSize <= f /\ f + 7 < Top(Main)
  BY MainPlace, Zenon
<1>3. /\ f + i - 1 \in Int /\ Top(Main) - StackSize <= f + i - 1
      /\ f + i - 1 < Top(Main)
  BY <1>2, MainIsKernel, EvenTop, Sizes
<1>4. f + i - 1 \in Words \ Zone(c)
  BY <1>3, MainIsKernel, TaskStacks, ZoneWords, Zenon
<1> QED  BY <1>1, <1>4, Zenon DEF SameOff

\* The scheduler runs another task: from a settled memory, with nobody running,
\* the invariant holds again.
LEMMA SwitchTo ==
  ASSUME NEW t \in Tasks, NEW m, NEW st, NEW sv, NEW e,
         Settled(m, st, sv, e),
         \A u \in Tasks : st[u] # "Running",
         st[t] = "Ready", saved[t] = sv[t],
         MainReady(m, e, main', enable'),
         RunTask(t, m),
         state' = [st EXCEPT ![t] = "Running"],
         saved' = sv, expect' = e
  PROVE  ContextsInv'
<1> DEFINE st2 == [st EXCEPT ![t] = "Running"]
           m2 == Popped(m, sv[t], Len(TrapFrame))
<1>1. t \in Stacks /\ t # Main /\ Main \notin Tasks
  BY TaskStacks, Zenon
<1>2. st \in [Tasks -> States] /\ "Running" \in States
  BY Zenon DEF Settled, Typed, States
<1>3. /\ st2 \in [Tasks -> States]
      /\ \A u \in Tasks : u # t => st2[u] = st[u]
      /\ st2[t] = "Running"
  BY <1>2, Zenon
<1>4. "Ready" \in Live /\ "Ready" \in Waiting
  BY DEF Live, Waiting
<1>5. Parked(m, t, sv[t], e[t])
  BY <1>4, Zenon DEF Settled, Fits
<1>6. /\ mem' = m2 /\ cpu' = Restored(m, sv[t]) /\ current' = t /\ tss' = Top(t)
  BY Zenon DEF RunTask, LoadKernelStackFor
<1> HIDE DEF st2
<1>7. /\ Settled(m2, st2, sv, e)
      /\ Restored(m, sv[t]) = e[t]
      /\ SameOff(t, m, m2)
  <2>1. Runs(t, st, st2)
    BY <1>3, <1>4, Zenon DEF Runs
  <2>2. Image(t, e[t]) /\ IsMemory(m)
    BY <1>1, <1>4, LiveFits, Zenon DEF Settled, Typed
  <2>3. Settled(m2, st2, sv, e)
    BY <1>1, <1>5, <2>1, Resume, Zenon
  <2>4. Restored(m, sv[t]) = e[t]
    BY <1>5, <2>2, ParkedRestores, Zenon
  <2>5. SameOff(t, m, m2)
    BY <1>1, <1>5, <2>2, PopElsewhere, Zenon
  <2> QED  BY <2>3, <2>4, <2>5, Zenon
<1> HIDE DEF m2
<1>8. MainReady(m2, e, main', enable')
  BY <1>7, MainElsewhere, Zenon
<1>9. main' \in Words /\ enable' \in {0, 1}
  BY MainPlace, Zenon
<1>10. \A u \in Tasks : st2[u] = "Running" <=> t = u
  BY <1>3, Zenon
<1>11. state' = st2
  BY Zenon DEF st2
<1> QED  BY <1>1, <1>6, <1>7, <1>8, <1>9, <1>10, <1>11, Zenon DEF ContextsInv

\* A handler returns to the context it interrupted.
LEMMA BackTo ==
  ASSUME ContextsInv, NEW m, NEW sv, NEW e, NEW f,
         Settled(m, state, sv, e),
         Parked(m, current, f, e[current]),
         current # Main => MainReady(m, e, main, enable),
         Return(m, f), saved' = sv, expect' = e
  PROVE  ContextsInv'
<1> DEFINE m2 == Popped(m, f, Len(TrapFrame))
<1>1. /\ mem' = m2 /\ cpu' = Restored(m, f) /\ tss' = tss /\ state' = state
      /\ main' = main /\ enable' = enable /\ current' = current
  BY Zenon DEF Return
<1>2. /\ current \in Stacks
      /\ \A t \in Tasks : state[t] = "Running" <=> current = t
      /\ main \in Words /\ enable \in {0, 1}
      /\ tss \in {0} \cup {Top(t) : t \in Tasks}
      /\ current # Main => tss = Top(current)
  BY Zenon DEF ContextsInv
<1>3. state \in [Tasks -> States] /\ "Running" \in Live
  BY Zenon DEF Settled, Typed, Live
<1>4. current # Main => state[current] \in Live /\ state[current] = "Running"
  BY <1>2, <1>3, Zenon DEF Stacks
<1>5. /\ Settled(m2, state, sv, e)
      /\ Restored(m, f) = e[current]
      /\ SameOff(current, m, m2)
  <2>1. Runs(current, state, state)
    BY <1>3, <1>4, Zenon DEF Runs
  <2>2. Image(current, e[current]) /\ IsMemory(m)
    BY <1>2, <1>4, LiveFits, Zenon DEF Settled, Typed
  <2>3. Settled(m2, state, sv, e)
    BY <1>2, <2>1, Resume, Zenon
  <2>4. Restored(m, f) = e[current]
    BY <2>2, ParkedRestores, Zenon
  <2>5. SameOff(current, m, m2)
    <3>1. current \in Stacks
      BY <1>2, Zenon
    <3> QED  BY <2>2, <3>1, PopElsewhere, Zenon
  <2> QED  BY <2>3, <2>4, <2>5, Zenon
<1> HIDE DEF m2
<1>6. current # Main => MainReady(m2, e, main, enable)
  <2>1. current # Main => current \in Tasks
    BY <1>2, Zenon DEF Stacks
  <2> QED  BY <1>5, <2>1, MainElsewhere, Zenon
<1> QED  BY <1>1, <1>2, <1>5, <1>6, Zenon DEF ContextsInv
\* What an image depends on.
LEMMA SameImage ==
  ASSUME NEW c, NEW e, NEW e2 \in [Regs -> Int], Image(c, e),
         e2["rflags"] = e["rflags"], e2["cs"] = e["cs"], e2["ss"] = e["ss"],
         e2["rsp"] = e["rsp"], e2["rip"] = e["rip"]
  PROVE  Image(c, e2)
BY Zenon DEF Image

\* What is kept on a stack depends on two registers.
LEMMA SameStack ==
  ASSUME NEW c, NEW m, NEW e, NEW e2, StackHolds(m, c, e),
         e2["rsp"] = e["rsp"], e2["rip"] = e["rip"]
  PROVE  StackHolds(m, c, e2)
BY Zenon DEF StackHolds

\* restore_main_context and the end of run() bring back the registers that main
\* relies on.
LEMMA MainRestored ==
  ASSUME NEW m, NEW st, NEW sv, NEW e, Settled(m, st, sv, e),
         MainReady(m, e, main, enable), RestoreMain(m), cpu \in [Regs -> Int]
  PROVE  /\ cpu' \in [Regs -> Int]
         /\ \A r \in Kept : cpu'[r] = e[Main][r]
<1> DEFINE V(r) == CASE r \in DOMAIN MainSlot -> m[main + MainSlot[r]]
                     [] r = "rsp"          -> main + Len(MainPops)
                     [] r = "rflags"       -> enable
                     [] r \in {"cs", "ss"} -> 0
                     [] OTHER              -> cpu[r]
<1>1. cpu' = [r \in Regs |-> V(r)]
  BY DEF RestoreMain
<1>2. ASSUME NEW r \in Regs
      PROVE  /\ r \in DOMAIN MainSlot => V(r) = m[main + MainSlot[r]]
             /\ r \notin DOMAIN MainSlot =>
                  /\ r = "rsp" => V(r) = main + Len(MainPops)
                  /\ r = "rflags" => V(r) = enable
                  /\ r \in {"cs", "ss"} => V(r) = 0
                  /\ r \notin {"rsp", "rflags", "cs", "ss"} => V(r) = cpu[r]
  <2>1. r \in DOMAIN MainSlot => V(r) = m[main + MainSlot[r]]
    BY MainSlots
  <2>2. r \notin DOMAIN MainSlot /\ r = "rsp" => V(r) = main + Len(MainPops)
    OBVIOUS
  <2>3. r \notin DOMAIN MainSlot /\ r = "rflags" => V(r) = enable
    OBVIOUS
  <2>4. r \notin DOMAIN MainSlot /\ r \in {"cs", "ss"} => V(r) = 0
    OBVIOUS
  <2>5. r \notin DOMAIN MainSlot /\ r \notin {"rsp", "rflags", "cs", "ss"} => V(r) = cpu[r]
    OBVIOUS
  <2> QED  BY <2>1, <2>2, <2>3, <2>4, <2>5, Zenon
<1> HIDE DEF V
<1>2a. cpu' = [r \in Regs |-> cpu'[r]] /\ \A r \in Regs : cpu'[r] = V(r)
  BY <1>1
<1>3. /\ main \in Int /\ main + 7 = e[Main]["rsp"] /\ enable = e[Main]["rflags"]
  BY MainPlace, Zenon DEF MainReady
<1>4. Image(Main, e[Main])
  BY MainImage, Zenon
<1>5. e[Main]["cs"] = 0 /\ e[Main]["ss"] = 0
  BY <1>4, MainIsKernel, Zenon DEF Image
<1>6. ASSUME NEW r \in DOMAIN MainSlot
      PROVE  r \in Regs /\ cpu'[r] = e[Main][r]
  <2>1. r \in Regs
    BY MainSlots, NamedRegs, Zenon
  <2>2. PICK i \in 1 .. 7 : r = MainPops[i]
    BY MainSlots DEF MainPops
  <2>3. MainSlot[r] = i - 1
    BY <2>2, MainSlots, Zenon
  <2>4. m[main + i - 1] = e[Main][r]
    BY <2>2, Lengths, Zenon DEF MainReady, MainHolds
  <2>5. main + MainSlot[r] = main + i - 1
    BY <1>3, <2>3
  <2>6. cpu'[r] = m[main + MainSlot[r]]
    BY <1>2, <1>2a, <2>1, Zenon
  <2> QED  BY <2>1, <2>4, <2>5, <2>6, Zenon
<1>7. \A r \in {"rsp", "rflags", "cs", "ss"} : r \notin DOMAIN MainSlot /\ r \in Regs
  BY MainSlots, NamedRegs
<1>8. /\ cpu'["rsp"] = e[Main]["rsp"] /\ cpu'["rflags"] = e[Main]["rflags"]
      /\ cpu'["cs"] = e[Main]["cs"] /\ cpu'["ss"] = e[Main]["ss"]
  <2>1. cpu'["rsp"] = main + Len(MainPops)
    BY <1>2, <1>7, <1>2a, Zenon
  <2>2. cpu'["rflags"] = enable
    BY <1>2, <1>7, <1>2a, Zenon
  <2>3. cpu'["cs"] = 0 /\ cpu'["ss"] = 0
    BY <1>2, <1>7, <1>2a, Zenon
  <2> QED  BY <1>3, <1>5, <2>1, <2>2, <2>3, Lengths, Zenon
<1>9. ASSUME NEW r \in Kept
      PROVE  cpu'[r] = e[Main][r]
  <2>1. r \in DOMAIN MainSlot \/ r \in {"rsp", "rflags", "cs", "ss"}
    BY MainSlots DEF Kept
  <2> QED  BY <1>6, <1>8, <2>1, Zenon
<1>10. ASSUME NEW r \in Regs
       PROVE  cpu'[r] \in Int
  <2>1. CASE r \in DOMAIN MainSlot \/ r \in {"rsp", "rflags", "cs", "ss"}
    BY <1>4, <1>6, <1>8, <2>1, Zenon DEF Image
  <2>2. CASE ~(r \in DOMAIN MainSlot \/ r \in {"rsp", "rflags", "cs", "ss"})
    <3>1. cpu'[r] = cpu[r]
      BY <1>2, <1>2a, <2>2, Zenon
    <3> QED  BY <3>1, Zenon
  <2> QED  BY <2>1, <2>2, Zenon
<1> QED  BY <1>9, <1>10, <1>2a, Zenon

\* No task is left, and run() returns in main.
LEMMA BackToMain ==
  ASSUME NEW m, NEW st, NEW sv, NEW e,
         ContextsInv, Settled(m, st, sv, e),
         \A u \in Tasks : st[u] # "Running",
         MainReady(m, e, main, enable), RestoreMain(m), ExpectLeave(e),
         state' = st, saved' = sv, main' = main, enable' = enable
  PROVE  ContextsInv'
<1> DEFINE m2 == Popped(m, main, 7)
           e2 == [e EXCEPT ![Main] =
                    [r \in Regs |-> IF r \in Kept THEN e[Main][r] ELSE cpu'[r]]]
<1>0. "Running" \in Live /\ "Running" \notin Waiting
  BY DEF Live, Waiting
<1>1. cpu \in [Regs -> Int]
  BY RunningContext, Zenon DEF Image
<1>2. mem' = m2 /\ current' = Main /\ tss' = tss
  BY Lengths, Zenon DEF RestoreMain
<1>3. /\ e \in [Stacks -> [Regs -> Int]] /\ IsMemory(m)
      /\ st \in [Tasks -> States] /\ sv \in [Tasks -> Words]
  BY Zenon DEF Settled, Typed
<1>4. expect' = e2
  BY <1>2, Zenon DEF ExpectLeave
<1>5. cpu' \in [Regs -> Int] /\ \A r \in Kept : cpu'[r] = e[Main][r]
  BY <1>1, MainRestored, Zenon
<1>6. e2[Main] = cpu' /\ e2 \in [Stacks -> [Regs -> Int]]
      /\ \A d \in Stacks : d # Main => e2[d] = e[d]
  <2>1. [r \in Regs |-> IF r \in Kept THEN e[Main][r] ELSE cpu'[r]]
          = [r \in Regs |-> cpu'[r]]
    BY <1>5, Zenon
  <2>2. [r \in Regs |-> cpu'[r]] = cpu'
    BY <1>5, Zenon
  <2> QED  BY <1>3, <1>5, <2>1, <2>2, MainIsKernel, Zenon
<1> HIDE DEF e2
<1>7. Image(Main, e[Main]) /\ StackHolds(m, Main, e[Main])
  BY MainImage, Zenon
<1>8. {"rflags", "cs", "ss", "rsp", "rip"} \subseteq Kept
  BY DEF Kept
<1>9. Image(Main, cpu')
  BY <1>5, <1>7, <1>8, SameImage, Zenon
<1>10. /\ main \in Int /\ main + 7 = e[Main]["rsp"]
       /\ Top(Main) - StackSize <= main /\ main + 7 <= Top(Main)
       /\ main \in Words /\ enable \in {0, 1}
  BY MainPlace, MainIsKernel, EvenTop
<1>11. /\ IsMemory(m2)
       /\ SameOff(Main, m, m2)
       /\ \A a \in Words : a >= e[Main]["rsp"] => m2[a] = m[a]
  <2>1. 7 \in Nat
    OBVIOUS
  <2>2. /\ IsMemory(m2)
        /\ SameOff(Main, m, m2)
        /\ \A a \in Words : a >= main + 7 => m2[a] = m[a]
    <3>1. main \in Int /\ Top(Main) - StackSize <= main /\ main + 7 <= Top(Main)
      BY <1>10, Zenon
    <3> QED  BY <1>3, <2>1, <3>1, MainIsKernel, PoppedWords
  <2> QED  BY <1>10, <2>2, Zenon
<1> HIDE DEF m2
<1>12. StackHolds(m2, Main, cpu')
  <2>1. StackHolds(m2, Main, e[Main])
    BY <1>7, <1>11, MainIsKernel, StackAbove, Zenon
  <2> QED  BY <1>5, <1>8, <2>1, SameStack, Zenon
<1>13. Fits(m2, Main, "Running", 0, e2[Main])
  BY <1>0, <1>6, <1>9, <1>12, Zenon DEF Fits
<1>14. Typed(m2, st, sv, e2)
  BY <1>3, <1>6, <1>11, Zenon DEF Typed
<1>15. OthersSame(Main, m, st, sv, e, m2, st, sv, e2)
  BY <1>6, <1>11, Zenon DEF OthersSame
<1>16. Settled(m2, st, sv, e2)
  BY <1>13, <1>14, <1>15, MainIsKernel, SettledStep, Zenon
<1>17. tss \in {0} \cup {Top(t) : t \in Tasks}
  BY Zenon DEF ContextsInv
<1>18. \A t \in Tasks : st[t] = "Running" <=> Main = t
  BY TaskStacks, Zenon
<1> QED  BY <1>2, <1>4, <1>6, <1>10, <1>16, <1>17, <1>18, MainIsKernel, Zenon
         DEF ContextsInv
\* After the current task has ended or blocked.
LEMMA LeaveStep ==
  ASSUME NEW m, NEW st, NEW sv, NEW e,
         ContextsInv, Settled(m, st, sv, e),
         \A u \in Tasks : st[u] # "Running",
         \A u \in Tasks : st[u] = "Ready" => saved[u] = sv[u],
         MainReady(m, e, main, enable), Leave(m, st), ExpectLeave(e),
         saved' = sv, main' = main, enable' = enable
  PROVE  ContextsInv'
<1> DEFINE ready == {t \in Tasks : st[t] = "Ready"}
<1>1. CASE ready = {}
  <2>1. state' = st /\ RestoreMain(m)
    BY <1>1, Zenon DEF Leave
  <2> QED  BY <2>1, BackToMain, Zenon
<1>2. CASE ready # {}
  <2>1. PICK t \in ready : state' = [st EXCEPT ![t] = "Running"] /\ RunTask(t, m)
    BY <1>2, Zenon DEF Leave
  <2>2. t \in Tasks /\ st[t] = "Ready" /\ saved[t] = sv[t]
    BY <2>1, Zenon
  <2>3. current' = t /\ t # Main
    BY <2>1, <2>2, TaskStacks, Zenon DEF RunTask
  <2>4. expect' = e
    BY <2>3, Zenon DEF ExpectLeave
  <2>5. MainReady(m, e, main', enable')
    BY Zenon
  <2> QED  BY <2>1, <2>2, <2>4, <2>5, SwitchTo, Zenon
<1> QED  BY <1>1, <1>2, Zenon

-----------------------------------------------------------------------------
(* Saved registers that are set *)

\* The results of system calls and the argument of a task.
Patchable == {"rax", "rdi"}

\* A register that is set in a saved frame is set for the context, and nothing
\* else changes.
LEMMA Patched ==
  ASSUME NEW c \in Stacks, NEW m, NEW f, NEW e, IsMemory(m),
         Image(c, e), Parked(m, c, f, e), ~IsUser(c) => StackHolds(m, c, e),
         NEW r \in Patchable, NEW v \in Int
  PROVE  /\ IsMemory(SetField(m, f, r, v))
         /\ SameOff(c, m, SetField(m, f, r, v))
         /\ Image(c, [e EXCEPT ![r] = v])
         /\ Parked(SetField(m, f, r, v), c, f, [e EXCEPT ![r] = v])
         /\ ~IsUser(c) => StackHolds(SetField(m, f, r, v), c, [e EXCEPT ![r] = v])
<1> DEFINE m2 == SetField(m, f, r, v)
           e2 == [e EXCEPT ![r] = v]
<1>1. r \in Regs /\ r \notin {"rflags", "cs", "ss", "rsp", "rip"}
  BY NamedRegs DEF Patchable
<1>2. e \in [Regs -> Int]
  BY Zenon DEF Image
<1>3. e2 \in [Regs -> Int] /\ e2[r] = v /\ \A q \in Regs : q # r => e2[q] = e[q]
  BY <1>1, <1>2, Zenon
<1>4. \A q \in {"rflags", "cs", "ss", "rsp", "rip"} : e2[q] = e[q]
  BY <1>1, <1>3, NamedRegs
<1>5. PICK j \in 1 .. 20 : r = TrapFrame[j]
  BY <1>1, RegsAreWords, Zenon
<1>6. FrameSlot[r] = j - 1
  BY <1>5, FrameSlots, Zenon
<1>7. Placed(c, f, e) /\ FrameHolds(m, f, e)
  BY Zenon DEF Parked
<1>8. /\ f \in Int /\ f - HandlerDepth >= Top(c) - StackSize /\ f + 20 <= Top(c)
      /\ ~IsUser(c) => f + 20 <= e["rsp"]
  BY <1>7, PlacedInZone, Zenon
<1>9. m2 = [m EXCEPT ![f + j - 1] = v]
  <2>1. f + FrameSlot[r] = f + j - 1
    BY <1>6, <1>8
  <2> QED  BY <2>1, Zenon DEF SetField
<1> HIDE DEF m2, e2
<1>10. /\ f + j - 1 \in Int /\ Top(c) - StackSize <= f + j - 1
       /\ f + j - 1 < Top(c) /\ f + j - 1 < f + 20
  BY <1>8, EvenTop, Sizes
<1>11. f + j - 1 \in Words /\ f + j - 1 \in Zone(c)
  <2>1. f + j - 1 \in Words
    BY <1>10, ZoneIsMemory, Zenon
  <2>2. f + j - 1 \in Top(c) - StackSize .. Top(c) - 1
    BY <1>10, EvenTop, Sizes
  <2> QED  BY <2>1, <2>2, Zenon DEF Zone
<1>12. /\ IsMemory(m2) /\ m2[f + j - 1] = v
       /\ \A a \in Words : a # f + j - 1 => m2[a] = m[a]
  BY <1>9, <1>11, Zenon DEF IsMemory
<1>13. Image(c, e2)
  BY <1>3, <1>4, SameImage, Zenon
<1>14. FrameHolds(m2, f, e2)
  <2> SUFFICES ASSUME NEW i \in 1 .. 20
               PROVE  m2[f + i - 1] = e2[TrapFrame[i]]
    BY Lengths, Zenon DEF FrameHolds
  <2>1. CASE i = j
    BY <1>3, <1>5, <1>12, <2>1, Zenon
  <2>2. CASE i # j
    <3>1. TrapFrame[i] \in Regs /\ TrapFrame[i] # r
      BY <1>5, <2>2, FrameSlots, TrapFrameInjective, Zenon
    <3>2. m[f + i - 1] = e[TrapFrame[i]]
      BY <1>7, Lengths, Zenon DEF FrameHolds
    <3>3. /\ f + i - 1 \in Int /\ Top(c) - StackSize <= f + i - 1
          /\ f + i - 1 < Top(c) /\ f + i - 1 # f + j - 1
      BY <1>8, <2>2, EvenTop, Sizes
    <3>4. f + i - 1 \in Words
      BY <3>3, ZoneIsMemory, Zenon
    <3> QED  BY <1>3, <1>12, <3>1, <3>2, <3>3, <3>4, Zenon
  <2> QED  BY <2>1, <2>2, Zenon
<1>15. Placed(c, f, e2)
  BY <1>4, <1>7, Zenon DEF Placed
<1>16. ASSUME ~IsUser(c)
       PROVE  StackHolds(m2, c, e2)
  <2>1. e["rsp"] \in Int
    BY <1>16, KernelRsp, Zenon
  <2>2. \A a \in Words : a >= e["rsp"] => a # f + j - 1
    BY <1>8, <1>10, <1>16, <2>1, WordNumbers
  <2>3. \A a \in Words : a >= e["rsp"] => m2[a] = m[a]
    BY <1>12, <2>2, Zenon
  <2>4. StackHolds(m2, c, e)
    BY <1>16, <2>3, StackAbove, Zenon
  <2> QED  BY <1>4, <2>4, SameStack, Zenon
<1>17. SameOff(c, m, m2)
  BY <1>11, <1>12, Zenon DEF SameOff
<1> QED  BY <1>12, <1>13, <1>14, <1>15, <1>16, <1>17, Zenon DEF Parked, m2, e2
\* A task's saved register is set: every context finds what it expects then.
LEMMA SettledPatched ==
  ASSUME NEW m, NEW st, NEW sv, NEW e, NEW c \in Tasks, NEW f,
         NEW r \in Patchable, NEW v \in Int,
         Settled(m, st, sv, e), st[c] \in Live, Parked(m, c, f, e[c]),
         st[c] \in Waiting => sv[c] = f
  PROVE  /\ Settled(SetField(m, f, r, v), st, sv,
                    [e EXCEPT ![c] = [e[c] EXCEPT ![r] = v]])
         /\ Parked(SetField(m, f, r, v), c, f, [e[c] EXCEPT ![r] = v])
         /\ SameOff(c, m, SetField(m, f, r, v))
<1> DEFINE m2 == SetField(m, f, r, v)
           ec == [e[c] EXCEPT ![r] = v]
           e2 == [e EXCEPT ![c] = ec]
<1>1. c \in Stacks /\ c # Main
  BY TaskStacks, Zenon
<1>2. Image(c, e[c]) /\ (~IsUser(c) => StackHolds(m, c, e[c])) /\ IsMemory(m)
  BY <1>1, LiveFits, Zenon DEF Settled, Typed
<1>3. /\ IsMemory(m2)
      /\ SameOff(c, m, m2)
      /\ Image(c, ec)
      /\ Parked(m2, c, f, ec)
      /\ ~IsUser(c) => StackHolds(m2, c, ec)
  BY <1>1, <1>2, Patched, Zenon
<1> HIDE DEF m2, ec
<1>4. /\ e \in [Stacks -> [Regs -> Int]] /\ st \in [Tasks -> States]
      /\ sv \in [Tasks -> Words]
  BY Zenon DEF Settled, Typed
<1>5. /\ e2 \in [Stacks -> [Regs -> Int]] /\ e2[c] = ec
      /\ \A d \in Stacks : d # c => e2[d] = e[d]
  BY <1>1, <1>3, <1>4, Zenon DEF Image
<1> HIDE DEF e2
<1>6. Fits(m2, c, st[c], sv[c], e2[c])
  BY <1>3, <1>5, Zenon DEF Fits
<1>7. Typed(m2, st, sv, e2)
  BY <1>3, <1>4, <1>5, Zenon DEF Typed
<1>8. OthersSame(c, m, st, sv, e, m2, st, sv, e2)
  BY <1>3, <1>5, Zenon DEF OthersSame
<1>9. Settled(m2, st, sv, e2)
  BY <1>1, <1>6, <1>7, <1>8, SettledStep, Zenon
<1>10. SameOff(c, m, m2)
  BY <1>3, Zenon DEF SameOff
<1> QED  BY <1>3, <1>9, <1>10, Zenon DEF m2, ec, e2

-----------------------------------------------------------------------------
(* Interrupts *)

\* Main's registers do not depend on what the tasks expect.
LEMMA MainSame ==
  ASSUME NEW m, NEW e, NEW e2, NEW f, NEW en,
         MainReady(m, e, f, en), e2[Main] = e[Main]
  PROVE  MainReady(m, e2, f, en)
BY Zenon DEF MainReady

\* Main's registers stay when one is set in the saved frame of a task.
LEMMA PatchedMain ==
  ASSUME NEW m, NEW st, NEW sv, NEW e, NEW c \in Tasks, NEW f,
         NEW r \in Patchable, NEW v \in Int,
         Settled(m, st, sv, e), st[c] \in Live, Parked(m, c, f, e[c]),
         st[c] \in Waiting => sv[c] = f,
         NEW g, NEW en, MainReady(m, e, g, en)
  PROVE  MainReady(SetField(m, f, r, v), [e EXCEPT ![c] = [e[c] EXCEPT ![r] = v]], g, en)
<1> DEFINE m2 == SetField(m, f, r, v)
           e2 == [e EXCEPT ![c] = [e[c] EXCEPT ![r] = v]]
<1>1. SameOff(c, m, m2)
  BY SettledPatched, Zenon
<1>2. c # Main /\ Main \in Stacks /\ e \in [Stacks -> [Regs -> Int]]
  BY TaskStacks, MainIsKernel, Zenon DEF Settled, Typed
<1>3. e2[Main] = e[Main]
  BY <1>2, Zenon
<1> HIDE DEF m2, e2
<1>4. MainReady(m2, e, g, en)
  BY <1>1, MainElsewhere, Zenon
<1>5. MainReady(m2, e2, g, en)
  BY <1>3, <1>4, MainSame, Zenon
<1> QED  BY <1>5, Zenon DEF m2, e2

\* The frame that an entry leaves is in the memory.
LEMMA FrameInMemory ==
  ASSUME ContextsInv, NEW error \in BOOLEAN, error => IsUser(current)
  PROVE  FrameRsp(error) \in Words
<1> DEFINE f == FrameRsp(error)
<1>1. /\ f \in Int /\ f % 2 \in {0, 1}
      /\ f = EntryBase - (IF error THEN 21 ELSE 20)
      /\ (f - (f % 2)) - HandlerDepth >= Top(current) - StackSize
      /\ EntryBase <= Top(current)
  BY EntryRoom, Zenon
<1>2. current \in Stacks /\ EntryBase \in Int /\ Top(current) \in Nat
  BY RunningContext, EntryPlace, EvenTop, Zenon
<1> HIDE DEF f
<1>3. Top(current) - StackSize <= f /\ f < Top(current)
  BY <1>1, <1>2, Sizes
<1>4. f \in Words
  BY <1>1, <1>2, <1>3, ZoneIsMemory, Zenon
<1> QED  BY <1>4, Zenon DEF f

\* What the scheduler may note of the task that was interrupted, with frame f.
Noted(st, sv, f) ==
  /\ st \in [Tasks -> States] /\ sv \in [Tasks -> Words]
  /\ \A t \in Tasks : t # current => st[t] = state[t] /\ sv[t] = saved[t]
  /\ current # Main => st[current] \in Live
  /\ current # Main /\ st[current] \in Waiting => sv[current] = f

\* After an entry every context finds what it expects, whatever the scheduler
\* notes of the task that it interrupted.
LEMMA Interrupted ==
  ASSUME ContextsInv, NEW st, NEW sv, Noted(st, sv, FrameRsp(FALSE))
  PROVE  Settled(Entered(FALSE), st, sv, expect)
<1> DEFINE m == Entered(FALSE)
           c == current
<1>1. c \in Stacks /\ cpu = expect[c] /\ Image(c, cpu)
  BY RunningContext, Zenon
<1>2. IsMemory(m) /\ SameOff(c, mem, m)
  BY EnteredElsewhere, Zenon
<1>3. /\ Parked(m, c, FrameRsp(FALSE), cpu)
      /\ ~IsUser(c) => StackHolds(m, c, cpu)
  BY EnteredFrame, Zenon
<1> HIDE DEF m
<1>4. Settled(mem, state, saved, expect) /\ expect \in [Stacks -> [Regs -> Int]]
  BY Zenon DEF ContextsInv, Settled, Typed
<1>5. Typed(m, st, sv, expect)
  BY <1>2, <1>4, Zenon DEF Typed, Noted
<1>6. OthersSame(c, mem, state, saved, expect, m, st, sv, expect)
  BY <1>2, Zenon DEF OthersSame, Noted
<1>7. "Running" \notin Waiting
  BY DEF Waiting
<1>8. c = Main => Fits(m, Main, "Running", 0, expect[Main])
  BY <1>1, <1>3, <1>7, Zenon DEF Fits
<1>9. c # Main => Fits(m, c, st[c], sv[c], expect[c])
  BY <1>1, <1>3, Zenon DEF Fits, Noted
<1>10. Settled(m, st, sv, expect)
  BY <1>1, <1>4, <1>5, <1>6, <1>8, <1>9, SettledStep, Zenon
<1> QED  BY <1>10, Zenon DEF m

\* An entry on the stack of a task leaves main's registers alone.
LEMMA EnteredMain ==
  ASSUME ContextsInv, NEW error \in BOOLEAN, error => IsUser(current), current # Main
  PROVE  MainReady(Entered(error), expect, main, enable)
<1>1. current \in Tasks
  BY RunningContext, Zenon DEF Stacks
<1>2. SameOff(current, mem, Entered(error))
  BY EnteredElsewhere, Zenon
<1>3. Settled(mem, state, saved, expect) /\ MainReady(mem, expect, main, enable)
  BY Zenon DEF ContextsInv
<1> QED  BY <1>1, <1>2, <1>3, MainElsewhere, Zenon

\* The state of the running task, and what may be noted of it.
LEMMA NotedStates ==
  ASSUME ContextsInv, NEW f \in Words
  PROVE  /\ Noted(state, saved, f)
         /\ Noted(state, [saved EXCEPT ![current] = f], f)
         /\ \A s \in Live :
              Noted([state EXCEPT ![current] = s], [saved EXCEPT ![current] = f], f)
<1>1. state \in [Tasks -> States] /\ saved \in [Tasks -> Words]
  BY Zenon DEF ContextsInv, Settled, Typed
<1>2. current # Main => current \in Tasks /\ state[current] = "Running"
  BY Zenon DEF ContextsInv, Stacks
<1>3. "Running" \in Live /\ "Running" \notin Waiting /\ Live \subseteq States
  BY DEF Live, Waiting, States
<1>4. Noted(state, saved, f)
  BY <1>1, <1>2, <1>3, Zenon DEF Noted
<1>5. /\ [saved EXCEPT ![current] = f] \in [Tasks -> Words]
      /\ \A t \in Tasks : t # current => [saved EXCEPT ![current] = f][t] = saved[t]
      /\ current # Main => [saved EXCEPT ![current] = f][current] = f
  BY <1>1, <1>2, Zenon
<1>6. Noted(state, [saved EXCEPT ![current] = f], f)
  BY <1>1, <1>2, <1>3, <1>5, Zenon DEF Noted
<1>7. ASSUME NEW s \in Live
      PROVE  Noted([state EXCEPT ![current] = s], [saved EXCEPT ![current] = f], f)
  <2>1. /\ [state EXCEPT ![current] = s] \in [Tasks -> States]
        /\ \A t \in Tasks : t # current => [state EXCEPT ![current] = s][t] = state[t]
        /\ current # Main => [state EXCEPT ![current] = s][current] = s
    BY <1>1, <1>2, <1>3, Zenon
  <2> QED  BY <1>5, <2>1, Zenon DEF Noted
<1> QED  BY <1>4, <1>6, <1>7, Zenon

\* switch_from_interrupt keeps the invariant, whatever was set in the frame.
LEMMA SwitchStep ==
  ASSUME ContextsInv, NEW m, NEW e, NEW f \in Words,
         Parked(m, current, f, e[current]),
         \A st, sv : Noted(st, sv, f) => Settled(m, st, sv, e),
         current # Main => MainReady(m, e, main, enable),
         SwitchFromInterrupt(m, f), expect' = e
  PROVE  ContextsInv'
<1> DEFINE sv == [saved EXCEPT ![current] = f]
<1>1. Settled(m, state, saved, e) /\ Settled(m, state, sv, e)
  BY NotedStates, Zenon
<1>2. CASE current = Main
  <2>1. Return(m, f) /\ saved' = saved
    BY <1>2, Zenon DEF SwitchFromInterrupt
  <2> QED  BY <1>1, <2>1, BackTo, Zenon
<1>3. CASE current # Main /\ Ready = {}
  <2>1. Return(m, f) /\ saved' = sv
    BY <1>3, Zenon DEF SwitchFromInterrupt
  <2> QED  BY <1>1, <2>1, BackTo, Zenon
<1>4. CASE current # Main /\ Ready # {}
  <2>1. PICK t \in Ready :
          /\ state' = [state EXCEPT ![current] = "Ready", ![t] = "Running"]
          /\ RunTask(t, m)
    BY <1>4, Zenon DEF SwitchFromInterrupt
  <2>2. saved' = sv /\ main' = main /\ enable' = enable
    BY <1>4, Zenon DEF SwitchFromInterrupt
  <2>3. t \in Tasks /\ state[t] = "Ready"
    BY Zenon DEF Ready
  <2>4. /\ \A u \in Tasks : state[u] = "Running" <=> current = u
        /\ current \in Tasks
        /\ state \in [Tasks -> States] /\ saved \in [Tasks -> Words]
    BY <1>4, Zenon DEF ContextsInv, Stacks, Settled, Typed
  <2>5. t # current
    BY <2>3, <2>4
  <2> DEFINE st == [state EXCEPT ![current] = "Ready"]
  <2>6. "Ready" \in Live
    BY DEF Live
  <2>7. Settled(m, st, sv, e)
    BY <2>6, NotedStates, Zenon
  <2>8. \A u \in Tasks : st[u] # "Running"
    BY <2>4
  <2>9. st[t] = "Ready" /\ saved[t] = sv[t]
    BY <2>3, <2>4, <2>5, Zenon
  <2>10. state' = [st EXCEPT ![t] = "Running"]
    BY <2>1, Zenon
  <2>11. MainReady(m, e, main', enable')
    BY <1>4, <2>2, Zenon
  <2> HIDE DEF st, sv
  <2> QED  BY <2>1, <2>2, <2>3, <2>7, <2>8, <2>9, <2>10, <2>11, SwitchTo, Zenon
<1> QED  BY <1>2, <1>3, <1>4, Zenon

\* The frame of an entry and what it parks.
LEMMA EntryParks ==
  ASSUME ContextsInv
  PROVE  /\ FrameRsp(FALSE) \in Words
         /\ Parked(Entered(FALSE), current, FrameRsp(FALSE), expect[current])
         /\ \A st, sv : Noted(st, sv, FrameRsp(FALSE)) =>
              Settled(Entered(FALSE), st, sv, expect)
         /\ current # Main => MainReady(Entered(FALSE), expect, main, enable)
<1>1. FrameRsp(FALSE) \in Words
  BY FrameInMemory, Zenon
<1>2. Parked(Entered(FALSE), current, FrameRsp(FALSE), expect[current])
  BY EnteredFrame, RunningContext, Zenon
<1>3. ASSUME NEW st, NEW sv, Noted(st, sv, FrameRsp(FALSE))
      PROVE  Settled(Entered(FALSE), st, sv, expect)
  BY <1>3, Interrupted, Zenon
<1>4. current # Main => MainReady(Entered(FALSE), expect, main, enable)
  BY EnteredMain, Zenon
<1> QED  BY <1>1, <1>2, <1>3, <1>4, Zenon

\* The timer keeps the invariant, with preemption and without.
LEMMA TimerStep == ContextsInv /\ Timer => ContextsInv'
<1> SUFFICES ASSUME ContextsInv, Timer
             PROVE  ContextsInv'
  OBVIOUS
<1>1. expect' = expect
  BY Zenon DEF Timer
<1>2. CASE SwitchFromInterrupt(Entered(FALSE), FrameRsp(FALSE))
  BY <1>1, <1>2, EntryParks, SwitchStep, Zenon
<1>3. CASE Return(Entered(FALSE), FrameRsp(FALSE)) /\ saved' = saved
  <2>1. Settled(Entered(FALSE), state, saved, expect)
    BY EntryParks, NotedStates, Zenon
  <2> QED  BY <1>1, <1>3, <2>1, EntryParks, BackTo, Zenon
<1> QED  BY <1>2, <1>3, Zenon DEF Timer

\* yield_now keeps the invariant.
LEMMA YieldStep == ContextsInv /\ Yield => ContextsInv'
<1> SUFFICES ASSUME ContextsInv, Yield
             PROVE  ContextsInv'
  OBVIOUS
<1>1. expect' = expect /\ SwitchFromInterrupt(Entered(FALSE), FrameRsp(FALSE))
  BY Zenon DEF Yield
<1> QED  BY <1>1, EntryParks, SwitchStep, Zenon
\* A system call that sets its result in the frame of its caller.
LEMMA ResultParks ==
  ASSUME ContextsInv, IsUser(current), NEW v \in Int,
         NEW m, m = SetField(Entered(FALSE), FrameRsp(FALSE), "rax", v),
         NEW e, e = [expect EXCEPT ![current]["rax"] = v]
  PROVE  /\ Parked(m, current, FrameRsp(FALSE), e[current])
         /\ \A st, sv : Noted(st, sv, FrameRsp(FALSE)) => Settled(m, st, sv, e)
         /\ MainReady(m, e, main, enable)
<1> DEFINE m1 == Entered(FALSE)
           f == FrameRsp(FALSE)
           ec == [expect[current] EXCEPT !["rax"] = v]
<1>1. /\ current \in Tasks /\ current \in Stacks /\ current # Main
      /\ Main \in Stacks
  BY RunningContext, TaskStacks, MainIsKernel, Zenon
<1>2. "rax" \in Patchable
  BY DEF Patchable
<1>3. e = [expect EXCEPT ![current] = ec]
  BY Zenon
<1>4. expect \in [Stacks -> [Regs -> Int]]
  BY Zenon DEF ContextsInv, Settled, Typed
<1>5. e[current] = ec /\ e[Main] = expect[Main]
  BY <1>1, <1>3, <1>4, Zenon
<1>6. /\ Parked(m1, current, f, expect[current])
      /\ \A st, sv : Noted(st, sv, f) => Settled(m1, st, sv, expect)
      /\ MainReady(m1, expect, main, enable)
      /\ f \in Words
  BY <1>1, EntryParks, Zenon
<1>7. m = SetField(m1, f, "rax", v)
  BY Zenon
<1> HIDE DEF m1, f, ec
<1>8. ASSUME NEW st, NEW sv, Noted(st, sv, f)
      PROVE  /\ Settled(m1, st, sv, expect)
             /\ st[current] \in Live /\ (st[current] \in Waiting => sv[current] = f)
  BY <1>1, <1>6, <1>8, Zenon DEF Noted
<1>9. ASSUME NEW st, NEW sv, Noted(st, sv, f)
      PROVE  Settled(m, st, sv, e)
  <2>1. Settled(SetField(m1, f, "rax", v), st, sv,
                [expect EXCEPT ![current] = [expect[current] EXCEPT !["rax"] = v]])
    BY <1>1, <1>2, <1>6, <1>8, <1>9, SettledPatched, Zenon
  <2> QED  BY <1>3, <1>7, <2>1, Zenon DEF ec
<1>10. Noted(state, saved, f)
  BY <1>6, NotedStates, Zenon
<1>11. Parked(m, current, f, ec)
  <2>1. Parked(SetField(m1, f, "rax", v), current, f,
               [expect[current] EXCEPT !["rax"] = v])
    BY <1>1, <1>2, <1>6, <1>8, <1>10, SettledPatched, Zenon
  <2> QED  BY <1>7, <2>1, Zenon DEF ec
<1>12. MainReady(m, e, main, enable)
  <2>1. MainReady(SetField(m1, f, "rax", v),
                  [expect EXCEPT ![current] = [expect[current] EXCEPT !["rax"] = v]],
                  main, enable)
    BY <1>1, <1>2, <1>6, <1>8, <1>10, PatchedMain, Zenon
  <2> QED  BY <1>3, <1>7, <2>1, Zenon DEF ec
<1> QED  BY <1>5, <1>9, <1>11, <1>12, Zenon DEF f

\* A system call that only returns a value keeps the invariant.
LEMMA SyscallStep ==
  ASSUME ContextsInv, NEW value \in Int, Syscall(value)
  PROVE  ContextsInv'
<1> DEFINE m == SetField(Entered(FALSE), FrameRsp(FALSE), "rax", value)
           e == [expect EXCEPT ![current]["rax"] = value]
<1>1. IsUser(current) /\ Return(m, FrameRsp(FALSE)) /\ expect' = e /\ saved' = saved
  BY Zenon DEF Syscall
<1>2. /\ Parked(m, current, FrameRsp(FALSE), e[current])
      /\ \A st, sv : Noted(st, sv, FrameRsp(FALSE)) => Settled(m, st, sv, e)
      /\ MainReady(m, e, main, enable)
  BY <1>1, ResultParks, Zenon
<1> HIDE DEF m, e
<1>3. Settled(m, state, saved, e)
  BY <1>2, EntryParks, NotedStates, Zenon
<1> QED  BY <1>1, <1>2, <1>3, BackTo, Zenon

\* The yield call keeps the invariant.
LEMMA SyscallYieldStep == ContextsInv /\ SyscallYield => ContextsInv'
<1> SUFFICES ASSUME ContextsInv, SyscallYield
             PROVE  ContextsInv'
  OBVIOUS
<1> DEFINE m == SetField(Entered(FALSE), FrameRsp(FALSE), "rax", 0)
           e == [expect EXCEPT ![current]["rax"] = 0]
<1>0. 0 \in Int
  OBVIOUS
<1>1. /\ IsUser(current) /\ SwitchFromInterrupt(m, FrameRsp(FALSE)) /\ expect' = e
  BY Zenon DEF SyscallYield
<1>2. /\ Parked(m, current, FrameRsp(FALSE), e[current])
      /\ \A st, sv : Noted(st, sv, FrameRsp(FALSE)) => Settled(m, st, sv, e)
      /\ MainReady(m, e, main, enable)
  BY <1>0, <1>1, ResultParks, Zenon
<1> HIDE DEF m, e
<1> QED  BY <1>1, <1>2, EntryParks, SwitchStep, Zenon

\* waitpid keeps the invariant: it returns the child's pid, or puts the caller to
\* sleep with its whole frame saved.
LEMMA WaitPidStep ==
  ASSUME ContextsInv, NEW child \in UserTasks, WaitPid(child)
  PROVE  ContextsInv'
<1> DEFINE f == FrameRsp(FALSE)
           m1 == Entered(FALSE)
           sv == [saved EXCEPT ![current] = f]
           m == SetField(m1, f, "rax", Pid(child))
           e == [expect EXCEPT ![current]["rax"] = Pid(child)]
<1>1. IsUser(current) /\ saved' = sv
  BY Zenon DEF WaitPid
<1>2. /\ current \in Tasks /\ current \in Stacks /\ current # Main
  BY <1>1, RunningContext, TaskStacks, Zenon
<1>3. CASE state[child] \in {"Finished", "Failed"}
  <2>1. Return(m, f) /\ expect' = e
    BY <1>3, Zenon DEF WaitPid
  <2>2. Pid(child) \in Int
    BY StackNumbers DEF Pid, Stacks, Tasks
  <2>3. /\ Parked(m, current, f, e[current])
        /\ \A st, sw : Noted(st, sw, f) => Settled(m, st, sw, e)
        /\ MainReady(m, e, main, enable)
    BY <1>1, <2>2, ResultParks, Zenon
  <2> HIDE DEF m, e
  <2>4. Settled(m, state, sv, e)
    BY <2>3, EntryParks, NotedStates, Zenon
  <2> QED  BY <1>1, <2>1, <2>3, <2>4, BackTo, Zenon
<1>4. CASE ~(state[child] \in {"Finished", "Failed"})
  <2> DEFINE st == [state EXCEPT ![current] = "Blocked"]
  <2>1. Leave(m1, st) /\ ExpectLeave(expect) /\ main' = main /\ enable' = enable
    BY <1>4, Zenon DEF WaitPid
  <2>2. "Blocked" \in Live
    BY DEF Live
  <2>3. Settled(m1, st, sv, expect) /\ MainReady(m1, expect, main, enable)
    BY <1>2, <2>2, EntryParks, NotedStates, Zenon
  <2>4. /\ \A u \in Tasks : state[u] = "Running" <=> current = u
        /\ state \in [Tasks -> States] /\ saved \in [Tasks -> Words]
    BY Zenon DEF ContextsInv, Settled, Typed
  <2>5. \A u \in Tasks : st[u] # "Running"
    BY <1>2, <2>4
  <2>6. \A u \in Tasks : st[u] = "Ready" => saved[u] = sv[u]
    BY <1>2, <2>4
  <2> HIDE DEF st, sv, m1
  <2> QED  BY <1>1, <2>1, <2>3, <2>5, <2>6, LeaveStep, Zenon
<1> QED  BY <1>3, <1>4, Zenon
-----------------------------------------------------------------------------
(* The end of a task *)

\* A task that has ended needs its stack no more.
LEMMA Buried ==
  ASSUME NEW m, NEW st, NEW sv, NEW e, NEW t \in Tasks,
         Settled(m, st, sv, e), st[t] \notin Live
  PROVE  /\ Settled(Dead(m, t), st, sv, e)
         /\ SameOff(t, m, Dead(m, t))
<1> DEFINE m2 == Dead(m, t)
<1>1. t \in Stacks /\ t # Main
  BY TaskStacks, Zenon
<1>2. /\ IsMemory(m) /\ st \in [Tasks -> States] /\ sv \in [Tasks -> Words]
      /\ e \in [Stacks -> [Regs -> Int]]
  BY Zenon DEF Settled, Typed
<1>3. /\ Top(t) - StackSize \in Int /\ StackSize \in Nat
      /\ Top(t) - StackSize <= Top(t) - StackSize
      /\ (Top(t) - StackSize) + StackSize <= Top(t)
  BY <1>1, EvenTop, Sizes
<1>4. IsMemory(m2) /\ SameOff(t, m, m2)
  <2> DEFINE low == Top(t) - StackSize
  <2>1. m2 = Popped(m, low, StackSize) /\ Top(t) - StackSize <= low
    BY <1>3, Zenon DEF Dead
  <2> HIDE DEF low
  <2>2. low \in Int /\ StackSize \in Nat /\ low + StackSize <= Top(t)
    BY <1>3, Zenon DEF low
  <2>3. IsMemory(Popped(m, low, StackSize))
    BY <1>1, <1>2, <2>1, <2>2, PoppedWords, Zenon
  <2>4. SameOff(t, m, Popped(m, low, StackSize))
    BY <1>1, <1>2, <2>1, <2>2, PoppedWords, Zenon
  <2> QED  BY <2>1, <2>3, <2>4, Zenon
<1> HIDE DEF m2
<1>5. Typed(m2, st, sv, e)
  BY <1>2, <1>4, Zenon DEF Typed
<1>6. OthersSame(t, m, st, sv, e, m2, st, sv, e)
  BY <1>4, Zenon DEF OthersSame, SameOff
<1>7. Fits(m2, t, st[t], sv[t], e[t])
  BY Zenon DEF Fits
<1>8. Settled(m2, st, sv, e)
  BY <1>1, <1>5, <1>6, <1>7, SettledStep, Zenon
<1> QED  BY <1>4, <1>8, Zenon DEF m2

\* A task that is woken keeps its frame.
LEMMA Awake ==
  ASSUME NEW m, NEW st, NEW sv, NEW e, NEW p \in Tasks,
         Settled(m, st, sv, e), st[p] \in Waiting
  PROVE  Settled(m, [st EXCEPT ![p] = "Ready"], sv, e)
<1> DEFINE st2 == [st EXCEPT ![p] = "Ready"]
<1>1. p \in Stacks /\ p # Main
  BY TaskStacks, Zenon
<1>2. /\ IsMemory(m) /\ st \in [Tasks -> States] /\ sv \in [Tasks -> Words]
      /\ e \in [Stacks -> [Regs -> Int]]
  BY Zenon DEF Settled, Typed
<1>3. "Ready" \in States /\ "Ready" \in Live /\ Waiting \subseteq Live
  BY DEF States, Live, Waiting
<1>4. st2 \in [Tasks -> States] /\ st2[p] = "Ready" /\ \A t \in Tasks : t # p => st2[t] = st[t]
  BY <1>2, <1>3, Zenon
<1> HIDE DEF st2
<1>5. Typed(m, st2, sv, e)
  BY <1>2, <1>4, Zenon DEF Typed
<1>6. OthersSame(p, m, st, sv, e, m, st2, sv, e)
  BY <1>4, Zenon DEF OthersSame, SameOff
<1>7. Fits(m, p, st2[p], sv[p], e[p])
  BY <1>3, <1>4, Zenon DEF Settled, Fits
<1>8. Settled(m, st2, sv, e)
  BY <1>1, <1>5, <1>6, <1>7, SettledStep, Zenon
<1> QED  BY <1>8, Zenon DEF st2

\* A task that ends, after the entry of its exit or fault, is out of the way of
\* all others.
LEMMA Ended ==
  ASSUME ContextsInv, current \in Tasks, NEW m, NEW sv, NEW final \in {"Finished", "Failed"},
         IsMemory(m), SameOff(current, mem, m),
         sv \in [Tasks -> Words], \A t \in Tasks : t # current => sv[t] = saved[t]
  PROVE  Settled(m, [state EXCEPT ![current] = final], sv,
                 [expect EXCEPT ![current] = Nothing])
<1> DEFINE st2 == [state EXCEPT ![current] = final]
           e2 == [expect EXCEPT ![current] = Nothing]
<1>1. current \in Stacks /\ current # Main
  BY TaskStacks, Zenon
<1>2. /\ Settled(mem, state, saved, expect) /\ state \in [Tasks -> States]
      /\ expect \in [Stacks -> [Regs -> Int]]
  BY Zenon DEF ContextsInv, Settled, Typed
<1>3. final \in States /\ final \notin Live
  BY DEF States, Live
<1>4. Nothing \in [Regs -> Int]
  BY DEF Nothing, Junk
<1>5. /\ st2 \in [Tasks -> States] /\ st2[current] = final
      /\ \A t \in Tasks : t # current => st2[t] = state[t]
  BY <1>2, <1>3, Zenon
<1>6. /\ e2 \in [Stacks -> [Regs -> Int]]
      /\ \A d \in Stacks : d # current => e2[d] = expect[d]
  BY <1>1, <1>2, <1>4, Zenon
<1> HIDE DEF st2, e2
<1>7. Typed(m, st2, sv, e2)
  BY <1>5, <1>6, Zenon DEF Typed
<1>8. OthersSame(current, mem, state, saved, expect, m, st2, sv, e2)
  BY <1>5, <1>6, Zenon DEF OthersSame, SameOff
<1>9. Fits(m, current, st2[current], sv[current], e2[current])
  BY <1>3, <1>5, Zenon DEF Fits
<1>10. Settled(m, st2, sv, e2)
  BY <1>1, <1>2, <1>7, <1>8, <1>9, SettledStep, Zenon
<1> QED  BY <1>10, Zenon DEF st2, e2

\* finish_current_task keeps the invariant.
LEMMA FinishKernelTaskStep == ContextsInv /\ FinishKernelTask => ContextsInv'
<1> SUFFICES ASSUME ContextsInv, FinishKernelTask
             PROVE  ContextsInv'
  OBVIOUS
<1> DEFINE st == [state EXCEPT ![current] = "Finished"]
           e == [expect EXCEPT ![current] = Nothing]
           m == Dead(mem, current)
<1>1. /\ current \in Tasks /\ Leave(m, st) /\ ExpectLeave(e)
      /\ saved' = saved /\ main' = main /\ enable' = enable
  BY Zenon DEF FinishKernelTask, Tasks
<1>2. /\ \A u \in Tasks : state[u] = "Running" <=> current = u
      /\ state \in [Tasks -> States] /\ saved \in [Tasks -> Words] /\ IsMemory(mem)
      /\ expect \in [Stacks -> [Regs -> Int]]
      /\ Settled(mem, state, saved, expect)
  BY Zenon DEF ContextsInv, Settled, Typed
<1>3. Settled(mem, st, saved, e)
  <2>1. "Finished" \in {"Finished", "Failed"}
    OBVIOUS
  <2>2. SameOff(current, mem, mem)
    BY Zenon DEF SameOff
  <2> QED  BY <1>1, <1>2, <2>1, <2>2, Ended, Zenon
<1>4. st[current] \notin Live
  BY <1>1, <1>2 DEF Live
<1>5. Settled(m, st, saved, e) /\ SameOff(current, mem, m)
  BY <1>1, <1>3, <1>4, Buried, Zenon
<1>6. MainReady(m, e, main, enable)
  <2>1. current # Main /\ Main \in Stacks
    BY <1>1, TaskStacks, MainIsKernel, Zenon
  <2>2. MainReady(mem, expect, main, enable) /\ e[Main] = expect[Main]
    BY <1>2, <2>1, Zenon DEF ContextsInv
  <2>3. MainReady(m, expect, main, enable)
    BY <1>1, <1>2, <1>5, <2>2, MainElsewhere, Zenon
  <2> QED  BY <2>2, <2>3, MainSame, Zenon
<1>7. \A u \in Tasks : st[u] # "Running"
  BY <1>1, <1>2
<1> HIDE DEF st, e, m
<1> QED  BY <1>1, <1>5, <1>6, <1>7, LeaveStep, Zenon
\* The parent that waits for a task that ends.
Woken(t) == Parent[t] # 0 /\ state[Parent[t]] = "Blocked"

\* wake_parent_waiting_for: a task t has ended (its state is final, nothing is
\* expected of it), and the result is put in the saved frame of its parent, which
\* is ready from then on.
LEMMA Wakes ==
  ASSUME NEW m, NEW st, NEW sv, NEW e, NEW t \in UserTasks, NEW g, NEW en,
         Settled(m, st, sv, e), MainReady(m, e, g, en), Woken(t),
         Parent[t] # t, Parent[t] \in Tasks,
         st[Parent[t]] = "Blocked", sv[Parent[t]] = saved[Parent[t]]
  PROVE  /\ Settled(WakeParent(m, t), [st EXCEPT ![Parent[t]] = "Ready"], sv,
                    [e EXCEPT ![Parent[t]] = [e[Parent[t]] EXCEPT !["rax"] = Pid(t)]])
         /\ MainReady(WakeParent(m, t),
                      [e EXCEPT ![Parent[t]] = [e[Parent[t]] EXCEPT !["rax"] = Pid(t)]],
                      g, en)
<1> DEFINE p == Parent[t]
           f == saved[p]
           v == Pid(t)
           m2 == SetField(m, f, "rax", v)
           e2 == [e EXCEPT ![p] = [e[p] EXCEPT !["rax"] = v]]
<1>1. WakeParent(m, t) = m2
  BY Zenon DEF WakeParent, Woken
<1>2. v \in Int
  <2>1. t \in Tasks
    BY Zenon DEF Tasks
  <2>2. t \in Nat
    BY <2>1, TaskStacks, StackNumbers, Zenon
  <2> QED  BY <2>2 DEF Pid
<1>3. "Blocked" \in Live /\ "Blocked" \in Waiting /\ "rax" \in Patchable
  BY DEF Live, Waiting, Patchable
<1>4. p \in Tasks /\ st[p] = "Blocked" /\ sv[p] = f
  BY Zenon
<1> HIDE DEF v, f, p
<1>5. p \in Stacks /\ p # Main
  BY <1>4, TaskStacks, Zenon
<1>6. Fits(m, p, st[p], sv[p], e[p])
  BY <1>4, Zenon DEF Settled
<1>7. Parked(m, p, f, e[p])
  BY <1>3, <1>4, <1>6, Zenon DEF Fits
<1>8. st[p] \in Live /\ st[p] \in Waiting
  BY <1>3, <1>4, Zenon
<1>9. Settled(m2, st, sv, e2)
  BY <1>2, <1>3, <1>4, <1>7, <1>8, SettledPatched, Zenon
<1>10. MainReady(m2, e2, g, en)
  BY <1>2, <1>3, <1>4, <1>7, <1>8, PatchedMain, Zenon
<1> HIDE DEF m2, e2
<1>11. Settled(m2, [st EXCEPT ![p] = "Ready"], sv, e2)
  BY <1>4, <1>8, <1>9, Awake, Zenon
<1> QED  BY <1>1, <1>10, <1>11, Zenon DEF m2, e2, v, f, p

\* finish_current_from_interrupt keeps the invariant, with or without an error
\* code on the stack, and with or without a parent to wake.
LEMMA FinishStep ==
  ASSUME ContextsInv, NEW final \in {"Finished", "Failed"}, FinishFromInterrupt(final)
  PROVE  ContextsInv'
<1> DEFINE error == final = "Failed"
           t == current
           woken == {p \in Tasks : p = Parent[t] /\ state[p] = "Blocked"}
           sv == [saved EXCEPT ![t] = FrameRsp(error)]
           m0 == Entered(error)
           m1 == WakeParent(m0, t)
           m == Dead(m1, t)
           st0 == [state EXCEPT ![t] = final]
           e0 == [expect EXCEPT ![t] = Nothing]
           st == [p \in Tasks |-> IF p = t THEN final
                                  ELSE IF p \in woken THEN "Ready" ELSE state[p]]
           e == [c \in Stacks |-> IF c \in woken
                                  THEN [expect[c] EXCEPT !["rax"] = Pid(t)]
                                  ELSE IF c = t THEN Nothing ELSE expect[c]]
<1>1. /\ IsUser(t) /\ saved' = sv /\ Leave(m, st) /\ ExpectLeave(e)
      /\ main' = main /\ enable' = enable
  BY Zenon DEF FinishFromInterrupt
<1>2. t \in UserTasks /\ t \in Tasks /\ t \in Stacks /\ t # Main /\ state[t] = "Running"
  BY <1>1, RunningContext, TaskStacks, Zenon DEF IsUser
<1>3. /\ \A u \in Tasks : state[u] = "Running" <=> t = u
      /\ state \in [Tasks -> States] /\ saved \in [Tasks -> Words] /\ IsMemory(mem)
      /\ expect \in [Stacks -> [Regs -> Int]]
  BY Zenon DEF ContextsInv, Settled, Typed
<1>4. error \in BOOLEAN /\ (error => IsUser(current))
  BY <1>1, Zenon
<1>5. FrameRsp(error) \in Words
  BY <1>4, FrameInMemory, Zenon
<1>6. IsMemory(m0) /\ SameOff(t, mem, m0)
  BY <1>4, EnteredElsewhere, Zenon
<1>7. MainReady(m0, expect, main, enable)
  BY <1>2, <1>4, EnteredMain, Zenon
<1> HIDE DEF m0, error
<1>8. sv \in [Tasks -> Words] /\ \A u \in Tasks : u # t => sv[u] = saved[u]
  BY <1>2, <1>3, <1>5, Zenon
<1> HIDE DEF sv
<1>9. Settled(m0, st0, sv, e0)
  BY <1>2, <1>6, <1>8, Ended, Zenon
<1>10. Main \in Stacks /\ e0[Main] = expect[Main]
  BY <1>2, <1>3, MainIsKernel, Zenon
<1>11. MainReady(m0, e0, main, enable)
  BY <1>7, <1>10, MainSame, Zenon
<1>12. st0[t] = final /\ final \notin Live
  BY <1>2, <1>3 DEF Live
<1>13. Settled(m1, st, sv, e) /\ MainReady(m1, e, main, enable)
  <2>1. CASE Woken(t)
    <3> DEFINE p == Parent[t]
    <3>1. p \in Tasks /\ state[p] = "Blocked" /\ woken = {p} /\ p # t
      <4>1. p \in {0} \cup UserTasks /\ p # 0 /\ state[p] = "Blocked"
        BY <1>2, <2>1, ContextsAssumption, Zenon DEF Woken
      <4>2. p \in Tasks /\ "Blocked" # "Running"
        BY <4>1, Zenon DEF Tasks
      <4> QED  BY <1>2, <4>1, <4>2, Zenon
    <3>2. st0[p] = "Blocked" /\ sv[p] = saved[p] /\ e0[p] = expect[p] /\ p \in Stacks
      BY <1>2, <1>3, <1>8, <3>1, TaskStacks, Zenon
    <3>3. /\ Settled(m1, [st0 EXCEPT ![p] = "Ready"], sv,
                     [e0 EXCEPT ![p] = [e0[p] EXCEPT !["rax"] = Pid(t)]])
          /\ MainReady(m1, [e0 EXCEPT ![p] = [e0[p] EXCEPT !["rax"] = Pid(t)]],
                       main, enable)
      BY <1>2, <1>9, <1>11, <2>1, <3>1, <3>2, Wakes, Zenon
    <3>4. st = [st0 EXCEPT ![p] = "Ready"]
      BY <1>2, <1>3, <3>1, Zenon
    <3>5. e = [e0 EXCEPT ![p] = [e0[p] EXCEPT !["rax"] = Pid(t)]]
      BY <1>2, <1>3, <3>1, <3>2, Zenon
    <3> QED  BY <3>3, <3>4, <3>5, Zenon
  <2>2. CASE ~Woken(t)
    <3>1. woken = {} /\ m1 = m0
      BY <2>2, MainIsNoTask, Zenon DEF Woken, WakeParent
    <3>2. st = st0 /\ e = e0
      BY <1>2, <1>3, <3>1, Zenon
    <3> QED  BY <1>9, <1>11, <3>1, <3>2, Zenon
  <2> QED  BY <2>1, <2>2, Zenon
<1>14. st[t] = final /\ \A u \in Tasks : u # t => st[u] \in {"Ready", state[u]}
  BY <1>2
<1>15. /\ \A u \in Tasks : st[u] # "Running"
       /\ \A u \in Tasks : st[u] = "Ready" => saved[u] = sv[u]
  <2>1. final # "Running" /\ final # "Ready" /\ "Ready" # "Running"
    OBVIOUS
  <2> QED  BY <1>3, <1>8, <1>14, <2>1, Zenon
<1> HIDE DEF m1, st, e
<1>16. st[t] \notin Live
  BY <1>12, <1>14, Zenon
<1>17. Settled(m, st, sv, e) /\ SameOff(t, m1, m)
  BY <1>2, <1>13, <1>16, Buried, Zenon
<1>18. MainReady(m, e, main, enable)
  BY <1>2, <1>13, <1>17, MainElsewhere, Zenon
<1> HIDE DEF m
<1> QED  BY <1>1, <1>15, <1>17, <1>18, LeaveStep, Zenon
-----------------------------------------------------------------------------
(* The work of a context *)

\* The values of registers are numbers.
LEMMA Values ==
  \A c \in Stacks, r \in Regs, k \in {0, 1} : Value(c, r, k) \in Int
<1> SUFFICES ASSUME NEW c \in Stacks, NEW r \in Regs, NEW k \in {0, 1}
             PROVE  Value(c, r, k) \in Int
  OBVIOUS
<1>1. PICK i \in 1 .. 20 : r = TrapFrame[i]
  BY RegsAreWords, Zenon
<1>2. FrameSlot[r] = i - 1
  BY <1>1, FrameSlots, Zenon
<1>3. FrameSlot[r] \in Int
  BY <1>2
<1>4. c \in Nat
  BY StackNumbers, Zenon
<1> QED  BY <1>3, <1>4 DEF Value

\* The last digit of a rip tells the pieces of work apart.
LEMMA LastDigit ==
  \A c \in Stacks, k \in {0, 1} : Value(c, "rip", k) % 10 = k
<1> SUFFICES ASSUME NEW c \in Stacks, NEW k \in {0, 1}
             PROVE  Value(c, "rip", k) % 10 = k
  OBVIOUS
<1>1. TrapFrame[16] = "rip" /\ 16 \in 1 .. 20 /\ 16 - 1 = 15
  BY DEF TrapFrame
<1>2. FrameSlot["rip"] = 15
  BY <1>1, FrameSlots, Zenon
<1>3. Value(c, "rip", k) = 1000 * (c + 1) + 10 * 15 + k
  BY <1>2 DEF Value
<1>4. c \in Nat
  BY StackNumbers, Zenon
<1>5. \A n \in Nat, j \in {0, 1} : (1000 * (n + 1) + 10 * 15 + j) % 10 = j
  OBVIOUS
<1> QED  BY <1>3, <1>4, <1>5

\* The registers after a piece of work, as in Work.
Worked(c, k) ==
  LET rsp == IF IsUser(c) THEN Value(c, "rsp", k) ELSE Start(c) - k * MaxDepth
  IN  [r \in Regs |-> IF r = "rsp" THEN rsp
                      ELSE IF r \in {"cs", "ss", "rflags"} THEN cpu[r]
                      ELSE Value(c, r, k)]

\* The memory after a piece of work with the registers next, as in Work.
WorkedMem(c, next) ==
  IF IsUser(c) THEN mem
  ELSE [a \in DOMAIN mem |-> IF a \in next["rsp"] .. Start(c) - 1 THEN next["rip"]
                             ELSE IF a \in Start(c) - MaxDepth .. next["rsp"] - 1 THEN Junk
                             ELSE mem[a]]

\* The piece of work that the running context does next.
LEMMA NextPiece ==
  ASSUME ContextsInv
  PROVE  1 - (cpu["rip"] % 10) \in {0, 1}
<1>1. current \in Stacks /\ Image(current, cpu)
  BY RunningContext, Zenon
<1>2. PICK k \in {0, 1} : cpu["rip"] = Value(current, "rip", k)
  BY <1>1, Zenon DEF Image
<1>3. cpu["rip"] % 10 = k
  BY <1>1, <1>2, LastDigit, Zenon
<1> QED  BY <1>3

\* The registers after a piece of work.
LEMMA WorkedImage ==
  ASSUME ContextsInv, NEW k \in {0, 1}
  PROVE  /\ Image(current, Worked(current, k))
         /\ ~IsUser(current) => Worked(current, k)["rsp"] = Start(current) - k * MaxDepth
<1> DEFINE c == current
           w == Worked(c, k)
           rsp == IF IsUser(c) THEN Value(c, "rsp", k) ELSE Start(c) - k * MaxDepth
<1>1. c \in Stacks /\ Image(c, cpu)
  BY RunningContext, Zenon
<1>2. {"rip", "cs", "rflags", "rsp", "ss"} \subseteq Regs
  BY NamedRegs
<1>3. \A r \in Regs : Value(c, r, k) \in Int
  BY <1>1, Values, Zenon
<1>4. Start(c) - k * MaxDepth \in {Start(c), Start(c) - MaxDepth} /\ Start(c) \in Int
  BY <1>1, EvenTop, Sizes DEF Start
<1>5. Start(c) - k * MaxDepth \in Int
  BY <1>4, Sizes
<1>6. rsp \in Int
  BY <1>2, <1>3, <1>5, Zenon
<1>7. w = [r \in Regs |-> IF r = "rsp" THEN rsp
                          ELSE IF r \in {"cs", "ss", "rflags"} THEN cpu[r]
                          ELSE Value(c, r, k)]
  BY Zenon DEF Worked
<1> HIDE DEF w, rsp
<1>8. cpu \in [Regs -> Int]
  BY <1>1, Zenon DEF Image
<1>9. w \in [Regs -> Int]
  BY <1>3, <1>6, <1>7, <1>8, Zenon
<1>10. /\ w["rsp"] = rsp /\ w["rip"] = Value(c, "rip", k)
       /\ w["cs"] = cpu["cs"] /\ w["ss"] = cpu["ss"] /\ w["rflags"] = cpu["rflags"]
  BY <1>2, <1>7
<1>11. ~IsUser(c) => w["rsp"] = Start(c) - k * MaxDepth
  BY <1>10, Zenon DEF rsp
<1>12. Image(c, w)
  BY <1>1, <1>4, <1>9, <1>10, <1>11, Zenon DEF Image
<1> QED  BY <1>11, <1>12, Zenon DEF w

\* The memory after a piece of work.
LEMMA WorkedMemory ==
  ASSUME ContextsInv, NEW k \in {0, 1}
  PROVE  /\ IsMemory(WorkedMem(current, Worked(current, k)))
         /\ SameOff(current, mem, WorkedMem(current, Worked(current, k)))
         /\ ~IsUser(current) =>
              StackHolds(WorkedMem(current, Worked(current, k)), current, Worked(current, k))
<1> DEFINE c == current
           w == Worked(c, k)
           m == WorkedMem(c, w)
<1>1. c \in Stacks /\ DOMAIN mem = Words
  BY RunningContext, MemoryWords, Zenon
<1>2. CASE IsUser(c)
  <2>1. m = mem
    BY <1>2, Zenon DEF WorkedMem
  <2> QED  BY <1>1, <1>2, <2>1, Zenon DEF IsMemory, SameOff
<1>3. CASE ~IsUser(c)
  <2> HIDE DEF w
  <2>1. m = [a \in Words |-> IF a \in w["rsp"] .. Start(c) - 1 THEN w["rip"]
                             ELSE IF a \in Start(c) - MaxDepth .. w["rsp"] - 1 THEN Junk
                             ELSE mem[a]]
    BY <1>1, <1>3, Zenon DEF WorkedMem
  <2> HIDE DEF m
  <2>2. Image(c, w)
    BY WorkedImage, Zenon DEF w
  <2>3. /\ w["rsp"] \in Int /\ w["rsp"] <= Top(c) - 1 /\ w["rsp"] >= Top(c) - 1 - MaxDepth
    BY <1>1, <1>3, <2>2, KernelRsp, Zenon
  <2>4. Top(c) \in Nat /\ MaxDepth \in Nat /\ StackSize \in Nat /\ StackSize >= 22 + MaxDepth
    BY <1>1, EvenTop, Sizes
  <2>5. IsMemory(m)
    BY <2>1, Zenon DEF IsMemory
  <2>6. SameOff(c, mem, m)
    <3> SUFFICES ASSUME NEW a \in Words \ Zone(c)
                 PROVE  m[a] = mem[a]
      BY Zenon DEF SameOff
    <3>1. /\ a \notin w["rsp"] .. Start(c) - 1
          /\ a \notin Start(c) - MaxDepth .. w["rsp"] - 1
      BY <2>3, <2>4, WordNumbers DEF Zone, Start
    <3> QED  BY <2>1, <3>1, Zenon
  <2>7. StackHolds(m, c, w)
    <3> SUFFICES ASSUME NEW a \in w["rsp"] .. Start(c) - 1
                 PROVE  m[a] = w["rip"]
      BY Zenon DEF StackHolds
    <3>1. a \in Int /\ Top(c) - StackSize <= a /\ a < Top(c)
      BY <2>3, <2>4 DEF Start
    <3>2. a \in Words
      BY <1>1, <3>1, ZoneIsMemory, Zenon
    <3> QED  BY <2>1, <3>2, Zenon
  <2> QED  BY <2>5, <2>6, <2>7, Zenon DEF m, w
<1> QED  BY <1>2, <1>3, Zenon
\* The work of a context keeps the invariant.
LEMMA WorkStep == ContextsInv /\ Work => ContextsInv'
<1> SUFFICES ASSUME ContextsInv, Work
             PROVE  ContextsInv'
  OBVIOUS
<1> DEFINE c == current
           k == 1 - (cpu["rip"] % 10)
           w == Worked(c, k)
           m == WorkedMem(c, w)
           e == [expect EXCEPT ![c] = w]
<1>1. k \in {0, 1}
  BY NextPiece, Zenon
<1> HIDE DEF k
<1>2. /\ IsMemory(m) /\ SameOff(c, mem, m) /\ Image(c, w)
      /\ ~IsUser(c) => StackHolds(m, c, w)
  BY <1>1, WorkedMemory, WorkedImage, Zenon
<1>3. /\ cpu' = w /\ expect' = e
      /\ tss' = tss /\ state' = state /\ saved' = saved /\ main' = main
      /\ enable' = enable /\ current' = current
  BY Zenon DEF Work, Worked, k
<1>4. mem' = m
  <2>1. "rsp" \in Regs
    BY NamedRegs
  <2>2. w["rsp"] = IF IsUser(c) THEN Value(c, "rsp", k) ELSE Start(c) - k * MaxDepth
    BY <2>1, Zenon DEF Worked
  <2>3. mem' = IF IsUser(c) THEN mem
               ELSE LET rsp == IF IsUser(c) THEN Value(c, "rsp", k)
                               ELSE Start(c) - k * MaxDepth
                    IN  [a \in DOMAIN mem |->
                           IF a \in rsp .. Start(c) - 1 THEN w["rip"]
                           ELSE IF a \in Start(c) - MaxDepth .. rsp - 1 THEN Junk
                           ELSE mem[a]]
    BY Zenon DEF Work, Worked, k
  <2> HIDE DEF w
  <2> QED  BY <2>2, <2>3, Zenon DEF WorkedMem
<1> HIDE DEF m, w
<1>5. /\ Settled(mem, state, saved, expect) /\ c \in Stacks
      /\ state \in [Tasks -> States] /\ saved \in [Tasks -> Words]
      /\ expect \in [Stacks -> [Regs -> Int]]
      /\ \A t \in Tasks : state[t] = "Running" <=> c = t
      /\ tss \in {0} \cup {Top(t) : t \in Tasks} /\ main \in Words /\ enable \in {0, 1}
      /\ c # Main => tss = Top(c) /\ MainReady(mem, expect, main, enable)
  BY Zenon DEF ContextsInv, Settled, Typed
<1>6. /\ e \in [Stacks -> [Regs -> Int]] /\ e[c] = w
      /\ \A d \in Stacks : d # c => e[d] = expect[d]
  BY <1>2, <1>5, Zenon DEF Image
<1> HIDE DEF e
<1>7. Typed(m, state, saved, e)
  BY <1>2, <1>5, <1>6, Zenon DEF Typed
<1>8. OthersSame(c, mem, state, saved, expect, m, state, saved, e)
  BY <1>2, <1>6, Zenon DEF OthersSame
<1>9. "Running" \notin Waiting
  BY DEF Waiting
<1>10. \A f : Fits(m, c, "Running", f, e[c])
  BY <1>2, <1>6, <1>9, Zenon DEF Fits
<1>11. c # Main => c \in Tasks /\ state[c] = "Running"
  BY <1>5, Zenon DEF Stacks
<1>12. Settled(m, state, saved, e)
  <2>1. c = Main => Fits(m, Main, "Running", 0, e[Main])
    BY <1>10, Zenon
  <2>2. c # Main => Fits(m, c, state[c], saved[c], e[c])
    BY <1>10, <1>11, Zenon
  <2>3. c \in Stacks /\ Settled(mem, state, saved, expect)
    BY <1>5, Zenon
  <2> QED  BY <1>7, <1>8, <2>1, <2>2, <2>3, SettledStep, Zenon
<1>13. c # Main => MainReady(m, e, main, enable)
  <2> SUFFICES ASSUME c # Main
               PROVE  MainReady(m, e, main, enable)
    OBVIOUS
  <2>1. MainReady(m, expect, main, enable)
    BY <1>2, <1>5, <1>11, MainElsewhere, Zenon
  <2>2. e[Main] = expect[Main]
    BY <1>6, MainIsKernel, Zenon
  <2> QED  BY <2>1, <2>2, MainSame, Zenon
<1> QED  BY <1>3, <1>4, <1>5, <1>6, <1>12, <1>13, Zenon DEF ContextsInv

-----------------------------------------------------------------------------
(* Main *)

\* In main nothing is asked of TSS.rsp0 or of the words run() left.
LEMMA MainStep ==
  ASSUME ContextsInv, InMain, NEW m, NEW st, NEW sv, NEW e,
         Settled(m, st, sv, e), e[Main] = expect[Main],
         \A t \in Tasks : st[t] # "Running",
         mem' = m, state' = st, saved' = sv, expect' = e,
         UNCHANGED <<cpu, tss, main, enable, current>>
  PROVE  ContextsInv'
<1>1. /\ current = Main /\ cpu = e[Main] /\ Main \in Stacks
  BY MainIsKernel, Zenon DEF InMain, ContextsInv
<1>2. \A t \in Tasks : Main # t
  BY TaskStacks, Zenon
<1>3. tss \in {0} \cup {Top(t) : t \in Tasks} /\ main \in Words /\ enable \in {0, 1}
  BY Zenon DEF ContextsInv
<1>4. cpu' = cpu /\ tss' = tss /\ main' = main /\ enable' = enable /\ current' = current
  BY Zenon
<1> QED  BY <1>1, <1>2, <1>3, <1>4, Zenon DEF ContextsInv

\* set_task_initial_arg keeps the invariant.
LEMMA InitialArgStep ==
  ASSUME ContextsInv, NEW t \in UserTasks, NEW arg \in Int, SetTaskInitialArg(t, arg)
  PROVE  ContextsInv'
<1> DEFINE f == saved[t]
           m == SetField(mem, f, "rdi", arg)
           e == [expect EXCEPT ![t] = [expect[t] EXCEPT !["rdi"] = arg]]
<1>1. /\ InMain /\ state[t] = "Ready" /\ mem' = m
      /\ expect' = [expect EXCEPT ![t]["rdi"] = arg]
      /\ state' = state /\ saved' = saved
      /\ UNCHANGED <<cpu, tss, main, enable, current>>
  BY Zenon DEF SetTaskInitialArg
<1>2. expect' = e
  BY <1>1, Zenon
<1>3. t \in Tasks /\ t \in Stacks /\ t # Main /\ Main \in Stacks
  BY TaskStacks, MainIsKernel, Zenon DEF Tasks
<1>4. /\ Settled(mem, state, saved, expect) /\ expect \in [Stacks -> [Regs -> Int]]
      /\ \A u \in Tasks : state[u] = "Running" <=> current = u
      /\ Fits(mem, t, state[t], f, expect[t])
  BY <1>3, Zenon DEF ContextsInv, Settled, Typed
<1>5. "Ready" \in Live /\ "Ready" \in Waiting /\ "rdi" \in Patchable
  BY DEF Live, Waiting, Patchable
<1>6. Parked(mem, t, f, expect[t])
  BY <1>1, <1>4, <1>5, Zenon DEF Fits
<1>7. Settled(m, state, saved, e)
  <2>1. t \in Tasks /\ "rdi" \in Patchable /\ state[t] \in Live /\ saved[t] = f
    BY <1>1, <1>3, <1>5, Zenon
  <2>2. Settled(mem, state, saved, expect)
    BY <1>4, Zenon
  <2> HIDE DEF f
  <2> QED  BY <1>6, <2>1, <2>2, SettledPatched, Zenon
<1>8. e[Main] = expect[Main]
  BY <1>3, <1>4, Zenon
<1>9. \A u \in Tasks : state[u] # "Running"
  BY <1>1, <1>4, TaskStacks, Zenon DEF InMain
<1> HIDE DEF m, e
<1> QED  BY <1>1, <1>2, <1>7, <1>8, <1>9, MainStep, Zenon
\* The first registers of a task.
LEMMA NewImage ==
  ASSUME NEW t \in Tasks, NEW rflags \in {0, 1}, NEW arg \in Int
  PROVE  /\ Image(t, NewFrame(t, rflags, arg))
         /\ ~IsUser(t) => NewFrame(t, rflags, arg)["rsp"] = Start(t)
<1> DEFINE w == NewFrame(t, rflags, arg)
<1>1. t \in Stacks
  BY TaskStacks, Zenon
<1>2. {"rip", "cs", "rflags", "rsp", "ss", "rdi"} \subseteq Regs
  BY NamedRegs
<1>3. Value(t, "rip", 0) \in Int /\ Value(t, "rsp", 0) \in Int /\ Start(t) \in Int
  <2>1. 0 \in {0, 1} /\ "rip" \in Regs /\ "rsp" \in Regs
    BY <1>2
  <2>2. Start(t) \in Int
    BY <1>1, EvenTop DEF Start
  <2> QED  BY <1>1, <2>1, <2>2, Values, Zenon
<1>4. /\ w["rip"] = Value(t, "rip", 0) /\ w["rflags"] = rflags
      /\ w["cs"] = (IF IsUser(t) THEN UserMode ELSE 0)
      /\ w["ss"] = (IF IsUser(t) THEN UserMode ELSE 0)
      /\ w["rsp"] = (IF IsUser(t) THEN Value(t, "rsp", 0) ELSE Start(t))
      /\ w["rdi"] = arg
  BY <1>2 DEF NewFrame
<1>5. \A r \in Regs : r \notin {"rip", "cs", "rflags", "rsp", "ss", "rdi"} => w[r] = 0
  BY DEF NewFrame
<1>6. DOMAIN w = Regs /\ w = [r \in Regs |-> w[r]]
  BY Zenon DEF NewFrame
<1> HIDE DEF w
<1>7. \A r \in Regs : w[r] \in Int
  BY <1>3, <1>4, <1>5 DEF UserMode
<1>8. w \in [Regs -> Int]
  BY <1>6, <1>7, Zenon
<1>9. \E k \in {0, 1} : w["rip"] = Value(t, "rip", k)
  BY <1>4, Zenon
<1>10. Image(t, w)
  BY <1>4, <1>8, <1>9, Zenon DEF Image
<1> QED  BY <1>4, <1>10, Zenon DEF w

\* Where the first frame of a task is.
LEMMA FirstPlace ==
  ASSUME NEW t \in Tasks
  PROVE  /\ FirstRsp(t) \in Int /\ FirstRsp(t) \in Words
         /\ FirstRsp(t) >= Top(t) - StackSize /\ FirstRsp(t) + 20 <= Top(t)
         /\ IsUser(t) => FirstRsp(t) + 20 = Top(t)
         /\ ~IsUser(t) => FirstRsp(t) + 20 = Start(t)
<1>1. t \in Stacks /\ Top(t) \in Nat
  BY TaskStacks, EvenTop, Zenon
<1>2. FirstRsp(t) = (IF IsUser(t) THEN Top(t) ELSE Top(t) - 1) - 20
  BY Lengths, Zenon DEF FirstRsp, Start
<1>3. /\ FirstRsp(t) \in Int /\ FirstRsp(t) >= Top(t) - StackSize
      /\ FirstRsp(t) + 20 <= Top(t) /\ FirstRsp(t) < Top(t)
      /\ IsUser(t) => FirstRsp(t) + 20 = Top(t)
      /\ ~IsUser(t) => FirstRsp(t) + 20 = Start(t)
  BY <1>1, <1>2, Sizes DEF Start
<1>4. FirstRsp(t) \in Words
  BY <1>1, <1>3, ZoneIsMemory, Zenon
<1> QED  BY <1>3, <1>4, Zenon

\* The memory with the first frame w of task t, as in Spawn.
Prepared(t, w) ==
  [a \in DOMAIN mem |->
     IF a \in FirstRsp(t) .. FirstRsp(t) + Len(TrapFrame) - 1
     THEN w[TrapFrame[a - FirstRsp(t) + 1]] ELSE mem[a]]

\* The first frame of a task is on its stack.
LEMMA FirstFrame ==
  ASSUME ContextsInv, NEW t \in Tasks, NEW w, Image(t, w),
         ~IsUser(t) => w["rsp"] = Start(t)
  PROVE  /\ IsMemory(Prepared(t, w))
         /\ SameOff(t, mem, Prepared(t, w))
         /\ Parked(Prepared(t, w), t, FirstRsp(t), w)
         /\ ~IsUser(t) => StackHolds(Prepared(t, w), t, w)
<1> DEFINE m == Prepared(t, w)
           f == FirstRsp(t)
<1>1. t \in Stacks /\ DOMAIN mem = Words /\ Top(t) \in Nat
  BY TaskStacks, MemoryWords, EvenTop, Zenon
<1>2. m = [a \in Words |-> IF a \in f .. f + 20 - 1 THEN w[TrapFrame[a - f + 1]]
                           ELSE mem[a]]
  BY <1>1, Lengths, Zenon DEF Prepared
<1>3. /\ f \in Int /\ f >= Top(t) - StackSize /\ f + 20 <= Top(t)
      /\ IsUser(t) => f + 20 = Top(t)
      /\ ~IsUser(t) => f + 20 = Start(t)
  BY FirstPlace, Zenon
<1>4. StackSize \in Nat
  BY Sizes, Zenon
<1> HIDE DEF m, f
<1>5. IsMemory(m)
  BY <1>2, Zenon DEF IsMemory
<1>6. SameOff(t, mem, m)
  <2> SUFFICES ASSUME NEW a \in Words \ Zone(t)
               PROVE  m[a] = mem[a]
    BY Zenon DEF SameOff
  <2>1. a \notin f .. f + 20 - 1
    BY <1>1, <1>3, <1>4, WordNumbers DEF Zone
  <2> QED  BY <1>2, <2>1, Zenon
<1>7. FrameHolds(m, f, w)
  <2> SUFFICES ASSUME NEW i \in 1 .. 20
               PROVE  m[f + i - 1] = w[TrapFrame[i]]
    BY Lengths, Zenon DEF FrameHolds
  <2>1. /\ f + i - 1 \in Int /\ Top(t) - StackSize <= f + i - 1 /\ f + i - 1 < Top(t)
        /\ f + i - 1 \in f .. f + 20 - 1 /\ (f + i - 1) - f + 1 = i
    BY <1>1, <1>3, <1>4
  <2>2. f + i - 1 \in Words
    BY <1>1, <2>1, ZoneIsMemory, Zenon
  <2>3. m[f + i - 1] = w[TrapFrame[(f + i - 1) - f + 1]]
    BY <1>2, <2>1, <2>2, Zenon
  <2> QED  BY <2>1, <2>3, Zenon
<1>8. Placed(t, f, w)
  BY <1>3, Lengths, Zenon DEF Placed
<1>9. ~IsUser(t) => StackHolds(m, t, w)
  <2> SUFFICES ASSUME ~IsUser(t)
               PROVE  StackHolds(m, t, w)
    OBVIOUS
  <2>1. Start(t) \in Int /\ \A a : a \notin Start(t) .. Start(t) - 1
    BY <1>1 DEF Start
  <2> QED  BY <2>1, Zenon DEF StackHolds
<1> QED  BY <1>5, <1>6, <1>7, <1>8, <1>9, Zenon DEF Parked, m, f
\* spawn and spawn_user_process keep the invariant.
LEMMA SpawnStep ==
  ASSUME ContextsInv, NEW t \in Tasks, NEW arg \in Int, Spawn(t, arg)
  PROVE  ContextsInv'
<1> DEFINE w == NewFrame(t, cpu["rflags"], arg)
           m == Prepared(t, w)
           st == [state EXCEPT ![t] = "Ready"]
           sv == [saved EXCEPT ![t] = FirstRsp(t)]
           e == [expect EXCEPT ![t] = w]
<1>1. /\ InMain /\ state[t] = "none" /\ state' = st /\ saved' = sv /\ mem' = m
      /\ expect' = e
      /\ UNCHANGED <<cpu, tss, main, enable, current>>
  BY Zenon DEF Spawn, Prepared
<1>2. t \in Stacks /\ t # Main /\ Main \in Stacks
  BY TaskStacks, MainIsKernel, Zenon
<1>3. /\ Settled(mem, state, saved, expect) /\ expect \in [Stacks -> [Regs -> Int]]
      /\ state \in [Tasks -> States] /\ saved \in [Tasks -> Words]
      /\ \A u \in Tasks : state[u] = "Running" <=> current = u
  BY Zenon DEF ContextsInv, Settled, Typed
<1>4. cpu["rflags"] \in {0, 1}
  BY RunningContext, Zenon DEF Image
<1>5. Image(t, w) /\ (~IsUser(t) => w["rsp"] = Start(t))
  BY <1>4, NewImage, Zenon
<1> HIDE DEF w
<1>6. /\ IsMemory(m) /\ SameOff(t, mem, m) /\ Parked(m, t, FirstRsp(t), w)
      /\ ~IsUser(t) => StackHolds(m, t, w)
  BY <1>5, FirstFrame, Zenon
<1> HIDE DEF m
<1>7. "Ready" \in States /\ "Ready" # "Running"
  BY DEF States
<1>8. /\ st \in [Tasks -> States] /\ st[t] = "Ready"
      /\ \A u \in Tasks : u # t => st[u] = state[u]
  BY <1>3, <1>7, Zenon
<1>9. /\ sv \in [Tasks -> Words] /\ sv[t] = FirstRsp(t)
      /\ \A u \in Tasks : u # t => sv[u] = saved[u]
  BY <1>3, FirstPlace, Zenon
<1>10. /\ e \in [Stacks -> [Regs -> Int]] /\ e[t] = w
       /\ \A d \in Stacks : d # t => e[d] = expect[d]
  BY <1>2, <1>3, <1>5, Zenon DEF Image
<1> HIDE DEF st, sv, e
<1>11. Typed(m, st, sv, e)
  BY <1>6, <1>8, <1>9, <1>10, Zenon DEF Typed
<1>12. OthersSame(t, mem, state, saved, expect, m, st, sv, e)
  BY <1>6, <1>8, <1>9, <1>10, Zenon DEF OthersSame
<1>13. Fits(m, t, st[t], sv[t], e[t])
  BY <1>5, <1>6, <1>9, <1>10, Zenon DEF Fits
<1>14. Settled(m, st, sv, e)
  BY <1>2, <1>3, <1>11, <1>12, <1>13, SettledStep, Zenon
<1>15. \A u \in Tasks : st[u] # "Running"
  BY <1>1, <1>3, <1>7, <1>8, TaskStacks, Zenon DEF InMain
<1>16. e[Main] = expect[Main]
  BY <1>2, <1>10, Zenon
<1> QED  BY <1>1, <1>14, <1>15, <1>16, MainStep, Zenon

\* The memory when main has called switch_from_main_to_task, as in Run.
Called(rsp) ==
  [a \in DOMAIN mem |-> IF a \in rsp - Len(MainPushes) .. rsp - 1
                        THEN cpu[MainPushes[rsp - a]] ELSE mem[a]]

\* switch_from_main_to_task leaves main's registers where restore_main_context
\* looks for them, and what main keeps on its stack.
LEMMA CalledSettled ==
  ASSUME ContextsInv, InMain, NEW rsp, rsp = cpu["rsp"]
  PROVE  /\ Settled(Called(rsp), state, saved, expect)
         /\ MainReady(Called(rsp), expect, rsp - Len(MainPushes), cpu["rflags"])
<1> DEFINE m == Called(rsp)
<1>1. /\ current = Main /\ Main \in Stacks /\ ~IsUser(Main) /\ cpu = expect[Main]
      /\ Settled(mem, state, saved, expect) /\ DOMAIN mem = Words
      /\ Top(Main) \in Nat
  BY MainIsKernel, MemoryWords, EvenTop, Zenon DEF InMain, ContextsInv
<1>2. Image(Main, cpu) /\ StackHolds(mem, Main, cpu)
  BY <1>1, MainImage, Zenon
<1>3. rsp \in Int /\ rsp <= Top(Main) - 1 /\ rsp >= Top(Main) - 1 - MaxDepth
  BY <1>1, <1>2, KernelRsp, Zenon
<1>4. m = [a \in Words |-> IF a \in rsp - 7 .. rsp - 1 THEN cpu[MainPushes[rsp - a]]
                           ELSE mem[a]]
  BY <1>1, Lengths, Zenon DEF Called
<1> HIDE DEF m
<1>5. IsMemory(m)
  BY <1>4, Zenon DEF IsMemory
<1>6. /\ MaxDepth \in Nat /\ StackSize \in Nat /\ StackSize >= 22 + MaxDepth
  BY Sizes
<1>7. SameOff(Main, mem, m)
  <2> SUFFICES ASSUME NEW a \in Words \ Zone(Main)
               PROVE  m[a] = mem[a]
    BY Zenon DEF SameOff
  <2>1. a \notin rsp - 7 .. rsp - 1
    BY <1>1, <1>3, <1>6, WordNumbers DEF Zone
  <2> QED  BY <1>4, <2>1, Zenon
<1>8. \A a \in Words : a >= rsp => m[a] = mem[a]
  <2>1. \A a \in Words : a >= rsp => a \notin rsp - 7 .. rsp - 1
    BY <1>3, WordNumbers
  <2> QED  BY <1>4, <2>1, Zenon
<1>9. StackHolds(m, Main, cpu)
  BY <1>1, <1>2, <1>8, StackAbove, Zenon
<1>10. "Running" \notin Waiting
  BY DEF Waiting
<1>11. Fits(m, Main, "Running", 0, expect[Main])
  BY <1>1, <1>2, <1>9, <1>10, Zenon DEF Fits
<1>12. Typed(m, state, saved, expect)
  BY <1>1, <1>5, Zenon DEF Settled, Typed
<1>13. OthersSame(Main, mem, state, saved, expect, m, state, saved, expect)
  BY <1>7, Zenon DEF OthersSame
<1>14. Settled(m, state, saved, expect)
  BY <1>1, <1>11, <1>12, <1>13, SettledStep, Zenon
<1>15. MainHolds(m, rsp - 7, cpu)
  <2> DEFINE g == rsp - 7
  <2> SUFFICES ASSUME NEW i \in 1 .. 7
               PROVE  m[g + i - 1] = cpu[MainPops[i]]
    BY Lengths, Zenon DEF MainHolds
  <2>1. /\ g + i - 1 \in Int /\ Top(Main) - StackSize <= g + i - 1
        /\ g + i - 1 < Top(Main) /\ g + i - 1 \in rsp - 7 .. rsp - 1
        /\ rsp - (g + i - 1) = 8 - i
    BY <1>1, <1>3, <1>6
  <2> HIDE DEF g
  <2>2. g + i - 1 \in Words
    BY <1>1, <2>1, ZoneIsMemory, Zenon
  <2>3. m[g + i - 1] = cpu[MainPushes[rsp - (g + i - 1)]]
    BY <1>4, <2>1, <2>2, Zenon
  <2>4. MainPushes[8 - i] = MainPops[i]
    BY MainPushesReversed, Zenon
  <2> QED  BY <2>1, <2>3, <2>4, Zenon
<1>16. MainReady(m, expect, rsp - Len(MainPushes), cpu["rflags"])
  BY <1>1, <1>15, Lengths, Zenon DEF MainReady
<1> QED  BY <1>14, <1>16, Zenon DEF m

\* run keeps the invariant.
LEMMA RunStep == ContextsInv /\ Run => ContextsInv'
<1> SUFFICES ASSUME ContextsInv, Run
             PROVE  ContextsInv'
  OBVIOUS
<1> DEFINE rsp == cpu["rsp"]
           m == Called(rsp)
<1>1. /\ InMain /\ main' = rsp - Len(MainPushes) /\ enable' = cpu["rflags"]
      /\ saved' = saved /\ expect' = expect
  BY Zenon DEF Run
<1>2. PICK t \in Ready : state' = [state EXCEPT ![t] = "Running"] /\ RunTask(t, m)
  BY Zenon DEF Run, Called
<1>3. Settled(m, state, saved, expect) /\ MainReady(m, expect, main', enable')
  BY <1>1, CalledSettled, Zenon
<1> HIDE DEF m
<1>4. t \in Tasks /\ state[t] = "Ready"
  BY Zenon DEF Ready
<1>5. \A u \in Tasks : state[u] # "Running"
  BY <1>1, TaskStacks, Zenon DEF InMain, ContextsInv
<1> QED  BY <1>1, <1>2, <1>3, <1>4, <1>5, SwitchTo, Zenon
-----------------------------------------------------------------------------
(* The invariant holds in every state *)

\* The invariant holds at boot.
LEMMA InitContextsInv == Init => ContextsInv
<1> SUFFICES ASSUME Init
             PROVE  ContextsInv
  OBVIOUS
<1> DEFINE first(n) == [r \in Regs |-> CASE r = "rsp" -> Start(Main)
                                         [] r = "rflags" -> n
                                         [] r \in {"cs", "ss"} -> 0
                                         [] OTHER -> Value(Main, r, 0)]
<1>1. /\ mem = [a \in Words |-> Junk] /\ tss = 0
      /\ state = [t \in Tasks |-> "none"] /\ saved = [t \in Tasks |-> 0]
      /\ main = 0 /\ enable = 0 /\ current = Main
      /\ expect = [c \in Stacks |-> IF c = Main THEN cpu ELSE Nothing]
  BY Zenon DEF Init
<1>2. PICK n \in {0, 1} : cpu = first(n)
  BY Zenon DEF Init
<1>3. Main \in Stacks /\ ~IsUser(Main) /\ Top(Main) \in Nat
  BY MainIsKernel, EvenTop, Zenon
<1>4. {"rip", "cs", "rflags", "rsp", "ss"} \subseteq Regs
  BY NamedRegs
<1>5. /\ cpu["rsp"] = Start(Main) /\ cpu["rflags"] = n /\ cpu["cs"] = 0 /\ cpu["ss"] = 0
      /\ cpu["rip"] = Value(Main, "rip", 0)
  BY <1>2, <1>4
<1>6. cpu \in [Regs -> Int]
  <2>1. Start(Main) \in Int /\ n \in Int /\ 0 \in Int /\ 0 \in {0, 1}
    BY <1>3 DEF Start
  <2>2. \A r \in Regs : Value(Main, r, 0) \in Int
    BY <1>3, <2>1, Values, Zenon
  <2>3. \A r \in Regs : first(n)[r] \in {Start(Main), n, 0, Value(Main, r, 0)}
    OBVIOUS
  <2>4. \A r \in Regs : first(n)[r] \in Int
    BY <2>1, <2>2, <2>3, Zenon
  <2>5. first(n) = [r \in Regs |-> first(n)[r]]
    BY Zenon
  <2> HIDE DEF first
  <2> QED  BY <1>2, <2>4, <2>5, Zenon
<1> HIDE DEF first
<1>7. Image(Main, cpu)
  <2>1. \E k \in {0, 1} : cpu["rip"] = Value(Main, "rip", k)
    BY <1>5, Zenon
  <2> QED  BY <1>3, <1>5, <1>6, <2>1, Zenon DEF Image
<1>8. StackHolds(mem, Main, cpu)
  <2>1. Start(Main) \in Int /\ \A a : a \notin Start(Main) .. Start(Main) - 1
    BY <1>3 DEF Start
  <2> QED  BY <1>5, <2>1, Zenon DEF StackHolds
<1>9. 0 \in Words
  <2>1. 0 \in Int /\ Top(Main) - StackSize <= 0 /\ 0 < Top(Main)
    BY Sizes DEF Top, Main
  <2> QED  BY <1>3, <2>1, ZoneIsMemory, Zenon
<1>10. Nothing \in [Regs -> Int] /\ 0 \in {0, 1}
  BY DEF Nothing, Junk
<1>11. /\ expect[Main] = cpu
       /\ expect \in [Stacks -> [Regs -> Int]]
  BY <1>1, <1>3, <1>6, <1>10, Zenon
<1>12. "none" \in States /\ "none" \notin Live /\ "none" # "Running" /\ "Running" \notin Waiting
  BY DEF States, Live, Waiting
<1>13. Typed(mem, state, saved, expect)
  BY <1>1, <1>9, <1>11, <1>12, Zenon DEF Typed, IsMemory
<1>14. Fits(mem, Main, "Running", 0, expect[Main])
  BY <1>7, <1>8, <1>11, <1>12, Zenon DEF Fits
<1>15. \A t \in Tasks : Fits(mem, t, state[t], saved[t], expect[t])
  BY <1>1, <1>12, Zenon DEF Fits
<1>16. Settled(mem, state, saved, expect)
  BY <1>13, <1>14, <1>15, Zenon DEF Settled
<1>17. \A t \in Tasks : state[t] # "Running" /\ current # t
  BY <1>1, <1>12, TaskStacks, Zenon
<1> QED  BY <1>1, <1>3, <1>9, <1>10, <1>11, <1>16, <1>17, Zenon DEF ContextsInv

\* Every step keeps the invariant.
LEMMA NextContextsInv == ContextsInv /\ [Next]_vars => ContextsInv'
<1> SUFFICES ASSUME ContextsInv, [Next]_vars
             PROVE  ContextsInv'
  OBVIOUS
<1>1. 0 \in Int /\ 1 \in Int /\ 7 \in Int /\ 8 \in Int
  OBVIOUS
<1>2. CASE UNCHANGED vars
  <2>1. /\ mem' = mem /\ cpu' = cpu /\ tss' = tss /\ state' = state /\ saved' = saved
        /\ main' = main /\ enable' = enable /\ current' = current /\ expect' = expect
    BY <1>2, Zenon DEF vars
  <2> QED  BY <2>1, Zenon DEF ContextsInv
<1>3. CASE \E t \in KernelTasks : Spawn(t, 0)
  BY <1>1, <1>3, SpawnStep, Zenon DEF Tasks
<1>4. CASE \E t \in UserTasks : Spawn(t, 7)
  BY <1>1, <1>4, SpawnStep, Zenon DEF Tasks
<1>5. CASE \E t \in UserTasks : SetTaskInitialArg(t, 8)
  BY <1>1, <1>5, InitialArgStep, Zenon
<1>6. CASE Run
  BY <1>6, RunStep, Zenon
<1>7. CASE Timer
  BY <1>7, TimerStep, Zenon
<1>8. CASE Yield
  BY <1>8, YieldStep, Zenon
<1>9. CASE Syscall(1)
  BY <1>1, <1>9, SyscallStep, Zenon
<1>10. CASE SyscallYield
  BY <1>10, SyscallYieldStep, Zenon
<1>11. CASE \E child \in UserTasks : WaitPid(child)
  BY <1>11, WaitPidStep, Zenon
<1>12. CASE \E final \in {"Finished", "Failed"} : FinishFromInterrupt(final)
  BY <1>12, FinishStep, Zenon
<1>13. CASE FinishKernelTask
  BY <1>13, FinishKernelTaskStep, Zenon
<1>14. CASE Work
  BY <1>14, WorkStep, Zenon
<1> QED  BY <1>2, <1>3, <1>4, <1>5, <1>6, <1>7, <1>8, <1>9, <1>10, <1>11, <1>12,
            <1>13, <1>14, Zenon DEF Next

\* The inductive invariant holds in every state.
LEMMA ContextsInvariant == Spec => []ContextsInv
BY InitContextsInv, NextContextsInv, PTL DEF Spec

-----------------------------------------------------------------------------
(* What it says *)

\* The frame of a task that will run again.
LEMMA SavedFrame ==
  ASSUME ContextsInv, NEW t \in Tasks, state[t] \in {"Ready", "Blocked"}
  PROVE  /\ saved[t] \in Int
         /\ saved[t] - HandlerDepth >= Top(t) - StackSize
         /\ saved[t] + 20 <= Top(t)
         /\ IsUser(t) => saved[t] + Len(TrapFrame) = Top(t)
         /\ FrameHolds(mem, saved[t], expect[t])
<1>1. t \in Stacks
  BY TaskStacks, Zenon
<1>2. state[t] \in Live /\ state[t] \in Waiting
  BY DEF Live, Waiting
<1>3. Fits(mem, t, state[t], saved[t], expect[t])
  BY Zenon DEF ContextsInv, Settled
<1>4. Image(t, expect[t]) /\ Parked(mem, t, saved[t], expect[t])
  BY <1>2, <1>3, Zenon DEF Fits
<1>5. Placed(t, saved[t], expect[t]) /\ FrameHolds(mem, saved[t], expect[t])
  BY <1>4, Zenon DEF Parked
<1>6. /\ saved[t] \in Int /\ saved[t] - HandlerDepth >= Top(t) - StackSize
      /\ saved[t] + 20 <= Top(t)
  BY <1>1, <1>4, <1>5, PlacedInZone, Zenon
<1> QED  BY <1>5, <1>6, Zenon DEF Placed
\* The variables have their types.
LEMMA Types == ContextsInv => TypeOK
<1> SUFFICES ASSUME ContextsInv
             PROVE  TypeOK
  OBVIOUS
<1>1. /\ IsMemory(mem) /\ state \in [Tasks -> States] /\ saved \in [Tasks -> Words]
      /\ expect \in [Stacks -> [Regs -> Int]]
      /\ tss \in {0} \cup {Top(t) : t \in Tasks}
      /\ main \in Words /\ enable \in {0, 1} /\ current \in Stacks
      /\ cpu = expect[current]
  BY Zenon DEF ContextsInv, Settled, Typed
<1>2. DOMAIN mem = Words /\ DOMAIN expect = Stacks
  BY <1>1, Zenon DEF IsMemory
<1>3. DOMAIN cpu = Regs
  BY <1>1, Zenon
<1> QED  BY <1>1, <1>2, <1>3, Zenon DEF TypeOK, States

\* What kernel contexts keep on their stacks is there.
LEMMA StacksKept == ContextsInv => StacksSurvive
<1> SUFFICES ASSUME ContextsInv,
                    NEW c \in {Main} \cup {t \in KernelTasks : state[t] \in {"Ready", "Running"}}
             PROVE  StackHolds(mem, c, expect[c])
  BY Zenon DEF StacksSurvive, StackHolds
<1>1. Settled(mem, state, saved, expect)
  BY Zenon DEF ContextsInv
<1>2. CASE c = Main
  BY <1>1, <1>2, MainImage, Zenon
<1>3. CASE c # Main
  <2>1. c \in KernelTasks /\ state[c] \in {"Ready", "Running"}
    BY <1>3, Zenon
  <2>2. state[c] \in Live
    BY <2>1 DEF Live
  <2>3. c \in Tasks /\ ~IsUser(c)
    BY <2>1, ContextsAssumption, Zenon DEF Tasks, IsUser
  <2>4. c \in Stacks
    BY <2>3, TaskStacks, Zenon
  <2> QED  BY <1>1, <2>2, <2>3, <2>4, LiveFits, Zenon
<1> QED  BY <1>2, <1>3, Zenon

\* The frames of tasks and main's registers are where they are looked for.
LEMMA FramesKept == ContextsInv => FramesAreSaved
<1> SUFFICES ASSUME ContextsInv
             PROVE  FramesAreSaved
  OBVIOUS
<1>1. TypeOK
  BY Types, Zenon
<1>2. ASSUME NEW t \in Tasks, state[t] \in {"Ready", "Blocked"}
      PROVE  /\ saved[t] >= Top(t) - StackSize + HandlerDepth
             /\ IsUser(t) => saved[t] + Len(TrapFrame) = Top(t)
             /\ \A i \in 1 .. Len(TrapFrame) :
                  mem[saved[t] + i - 1] = expect[t][TrapFrame[i]]
  <2>1. /\ saved[t] \in Int /\ saved[t] - HandlerDepth >= Top(t) - StackSize
        /\ IsUser(t) => saved[t] + Len(TrapFrame) = Top(t)
        /\ FrameHolds(mem, saved[t], expect[t])
    BY <1>2, SavedFrame, Zenon
  <2>2. t \in Stacks /\ Top(t) \in Nat
    BY TaskStacks, EvenTop, Zenon
  <2>3. saved[t] >= Top(t) - StackSize + HandlerDepth
    BY <2>1, <2>2, Sizes
  <2> QED  BY <2>1, <2>3, Zenon DEF FrameHolds
<1>3. current # Main =>
        \A i \in 1 .. Len(MainPops) : mem[main + i - 1] = expect[Main][MainPops[i]]
  BY Zenon DEF ContextsInv, MainReady, MainHolds
<1> QED  BY <1>1, <1>2, <1>3, Zenon DEF FramesAreSaved

\* In user mode rsp0 is the top of the running task's own stack, and it is free.
LEMMA EntryStackFree == ContextsInv => UserEntryStack
<1> SUFFICES ASSUME ContextsInv, cpu["cs"] = UserMode
             PROVE  /\ tss = Top(current)
                    /\ \A t \in Tasks : state[t] \in {"Ready", "Blocked"} =>
                         saved[t] \notin Zone(current)
  BY Zenon DEF UserEntryStack
<1>1. /\ current \in Stacks /\ Image(current, cpu)
      /\ IsUser(current) => current \in Tasks /\ state[current] = "Running"
  BY RunningContext, Zenon
<1>2. IsUser(current)
  BY <1>1 DEF Image, UserMode
<1>3. current \in Tasks /\ current # Main /\ state[current] = "Running"
  BY <1>1, <1>2, TaskStacks, Zenon
<1>4. tss = Top(current)
  BY <1>3, Zenon DEF ContextsInv
<1>5. ASSUME NEW t \in Tasks, state[t] \in {"Ready", "Blocked"}
      PROVE  saved[t] \notin Zone(current)
  <2>1. t # current
    BY <1>3, <1>5
  <2>2. /\ saved[t] \in Int /\ saved[t] - HandlerDepth >= Top(t) - StackSize
        /\ saved[t] + 20 <= Top(t)
    BY <1>5, SavedFrame, Zenon
  <2>3. t \in Stacks /\ Top(t) \in Nat /\ Top(current) \in Nat
    BY <1>1, TaskStacks, EvenTop, Zenon
  <2>4. Top(t) <= Top(current) - StackSize \/ Top(current) <= Top(t) - StackSize
    BY <1>1, <2>1, <2>3, ZonesApart, Zenon
  <2> QED  BY <2>2, <2>3, <2>4, Sizes DEF Zone
<1> QED  BY <1>4, <1>5, Zenon

\* A context that runs finds every register as it left it, whatever ran since it
\* was interrupted, except for the result of its system call: for any number of
\* tasks and any sizes of stacks.
THEOREM RegistersSurviveTheorem == Spec => []RegistersSurvive
<1>1. ContextsInv => RegistersSurvive
  BY Zenon DEF ContextsInv, RegistersSurvive
<1> QED  BY <1>1, ContextsInvariant, PTL

\* What main and kernel tasks keep on their stacks survives the frames and the
\* handlers that run on these and on all other stacks.
THEOREM StacksSurviveTheorem == Spec => []StacksSurvive
BY StacksKept, ContextsInvariant, PTL

\* A task that will run again always has a whole TrapFrame on its own stack, with
\* room for a handler below it, and main its registers while a task runs.
THEOREM FramesAreSavedTheorem == Spec => []FramesAreSaved
BY FramesKept, ContextsInvariant, PTL

\* In user mode TSS.rsp0 is the top of the running task's own stack, and no frame
\* of another task is there for the next entry to overwrite.
THEOREM UserEntryStackTheorem == Spec => []UserEntryStack
BY EntryStackFree, ContextsInvariant, PTL
=============================================================================
