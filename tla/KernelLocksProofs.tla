-------------------------- MODULE KernelLocksProofs --------------------------
(***************************************************************************)
(* Locks and interrupts on the one CPU, for any set of kernel and user     *)
(* tasks: no lock is ever found taken, none is held across a switch, every *)
(* interrupt that is served is ended, and interrupts come back.            *)
(*                                                                         *)
(* The code that a context has left to run is described by what may follow *)
(* what (Shape), which holds of the rest of a code as it holds of all of   *)
(* it.  LockInv says which shape the operation of a context (its base) and *)
(* the handler on top of it (its gate) have.                               *)
(***************************************************************************)
EXTENDS KernelLocks, TLAPS

-----------------------------------------------------------------------------
(* Codes *)

Ops == {"lock", "unlock", "cli", "restore", "eoi", "pick", "leave", "iret"}
Instr == Ops \X (Locks \cup Irqs \cup {""})

\* What handlers run while an operation that holds a lock is interrupted.
LightInstr ==
  {"lock", "unlock", "cli", "restore", "eoi", "iret"}
    \X ((Locks \cup Irqs \cup {""}) \ {"MEMORY_STATE", "ALLOCATOR"})

\* What the set-up paths run with interrupts on.
LoadInstr == {"lock", "unlock"} \X {"MEMORY_STATE", "ALLOCATOR"}

\* What operations run outside handlers; main does not end.
BaseInstr == {i \in Instr : i[1] \notin {"eoi", "pick"}}
MainInstr == {i \in Instr : i[1] \notin {"eoi", "pick", "leave", "iret"}}

\* Code that goes on with a lock held.
Holding == {"unlock", "eoi"}

\* Instruction b may follow a.
Follows(a, b) ==
  /\ a[1] = "lock" =>
       /\ a[2] \in Locks
       /\ b = <<"unlock", a[2]>> \/ (a[2] = "PICS" /\ b[1] = "eoi")
  /\ a[1] = "eoi" => b = <<"unlock", "PICS">>
  /\ a[1] \notin {"lock", "eoi"} => b[1] \notin Holding

Shape(code) ==
  /\ code \in Seq(Instr)
  /\ \A i \in 1 .. Len(code) - 1 : Follows(code[i], code[i + 1])
  /\ code # <<>> => code[Len(code)][1] \notin {"lock", "eoi"}

Fresh(code) == code # <<>> => code[1][1] \notin Holding

Has(code, op) == \E i \in 1 .. Len(code) : code[i][1] = op

\* The end of a handler.
IretLast(code) == \A i \in 1 .. Len(code) - 1 : code[i][1] # "iret"

\* The rest of a without_interrupts.
Body(code) ==
  /\ code # <<>> /\ code[Len(code)][1] = "restore"
  /\ \A i \in 1 .. Len(code) : code[i][1] # "cli"
  /\ \A i \in 1 .. Len(code) - 1 : code[i][1] # "restore"

\* A task ends before it returns from its base.
LeavesFirst(code) ==
  \A i \in 1 .. Len(code) : code[i][1] = "iret" => \E j \in 1 .. i - 1 : code[j][1] = "leave"

\* The lock that a code has still to release.
Holds(code, lock) ==
  /\ code # <<>>
  /\ code[1] = <<"unlock", lock>> \/ (code[1][1] = "eoi" /\ lock = "PICS")

-----------------------------------------------------------------------------
(* The invariant *)

Frames == [rest : Seq(Instr), enabled : BOOLEAN, was : BOOLEAN, next : Contexts]

Started(s) == ~s.enabled /\ s.was /\ Body(s.rest)
Waiting(s) == s.enabled /\ s.rest # <<>> /\ s.rest[1][1] = "cli" /\ Body(Tail(s.rest))
Loading(s) == s.enabled /\ s.rest \in Seq(LoadInstr)
Quiet(s) == s.enabled /\ (s.rest # <<>> => s.rest[1][1] = "cli")

\* What a context runs outside handlers.
Base(c, s) ==
  /\ s \in Frames
  /\ Shape(s.rest) /\ s.rest \in Seq(BaseInstr)
  /\ Started(s) \/ Waiting(s) \/ Loading(s)
  /\ c = Main => s.rest \in Seq(MainInstr)

\* A handler of context c.
Gate(s) ==
  /\ s \in Frames
  /\ Shape(s.rest) /\ IretLast(s.rest)
  /\ ~s.enabled /\ ~s.was

\* A handler that stays with the context and away from the locks it may hold.
Light(c, s) == s.rest \in Seq(LightInstr) /\ s.next = c

\* The code of a task that has not ended.
Ends(code) == LeavesFirst(code) /\ (Has(code, "leave") => Has(code, "iret"))

\* Context c does not run, and will go on with s.
Suspended(c, s) ==
  /\ Base(c, s) /\ s.next = c /\ Ends(s.rest)
  /\ IF c = Main THEN s.rest = <<<<"restore", "">>>> ELSE Quiet(s)

\* Context c runs s outside handlers; live are main and the tasks that have not
\* ended, on is whether there is preemption.
RunsBase(c, s, live, on) ==
  /\ Base(c, s) /\ s.next \in live
  /\ IF c \in live THEN s.next = c /\ Ends(s.rest) ELSE Started(s) /\ Has(s.rest, "iret")
  /\ s.enabled => Quiet(s) \/ ~on

\* Context c runs handler g on top of s.
RunsGate(c, g, s, live, on) ==
  /\ Gate(g) /\ g.next \in live
  /\ Base(c, s) /\ s.enabled
  /\ c \in live => s.next = c /\ Ends(s.rest)
  /\ Quiet(s) \/ (c \in live /\ ~on /\ Light(c, g))
  /\ c = Main => Light(c, g)

Live == ready \cup {Main}

\* The handler of every interrupt in service is on top, before its end.
InService(g, irqs) == \A irq \in irqs : \E i \in 1 .. Len(g.rest) : g.rest[i] = <<"eoi", irq>>

Runs(c, fs, live, on, irqs) ==
  \/ Len(fs) = 1 /\ RunsBase(c, fs[1], live, on) /\ irqs = {}
  \/ Len(fs) = 2 /\ RunsGate(c, fs[1], fs[2], live, on) /\ InService(fs[1], irqs)

\* The locks that context c holds are those its code has still to release.
Accounts(h, c, fs) ==
  \A lock \in Locks :
    h[lock] = IF \E i \in 1 .. Len(fs) : Holds(fs[i].rest, lock) THEN c ELSE Free

Waits(c) ==
  IF c \in Live THEN Len(streams[c]) = 1 /\ Suspended(c, streams[c][1]) ELSE streams[c] = <<>>

LockInv ==
  /\ held \in [Locks -> Contexts \cup {Free}]
  /\ streams \in [Contexts -> Seq(Frames)]
  /\ cur \in Contexts /\ ready \subseteq Tasks /\ preempt \in BOOLEAN /\ inService \subseteq Irqs
  /\ Runs(cur, streams[cur], Live, preempt, inService)
  /\ Accounts(held, cur, streams[cur])
  /\ \A c \in Contexts \ {cur} : Waits(c)

-----------------------------------------------------------------------------
(* Codes: the rest of a code, and codes one after the other. *)

\* A sequence is empty when its length is zero.
LEMMA Emptiness ==
  ASSUME NEW S, NEW code \in Seq(S)
  PROVE  Len(code) \in Nat /\ (code = <<>> <=> Len(code) = 0)
OBVIOUS

\* Codes one after the other.
LEMMA ConcatProperties ==
  ASSUME NEW S, NEW a \in Seq(S), NEW b \in Seq(S)
  PROVE  /\ a \o b \in Seq(S)
         /\ Len(a \o b) = Len(a) + Len(b)
         /\ \A i \in 1 .. Len(a) + Len(b) :
              (a \o b)[i] = IF i <= Len(a) THEN a[i] ELSE b[i - Len(a)]
OBVIOUS

\* Three codes one after the other.
LEMMA ConcatAssociative ==
  ASSUME NEW S, NEW a \in Seq(S), NEW b \in Seq(S), NEW c \in Seq(S)
  PROVE  (a \o b) \o c = a \o (b \o c)
OBVIOUS

\* Where the instructions of the rest of a code are.
LEMMA Rest ==
  ASSUME NEW S, NEW code \in Seq(S), code # <<>>
  PROVE  /\ Len(code) \in Nat \ {0} /\ code[1] \in S
         /\ Tail(code) \in Seq(S) /\ Len(Tail(code)) = Len(code) - 1
         /\ \A i \in 1 .. Len(code) - 1 : Tail(code)[i] = code[i + 1]
         /\ Tail(code) = <<>> <=> Len(code) = 1
<1>1. /\ Len(code) \in Nat \ {0} /\ code[1] \in S
      /\ Tail(code) \in Seq(S) /\ Len(Tail(code)) = Len(code) - 1
      /\ \A i \in 1 .. Len(code) - 1 : Tail(code)[i] = code[i + 1]
  BY Emptiness
<1>2. Tail(code) = <<>> <=> Len(Tail(code)) = 0
  BY <1>1, Emptiness, Zenon
<1> QED
  BY <1>1, <1>2

\* The rest of a code has its shape, and goes on as Follows says.
LEMMA TailShape ==
  ASSUME NEW code, Shape(code), code # <<>>
  PROVE  /\ Shape(Tail(code)) /\ code[1] \in Instr
         /\ code[1][1] \in {"lock", "eoi"} => Tail(code) # <<>>
         /\ Tail(code) # <<>> => Follows(code[1], Tail(code)[1])
<1>1. /\ code \in Seq(Instr) /\ Len(code) \in Nat \ {0}
      /\ Tail(code) \in Seq(Instr) /\ Len(Tail(code)) = Len(code) - 1
      /\ \A i \in 1 .. Len(code) - 1 : Tail(code)[i] = code[i + 1]
      /\ Tail(code) = <<>> <=> Len(code) = 1
  BY Rest, Zenon DEF Shape
<1>2. Tail(code) # <<>> => Len(Tail(code)) \in Nat \ {0}
  BY <1>1
<1>3. \A i \in 1 .. Len(Tail(code)) - 1 : Follows(Tail(code)[i], Tail(code)[i + 1])
  BY <1>1 DEF Shape
<1>4. Tail(code) # <<>> => Tail(code)[Len(Tail(code))][1] \notin {"lock", "eoi"}
  BY <1>1, <1>2 DEF Shape
<1>5. Tail(code) # <<>> => Follows(code[1], Tail(code)[1])
  BY <1>1, <1>2 DEF Shape
<1>6. code[1][1] \in {"lock", "eoi"} => Tail(code) # <<>>
  <2>2. Tail(code) = <<>> => code[Len(code)] = code[1]
    BY <1>1, Zenon
  <2> QED
    BY <2>2, Zenon DEF Shape
<1> QED
  BY <1>1, <1>3, <1>4, <1>5, <1>6 DEF Shape

\* Code may be put before code that does not begin with the release of a lock.
LEMMA ConcatShape ==
  ASSUME NEW a, NEW b, Shape(a), Shape(b), Fresh(b)
  PROVE  Shape(a \o b) /\ (Fresh(a) => Fresh(a \o b))
<1> DEFINE c == a \o b
<1>1. /\ a \in Seq(Instr) /\ b \in Seq(Instr) /\ c \in Seq(Instr)
      /\ Len(a) \in Nat /\ Len(b) \in Nat /\ Len(c) = Len(a) + Len(b)
      /\ \A i \in 1 .. Len(a) : c[i] = a[i]
      /\ \A i \in Len(a) + 1 .. Len(c) : c[i] = b[i - Len(a)]
  BY ConcatProperties DEF Shape
<1>2. /\ a = <<>> <=> Len(a) = 0
      /\ b = <<>> <=> Len(b) = 0
      /\ c = <<>> <=> Len(c) = 0
  BY <1>1
<1> HIDE DEF c
<1>3. ASSUME NEW i \in 1 .. Len(c) - 1
      PROVE  Follows(c[i], c[i + 1])
  <2>1. CASE i < Len(a)
    <3>1. c[i] = a[i] /\ c[i + 1] = a[i + 1] /\ i \in 1 .. Len(a) - 1
      BY <1>1, <2>1
    <3> QED
      BY <3>1, Zenon DEF Shape
  <2>2. CASE i = Len(a)
    <3>1. c[i] = a[Len(a)] /\ c[i + 1] = b[1] /\ a # <<>> /\ b # <<>>
      BY <1>1, <1>2, <2>2
    <3>2. a[Len(a)][1] \notin {"lock", "eoi"} /\ b[1][1] \notin Holding
      BY <3>1, Zenon DEF Shape, Fresh
    <3> QED
      BY <3>1, <3>2, Zenon DEF Follows
  <2>3. CASE i > Len(a)
    <3> DEFINE k == i - Len(a)
    <3>1. c[i] = b[k] /\ c[i + 1] = b[k + 1] /\ k \in 1 .. Len(b) - 1
      BY <1>1, <2>3
    <3> QED
      BY <3>1, Zenon DEF Shape
  <2> QED
    BY <1>1, <2>1, <2>2, <2>3
<1>4. c # <<>> => c[Len(c)][1] \notin {"lock", "eoi"}
  <2>1. CASE b = <<>>
    <3>1. Len(c) = Len(a) /\ (c # <<>> => a # <<>> /\ c[Len(c)] = a[Len(a)])
      BY <1>1, <1>2, <2>1
    <3> QED
      BY <3>1, Zenon DEF Shape
  <2>2. CASE b # <<>>
    <3>1. c[Len(c)] = b[Len(b)]
      BY <1>1, <1>2, <2>2
    <3> QED
      BY <3>1, <2>2, Zenon DEF Shape
  <2> QED
    BY <2>1, <2>2, Zenon
<1>5. Fresh(a) => Fresh(c)
  <2>1. CASE a = <<>>
    <3>1. c # <<>> => b # <<>> /\ c[1] = b[1]
      BY <1>1, <1>2, <2>1
    <3> QED
      BY <3>1, Zenon DEF Fresh
  <2>2. CASE a # <<>>
    <3>1. c[1] = a[1]
      BY <1>1, <1>2, <2>2
    <3> QED
      BY <3>1, <2>2, Zenon DEF Fresh
  <2> QED
    BY <2>1, <2>2, Zenon
<1>6. Shape(c)
  BY <1>1, <1>3, <1>4, Zenon DEF Shape
<1> QED
  BY <1>5, <1>6, Zenon DEF c

\* The instructions of a code are those of its parts.
LEMMA Parts ==
  ASSUME NEW S, NEW a \in Seq(S), NEW b \in Seq(S)
  PROVE  /\ a \o b \in Seq(S)
         /\ a # <<>> => Tail(a) \in Seq(S)
BY ConcatProperties

\* Only the end of a handler's code is an iretq, and it stays so.
LEMMA IretStaysLast ==
  ASSUME NEW code \in Seq(Instr), IretLast(code), code # <<>>
  PROVE  /\ IretLast(Tail(code))
         /\ code[1][1] = "iret" => Len(code) = 1
<1>1. /\ Len(code) \in Nat \ {0} /\ Len(Tail(code)) = Len(code) - 1
      /\ \A i \in 1 .. Len(code) - 1 : Tail(code)[i] = code[i + 1]
  BY Rest, Zenon
<1>2. code[1][1] = "iret" => Len(code) = 1
  BY <1>1 DEF IretLast
<1> QED
  BY <1>1, <1>2 DEF IretLast

\* Code without iretq may be put before the code of a handler.
LEMMA IretBehind ==
  ASSUME NEW a \in Seq(Instr), ~Has(a, "iret"), NEW b \in Seq(Instr), IretLast(b)
  PROVE  IretLast(a \o b)
<1>1. /\ Len(a) \in Nat /\ Len(b) \in Nat /\ Len(a \o b) = Len(a) + Len(b)
      /\ \A i \in 1 .. Len(a) : (a \o b)[i] = a[i]
      /\ \A i \in Len(a) + 1 .. Len(a) + Len(b) : (a \o b)[i] = b[i - Len(a)]
  BY ConcatProperties
<1>2. ASSUME NEW i \in 1 .. Len(a \o b) - 1
      PROVE  (a \o b)[i][1] # "iret"
  <2>1. CASE i <= Len(a)
    BY <1>1, <2>1 DEF Has
  <2>2. CASE i > Len(a)
    <3> DEFINE k == i - Len(a)
    <3>1. k \in 1 .. Len(b) - 1 /\ (a \o b)[i] = b[k]
      BY <1>1, <2>2
    <3> QED
      BY <3>1, Zenon DEF IretLast
  <2> QED
    BY <1>1, <2>1, <2>2
<1> QED
  BY <1>2, Zenon DEF IretLast

\* The rest of a without_interrupts is one until its end.
LEMMA BodyGoesOn ==
  ASSUME NEW code \in Seq(Instr), Body(code)
  PROVE  /\ code # <<>>
         /\ code[1][1] # "cli"
         /\ code[1][1] # "restore" => Body(Tail(code))
         /\ code[1][1] = "restore" => Tail(code) = <<>>
<1>1. /\ Len(code) \in Nat \ {0} /\ Len(Tail(code)) = Len(code) - 1
      /\ Tail(code) \in Seq(Instr)
      /\ \A i \in 1 .. Len(code) - 1 : Tail(code)[i] = code[i + 1]
      /\ Tail(code) = <<>> <=> Len(code) = 1
  BY Rest, Zenon DEF Body
<1>2. code[1][1] = "restore" => Len(code) = 1
  BY <1>1 DEF Body
<1>3. code[1][1] # "restore" => Len(code) > 1
  BY <1>1 DEF Body
<1> QED
  BY <1>1, <1>2, <1>3 DEF Body

\* Code may be put before the rest of a without_interrupts.
LEMMA BodyBehind ==
  ASSUME NEW a \in Seq(Instr), ~Has(a, "cli"), ~Has(a, "restore"),
         NEW b \in Seq(Instr), Body(b)
  PROVE  Body(a \o b)
<1>1. /\ Len(a) \in Nat /\ Len(b) \in Nat \ {0} /\ Len(a \o b) = Len(a) + Len(b)
      /\ \A i \in 1 .. Len(a) : (a \o b)[i] = a[i]
      /\ \A i \in Len(a) + 1 .. Len(a) + Len(b) : (a \o b)[i] = b[i - Len(a)]
  BY ConcatProperties DEF Body
<1>2. a \o b # <<>>
  BY <1>1
<1>3. (a \o b)[Len(a \o b)] = b[Len(b)]
  BY <1>1
<1>4. ASSUME NEW i \in 1 .. Len(a \o b)
      PROVE  (a \o b)[i][1] # "cli" /\ (i < Len(a \o b) => (a \o b)[i][1] # "restore")
  <2>1. CASE i <= Len(a)
    BY <1>1, <2>1 DEF Has
  <2>2. CASE i > Len(a)
    <3> DEFINE k == i - Len(a)
    <3>1. (a \o b)[i] = b[k] /\ k \in 1 .. Len(b) /\ (i < Len(a \o b) => k \in 1 .. Len(b) - 1)
      BY <1>1, <2>2
    <3> QED
      BY <3>1, Zenon DEF Body
  <2> QED
    BY <1>1, <2>1, <2>2
<1> QED
  BY <1>1, <1>2, <1>3, <1>4 DEF Body

\* What is left to run still ends the task before it returns, unless that was
\* the end of the task.
LEMMA LeavesStaysFirst ==
  ASSUME NEW code \in Seq(Instr), LeavesFirst(code), code # <<>>
  PROVE  /\ code[1][1] # "iret"
         /\ code[1][1] # "leave" => LeavesFirst(Tail(code))
<1>1. /\ Len(code) \in Nat \ {0} /\ Len(Tail(code)) = Len(code) - 1
      /\ \A i \in 1 .. Len(code) - 1 : Tail(code)[i] = code[i + 1]
  BY Rest
<1>2. code[1][1] # "iret"
  BY <1>1 DEF LeavesFirst
<1>3. ASSUME code[1][1] # "leave", NEW i \in 1 .. Len(Tail(code)), Tail(code)[i][1] = "iret"
      PROVE  \E j \in 1 .. i - 1 : Tail(code)[j][1] = "leave"
  <2>1. PICK j \in 1 .. i : code[j][1] = "leave"
    BY <1>1, <1>3 DEF LeavesFirst
  <2>2. j - 1 \in 1 .. i - 1 /\ Tail(code)[j - 1] = code[j]
    BY <1>1, <1>3, <2>1
  <2> QED
    BY <2>1, <2>2, Zenon
<1> QED
  BY <1>2, <1>3, Zenon DEF LeavesFirst

\* What occurs in a code occurs in one of its parts.
LEMMA HasParts ==
  ASSUME NEW a \in Seq(Instr), NEW b \in Seq(Instr), NEW op, Has(a \o b, op)
  PROVE  Has(a, op) \/ Has(b, op)
<1>1. /\ Len(a) \in Nat /\ Len(b) \in Nat /\ Len(a \o b) = Len(a) + Len(b)
      /\ \A i \in 1 .. Len(a) : (a \o b)[i] = a[i]
      /\ \A i \in Len(a) + 1 .. Len(a) + Len(b) : (a \o b)[i] = b[i - Len(a)]
  BY ConcatProperties
<1>2. PICK i \in 1 .. Len(a \o b) : (a \o b)[i][1] = op
  BY Zenon DEF Has
<1>3. CASE i <= Len(a)
  BY <1>1, <1>2, <1>3 DEF Has
<1>4. CASE i > Len(a)
  <2>1. i - Len(a) \in 1 .. Len(b) /\ b[i - Len(a)][1] = op
    BY <1>1, <1>2, <1>4
  <2> QED
    BY <2>1, Zenon DEF Has
<1> QED
  BY <1>1, <1>3, <1>4

\* What occurs in the second part of a code occurs in it.
LEMMA HasBehind ==
  ASSUME NEW a \in Seq(Instr), NEW b \in Seq(Instr), NEW op, Has(b, op)
  PROVE  Has(a \o b, op)
<1>1. /\ Len(a) \in Nat /\ Len(b) \in Nat /\ Len(a \o b) = Len(a) + Len(b)
      /\ \A i \in Len(a) + 1 .. Len(a) + Len(b) : (a \o b)[i] = b[i - Len(a)]
  BY ConcatProperties
<1>2. PICK i \in 1 .. Len(b) : b[i][1] = op
  BY Zenon DEF Has
<1>3. i + Len(a) \in 1 .. Len(a \o b) /\ (a \o b)[i + Len(a)] = b[i]
  BY <1>1, <1>2
<1> QED
  BY <1>2, <1>3, Zenon DEF Has

\* A code has no instruction that is not among its instructions.
LEMMA HasNot ==
  ASSUME NEW S, NEW code \in Seq(S), NEW op, \A i \in S : i[1] # op
  PROVE  ~Has(code, op)
<1>1. \A i \in 1 .. Len(code) : code[i] \in S
  OBVIOUS
<1> QED
  BY <1>1, Zenon DEF Has

-----------------------------------------------------------------------------
(* The operations of the kernel *)

\* Pieces of code that a handler is made of.
Piece(code) == Shape(code) /\ Fresh(code) /\ ~Has(code, "iret")

\* Code that only takes and releases locks, each before the next.
Plain(code) == Shape(code) /\ Fresh(code) /\ code \in Seq({"lock", "unlock"} \X Locks)

Handler(code) == Shape(code) /\ Fresh(code) /\ IretLast(code)

\* One instruction.
LEMMA Single ==
  ASSUME NEW i \in Instr, i[1] \notin {"lock", "eoi", "unlock"}
  PROVE  /\ Shape(<<i>>) /\ Fresh(<<i>>) /\ IretLast(<<i>>)
         /\ \A op : Has(<<i>>, op) <=> op = i[1]
<1>1. <<i>> \in Seq(Instr) /\ Len(<<i>>) = 1 /\ <<i>>[1] = i
  OBVIOUS
<1> HIDE DEF Instr
<1>2. Shape(<<i>>)
  BY <1>1 DEF Shape
<1>3. Fresh(<<i>>)
  BY <1>1, Zenon DEF Fresh, Holding
<1>4. IretLast(<<i>>)
  BY <1>1 DEF IretLast
<1>5. \A op : Has(<<i>>, op) <=> op = i[1]
  BY <1>1 DEF Has
<1> QED
  BY <1>2, <1>3, <1>4, <1>5, Zenon

\* A lock that is taken and released.
LEMMA LockedIsPlain ==
  ASSUME NEW lock \in Locks
  PROVE  /\ Plain(Locked(lock))
         /\ \A S : <<"lock", lock>> \in S /\ <<"unlock", lock>> \in S => Locked(lock) \in Seq(S)
<1> DEFINE a == <<"lock", lock>>
           b == <<"unlock", lock>>
<1>1. a[1] = "lock" /\ a[2] = lock /\ b[1] = "unlock" /\ b[2] = lock
  BY Zenon
<1>2. a \in {"lock", "unlock"} \X Locks /\ b \in {"lock", "unlock"} \X Locks
      /\ a \in Instr /\ b \in Instr
  BY Zenon DEF Instr, Ops
<1>3. Follows(a, b)
  BY <1>1, Zenon DEF Follows
<1> HIDE DEF a, b
<1>4. /\ Len(<<a, b>>) = 2 /\ <<a, b>>[1] = a /\ <<a, b>>[2] = b
      /\ \A S : a \in S /\ b \in S => <<a, b>> \in Seq(S)
  OBVIOUS
<1>5. Shape(<<a, b>>)
  BY <1>1, <1>2, <1>3, <1>4 DEF Shape
<1>6. Fresh(<<a, b>>)
  BY <1>1, <1>4, Zenon DEF Fresh, Holding
<1>7. Plain(<<a, b>>)
  BY <1>2, <1>4, <1>5, <1>6, Zenon DEF Plain
<1>8. Locked(lock) = <<a, b>>
  BY Zenon DEF Locked, a, b
<1> QED
  BY <1>4, <1>7, <1>8, Zenon DEF a, b

\* Codes that only take and release locks may follow each other.
LEMMA PlainParts ==
  ASSUME NEW a, NEW b, Plain(a), Plain(b)
  PROVE  Plain(a \o b)
BY ConcatShape, Parts, Zenon DEF Plain

\* The empty code.
LEMMA NothingIsPlain == Plain(<<>>)
<1>1. \A S : <<>> \in Seq(S)
  OBVIOUS
<1>2. Len(<<>>) = 0
  BY Zenon
<1> QED
  BY <1>1, <1>2 DEF Plain, Shape, Fresh

\* Such code has none of the other instructions.
LEMMA PlainHas ==
  ASSUME NEW code, Plain(code), NEW op, op \notin {"lock", "unlock"}
  PROVE  ~Has(code, op)
<1>1. \A i \in {"lock", "unlock"} \X Locks : i[1] # op
  BY Zenon
<1> QED
  BY <1>1, HasNot, Zenon DEF Plain

\* It may run in a base, in main too.
LEMMA PlainIsMain ==
  ASSUME NEW code, Plain(code)
  PROVE  code \in Seq(MainInstr) /\ code \in Seq(BaseInstr) /\ code \in Seq(Instr)
<1>1. \A i \in {"lock", "unlock"} \X Locks : i \in MainInstr /\ i \in BaseInstr /\ i \in Instr
  BY Zenon DEF MainInstr, BaseInstr, Instr, Ops
<1>2. \A S, T : S \subseteq T => Seq(S) \subseteq Seq(T)
  OBVIOUS
<1> QED
  BY <1>1, <1>2, Zenon DEF Plain

\* WithState, Allocate and Load only take and release locks.
LEMMA SetUpIsPlain ==
  /\ Plain(WithState) /\ Plain(Allocate)
  /\ Plain(Load) /\ Load \in Seq(LoadInstr)
<1>1. "MEMORY_STATE" \in Locks /\ "ALLOCATOR" \in Locks
  BY Zenon DEF Locks
<1>2. Plain(WithState) /\ Plain(Allocate)
  BY <1>1, LockedIsPlain, Zenon DEF WithState, Allocate
<1>3. WithState \in Seq(LoadInstr) /\ Allocate \in Seq(LoadInstr)
  <2>1. \A lock \in {"MEMORY_STATE", "ALLOCATOR"} :
          <<"lock", lock>> \in LoadInstr /\ <<"unlock", lock>> \in LoadInstr
    BY Zenon DEF LoadInstr
  <2> QED
    BY <1>1, <2>1, LockedIsPlain, Zenon DEF WithState, Allocate
<1>4. Load \in Seq(LoadInstr) /\ Plain(Load)
  BY <1>2, <1>3, PlainParts, Parts, Zenon DEF Load
<1> QED
  BY <1>2, <1>4, Zenon

\* The kernel's root is read under a lock.
LEMMA RootIsPlain ==
  ASSUME NEW c
  PROVE  Plain(Root(c))
BY SetUpIsPlain, NothingIsPlain, Zenon DEF Root

\* What is run without interrupts begins with cli and ends with restore.
LEMMA WithoutInterruptsIs ==
  ASSUME NEW body, Shape(body), Fresh(body), ~Has(body, "cli"), ~Has(body, "restore")
  PROVE  LET code == WithoutInterrupts(body) IN
         /\ Shape(code) /\ Fresh(code) /\ code # <<>> /\ code[1][1] = "cli"
         /\ Tail(code) = body \o <<<<"restore", "">>>>
         /\ Body(Tail(code))
         /\ \A op : Has(code, op) => op \in {"cli", "restore"} \/ Has(body, op)
<1> DEFINE cli == <<"cli", "">>
           restore == <<"restore", "">>
           code == (<<cli>> \o body) \o <<restore>>
<1>1. cli \in Instr /\ restore \in Instr /\ cli[1] = "cli" /\ restore[1] = "restore"
  BY Zenon DEF Instr, Ops
<1> HIDE DEF cli, restore
<1>2. /\ Shape(<<cli>>) /\ Fresh(<<cli>>) /\ <<cli>> \in Seq(Instr)
      /\ \A op : Has(<<cli>>, op) <=> op = "cli"
  BY <1>1, Single
<1>3. /\ Shape(<<restore>>) /\ Fresh(<<restore>>) /\ <<restore>> \in Seq(Instr)
      /\ \A op : Has(<<restore>>, op) <=> op = "restore"
  BY <1>1, Single
<1>4. Shape(<<cli>> \o body) /\ Fresh(<<cli>> \o body)
  BY <1>2, ConcatShape, Zenon
<1>5. Shape(code) /\ Fresh(code)
  BY <1>3, <1>4, ConcatShape, Zenon
<1>6. body \in Seq(Instr) /\ <<cli>> \o body \in Seq(Instr)
  BY <1>4, Zenon DEF Shape
<1>7. code = <<cli>> \o (body \o <<restore>>) /\ body \o <<restore>> \in Seq(Instr)
  BY <1>2, <1>3, <1>6, ConcatAssociative, ConcatProperties
<1>8. /\ \A t \in Seq(Instr) : <<cli>> \o t # <<>> /\ (<<cli>> \o t)[1] = cli
      /\ \A t \in Seq(Instr) : Tail(<<cli>> \o t) = t
  BY <1>1
<1>9. code # <<>> /\ code[1][1] = "cli" /\ Tail(code) = body \o <<restore>>
  BY <1>1, <1>7, <1>8, Zenon
<1>10. Body(<<restore>>)
  <2>1. Len(<<restore>>) = 1 /\ <<restore>>[1] = restore /\ <<restore>> # <<>>
    BY Zenon
  <2> QED
    BY <1>1, <2>1 DEF Body
<1>11. Body(body \o <<restore>>)
  BY <1>3, <1>6, <1>10, BodyBehind, Zenon
<1>12. ASSUME NEW op, Has(code, op)
       PROVE  op \in {"cli", "restore"} \/ Has(body, op)
  BY <1>2, <1>3, <1>6, <1>12, HasParts, Zenon
<1>13. WithoutInterrupts(body) = code
  BY Zenon DEF WithoutInterrupts, cli, restore
<1> HIDE DEF code
<1> QED
  BY <1>5, <1>9, <1>11, <1>12, <1>13, Zenon DEF restore

\* An operation that runs without interrupts.
Operation(code) ==
  /\ Shape(code) /\ code # <<>> /\ code[1][1] = "cli" /\ Body(Tail(code))
  /\ code \in Seq(BaseInstr)

\* What is run without interrupts, if it only takes and releases locks.
LEMMA PlainOperation ==
  ASSUME NEW body, Plain(body)
  PROVE  LET code == WithoutInterrupts(body) IN
         Operation(code) /\ Fresh(code) /\ code \in Seq(MainInstr) /\ ~Has(code, "iret")
<1> DEFINE cli == <<"cli", "">>
           restore == <<"restore", "">>
           code == (<<cli>> \o body) \o <<restore>>
<1>1. ~Has(body, "cli") /\ ~Has(body, "restore") /\ ~Has(body, "iret")
  BY PlainHas, Zenon
<1>2. Shape(body) /\ Fresh(body)
  BY Zenon DEF Plain
<1>3. code = WithoutInterrupts(body)
  BY Zenon DEF WithoutInterrupts
<1>4. cli \in MainInstr /\ restore \in MainInstr /\ cli \in BaseInstr /\ restore \in BaseInstr
  BY Zenon DEF MainInstr, BaseInstr, Instr, Ops
<1> HIDE DEF cli, restore
<1>5. body \in Seq(MainInstr) /\ body \in Seq(BaseInstr)
  BY PlainIsMain, Zenon
<1>6. \A S, i : i \in S => <<i>> \in Seq(S)
  OBVIOUS
<1>7. code \in Seq(MainInstr) /\ code \in Seq(BaseInstr)
  BY <1>4, <1>5, <1>6, Parts, Zenon
<1>8. /\ Shape(code) /\ Fresh(code) /\ code # <<>> /\ code[1][1] = "cli"
      /\ Body(Tail(code)) /\ ~Has(code, "iret")
  BY <1>1, <1>2, <1>3, WithoutInterruptsIs, Zenon
<1> HIDE DEF code
<1> QED
  BY <1>3, <1>7, <1>8, Zenon DEF Operation

\* The operations of the kernel outside handlers.
LEMMA KernelOperations ==
  ASSUME NEW ops \in {VgaPrint, SerialPrint, WriteBytes, Spawn, Query, QueryUserMemory}
  PROVE  Operation(ops) /\ Fresh(ops) /\ ops \in Seq(MainInstr) /\ ~Has(ops, "iret")
<1>1. /\ "WRITER" \in Locks /\ "SERIAL1" \in Locks /\ "OUTPUT_BUFFER" \in Locks
  BY Zenon DEF Locks
<1>2. /\ Plain(Locked("WRITER")) /\ Plain(Locked("SERIAL1")) /\ Plain(Locked("OUTPUT_BUFFER"))
  BY <1>1, LockedIsPlain, Zenon
<1>3. Plain(Locked("SERIAL1") \o Locked("OUTPUT_BUFFER"))
  BY <1>2, PlainParts, Zenon
<1>4. PICK body : Plain(body) /\ ops = WithoutInterrupts(body)
  BY <1>2, <1>3, SetUpIsPlain, NothingIsPlain, Zenon
     DEF VgaPrint, SerialPrint, WriteBytes, Spawn, Query, QueryUserMemory
<1> QED
  BY <1>4, PlainOperation, Zenon

\* Code that does not return.
LEMMA NoIretLeaves ==
  ASSUME NEW code, ~Has(code, "iret")
  PROVE  LeavesFirst(code)
BY Zenon DEF Has, LeavesFirst

\* A code ends the task before it returns, if its parts do or the first one
\* ends the task.
LEMMA LeavesParts ==
  ASSUME NEW a \in Seq(Instr), LeavesFirst(a), NEW b \in Seq(Instr),
         LeavesFirst(b) \/ Has(a, "leave")
  PROVE  LeavesFirst(a \o b)
<1>1. /\ Len(a) \in Nat /\ Len(b) \in Nat /\ Len(a \o b) = Len(a) + Len(b)
      /\ \A i \in 1 .. Len(a) : (a \o b)[i] = a[i]
      /\ \A i \in Len(a) + 1 .. Len(a) + Len(b) : (a \o b)[i] = b[i - Len(a)]
  BY ConcatProperties
<1>2. ASSUME NEW i \in 1 .. Len(a \o b), (a \o b)[i][1] = "iret"
      PROVE  \E j \in 1 .. i - 1 : (a \o b)[j][1] = "leave"
  <2>1. CASE i <= Len(a)
    <3>1. PICK j \in 1 .. i - 1 : a[j][1] = "leave"
      BY <1>1, <1>2, <2>1 DEF LeavesFirst
    <3> QED
      BY <1>1, <2>1, <3>1
  <2>2. CASE i > Len(a) /\ Has(a, "leave")
    <3>1. PICK j \in 1 .. Len(a) : a[j][1] = "leave"
      BY <2>2, Zenon DEF Has
    <3> QED
      BY <1>1, <2>2, <3>1
  <2>3. CASE i > Len(a) /\ LeavesFirst(b)
    <3>1. i - Len(a) \in 1 .. Len(b) /\ b[i - Len(a)][1] = "iret"
      BY <1>1, <1>2, <2>3
    <3>2. PICK j \in 1 .. (i - Len(a)) - 1 : b[j][1] = "leave"
      BY <2>3, <3>1, Zenon DEF LeavesFirst
    <3>3. j + Len(a) \in 1 .. i - 1 /\ (a \o b)[j + Len(a)] = b[j]
      BY <1>1, <2>3, <3>1, <3>2
    <3> QED
      BY <3>2, <3>3, Zenon
  <2> QED
    BY <1>1, <2>1, <2>2, <2>3
<1> QED
  BY <1>2, Zenon DEF LeavesFirst

\* An instruction of a part is one of the whole.
LEMMA Occurs ==
  ASSUME NEW a \in Seq(Instr), NEW b \in Seq(Instr), NEW c \in Seq(Instr), NEW i \in 1 .. Len(b)
  PROVE  \E j \in 1 .. Len(a \o b \o c) : (a \o b \o c)[j] = b[i]
<1>1. /\ a \o b \in Seq(Instr) /\ Len(a) \in Nat /\ Len(b) \in Nat
      /\ Len(a \o b) = Len(a) + Len(b)
      /\ \A k \in Len(a) + 1 .. Len(a) + Len(b) : (a \o b)[k] = b[k - Len(a)]
  BY ConcatProperties
<1> DEFINE ab == a \o b
           k == i + Len(a)
<1>2. k \in 1 .. Len(ab) /\ ab[k] = b[i] /\ ab \in Seq(Instr) /\ Len(ab) \in Nat
  BY <1>1
<1> HIDE DEF ab, k
<1>3. /\ Len(c) \in Nat /\ Len(ab \o c) = Len(ab) + Len(c)
      /\ \A n \in 1 .. Len(ab) : (ab \o c)[n] = ab[n]
  BY <1>2, ConcatProperties
<1>4. k \in 1 .. Len(ab \o c) /\ (ab \o c)[k] = b[i]
  BY <1>2, <1>3
<1> QED
  BY <1>4, Zenon DEF ab

\* finish_current_task, instruction by instruction.
LEMMA FinishOperation == Operation(Finish) /\ Ends(Finish)
<1> DEFINE cli == <<"cli", "">>
           leave == <<"leave", "">>
           iret == <<"iret", "">>
           restore == <<"restore", "">>
<1>1. /\ cli \in Instr /\ leave \in Instr /\ iret \in Instr /\ restore \in Instr
      /\ cli \in BaseInstr /\ leave \in BaseInstr /\ iret \in BaseInstr /\ restore \in BaseInstr
      /\ cli[1] = "cli" /\ leave[1] = "leave" /\ iret[1] = "iret" /\ restore[1] = "restore"
  BY Zenon DEF BaseInstr, Instr, Ops
<1> HIDE DEF cli, leave, iret, restore
<1>2. /\ Shape(<<leave>>) /\ Fresh(<<leave>>) /\ <<leave>> \in Seq(Instr)
      /\ \A op : Has(<<leave>>, op) <=> op = "leave"
  BY <1>1, Single
<1>3. /\ Shape(<<iret>>) /\ Fresh(<<iret>>) /\ <<iret>> \in Seq(Instr)
      /\ \A op : Has(<<iret>>, op) <=> op = "iret"
  BY <1>1, Single
<1> DEFINE body == <<leave>> \o <<iret>>
<1>4. Shape(body) /\ Fresh(body)
  BY <1>2, <1>3, ConcatShape, Zenon
<1>5. ~Has(body, "cli") /\ ~Has(body, "restore")
  BY <1>2, <1>3, HasParts, Zenon
<1>6. Finish = WithoutInterrupts(body)
  BY Zenon DEF Finish, Leave, Iret, leave, iret
<1>7. /\ Shape(Finish) /\ Finish # <<>> /\ Finish[1][1] = "cli" /\ Body(Tail(Finish))
  <2> HIDE DEF body
  <2> QED
    BY <1>4, <1>5, <1>6, WithoutInterruptsIs, Zenon
<1>8. Finish = (<<cli>> \o body) \o <<restore>>
  BY <1>6, Zenon DEF WithoutInterrupts, cli, restore
<1>9. Finish \in Seq(BaseInstr)
  <2>1. \A i \in BaseInstr : <<i>> \in Seq(BaseInstr)
    OBVIOUS
  <2> QED
    BY <1>1, <1>8, <2>1, Parts, Zenon
<1>10. LeavesFirst(Finish)
  <2>1. /\ <<cli>> \in Seq(Instr) /\ LeavesFirst(<<cli>>)
        /\ LeavesFirst(<<leave>>) /\ Has(<<leave>>, "leave")
        /\ <<restore>> \in Seq(Instr) /\ LeavesFirst(<<restore>>)
    <3>1. \A i \in Instr : <<i>> \in Seq(Instr)
      OBVIOUS
    <3>2. ~Has(<<cli>>, "iret") /\ ~Has(<<leave>>, "iret") /\ ~Has(<<restore>>, "iret")
      BY <1>1, Single, Zenon
    <3> QED
      BY <1>1, <1>2, <3>1, <3>2, NoIretLeaves, Zenon
  <2>2. body \in Seq(Instr) /\ LeavesFirst(body)
    BY <1>2, <1>3, <2>1, LeavesParts, Parts, Zenon
  <2>3. <<cli>> \o body \in Seq(Instr) /\ LeavesFirst(<<cli>> \o body)
    BY <2>1, <2>2, LeavesParts, Parts, Zenon
  <2> QED
    BY <1>8, <2>1, <2>3, LeavesParts, Zenon
<1>11. Has(Finish, "iret")
  <2>1. <<cli>> \in Seq(Instr) /\ body \in Seq(Instr) /\ <<restore>> \in Seq(Instr)
    <3>1. \A i \in Instr : <<i>> \in Seq(Instr)
      OBVIOUS
    <3> QED
      BY <1>1, <1>4, <3>1, Zenon DEF Shape
  <2>2. Has(body, "iret")
    BY <1>2, <1>3, HasBehind, Zenon
  <2> HIDE DEF body
  <2>3. PICK i \in 1 .. Len(body) : body[i][1] = "iret"
    BY <2>2, Zenon DEF Has
  <2>4. \E j \in 1 .. Len(Finish) : Finish[j] = body[i]
    BY <1>8, <2>1, Occurs, Zenon
  <2> QED
    BY <2>3, <2>4, Zenon DEF Has
<1> QED
  BY <1>7, <1>9, <1>10, <1>11, Zenon DEF Operation, Ends

-----------------------------------------------------------------------------
(* The handlers *)

\* Handlers are made of pieces before an iretq.
LEMMA PieceParts ==
  ASSUME NEW a, NEW b, Piece(a)
  PROVE  /\ Piece(b) => Piece(a \o b)
         /\ Handler(b) => Handler(a \o b)
<1>1. Shape(a) /\ Fresh(a) /\ ~Has(a, "iret") /\ a \in Seq(Instr)
  BY Zenon DEF Piece, Shape
<1>2. ASSUME Piece(b) PROVE Piece(a \o b)
  <2>1. Shape(b) /\ Fresh(b) /\ ~Has(b, "iret") /\ b \in Seq(Instr)
    BY <1>2, Zenon DEF Piece, Shape
  <2> QED
    BY <1>1, <2>1, ConcatShape, HasParts, Zenon DEF Piece
<1>3. ASSUME Handler(b) PROVE Handler(a \o b)
  <2>1. Shape(b) /\ Fresh(b) /\ IretLast(b) /\ b \in Seq(Instr)
    BY <1>3, Zenon DEF Handler, Shape
  <2> QED
    BY <1>1, <2>1, ConcatShape, IretBehind, Zenon DEF Handler
<1> QED
  BY <1>2, <1>3, Zenon

\* The pieces.
LEMMA Pieces ==
  /\ \A code : Plain(code) => Piece(code)
  /\ Piece(Pick) /\ Piece(Leave) /\ Piece(VgaPrint) /\ Piece(WriteBytes)
  /\ Piece(WithState) /\ Piece(Allocate) /\ Handler(Iret)
<1>1. ASSUME NEW code, Plain(code) PROVE Piece(code)
  BY <1>1, PlainHas, Zenon DEF Plain, Piece
<1>2. <<"pick", "">> \in Instr /\ <<"leave", "">> \in Instr /\ <<"iret", "">> \in Instr
  BY Zenon DEF Instr, Ops
<1>3. Piece(Pick) /\ Piece(Leave)
  BY <1>2, Single, Zenon DEF Pick, Leave, Piece
<1>4. Handler(Iret)
  BY <1>2, Single, Zenon DEF Iret, Handler
<1>5. Piece(VgaPrint) /\ Piece(WriteBytes)
  BY KernelOperations, Zenon DEF Operation, Piece
<1> QED
  BY <1>1, <1>3, <1>4, <1>5, SetUpIsPlain, Zenon

\* notify_end_of_interrupt.
LEMMA EoiIs ==
  ASSUME NEW irq \in Irqs
  PROVE  /\ Piece(Eoi(irq)) /\ Eoi(irq) \in Seq(LightInstr)
         /\ \E i \in 1 .. Len(Eoi(irq)) : Eoi(irq)[i] = <<"eoi", irq>>
<1> DEFINE a == <<"lock", "PICS">>
           e == <<"eoi", irq>>
           b == <<"unlock", "PICS">>
<1>1. /\ a[1] = "lock" /\ a[2] = "PICS" /\ e[1] = "eoi" /\ b[1] = "unlock" /\ b[2] = "PICS"
      /\ b = <<"unlock", "PICS">>
  BY Zenon
<1>2. "PICS" \in (Locks \cup Irqs \cup {""}) \ {"MEMORY_STATE", "ALLOCATOR"}
      /\ irq \in (Locks \cup Irqs \cup {""}) \ {"MEMORY_STATE", "ALLOCATOR"}
  BY Zenon DEF Locks, Irqs
<1>3. a \in Instr /\ e \in Instr /\ b \in Instr
  BY <1>2, Zenon DEF Instr, Ops
<1>4. a \in LightInstr /\ e \in LightInstr /\ b \in LightInstr
  BY <1>2, Zenon DEF LightInstr
<1>5. Follows(a, e) /\ Follows(e, b)
  BY <1>1, Zenon DEF Follows, Locks
<1>6. Eoi(irq) = <<a, e, b>>
  BY Zenon DEF Eoi
<1> HIDE DEF a, e, b
<1> DEFINE code == <<a, e, b>>
<1>7. /\ Len(code) = 3 /\ code[1] = a /\ code[2] = e /\ code[3] = b /\ code # <<>>
      /\ \A S : a \in S /\ e \in S /\ b \in S => code \in Seq(S)
  OBVIOUS
<1> HIDE DEF code
<1>8. \A i \in 1 .. Len(code) - 1 : Follows(code[i], code[i + 1])
  BY <1>5, <1>7
<1>9. Shape(code)
  BY <1>1, <1>3, <1>7, <1>8, Zenon DEF Shape
<1>10. Fresh(code) /\ ~Has(code, "iret")
  BY <1>1, <1>7 DEF Fresh, Has, Holding
<1>11. Piece(code) /\ code \in Seq(LightInstr)
  BY <1>4, <1>7, <1>9, <1>10, Zenon DEF Piece
<1>12. \E i \in 1 .. Len(code) : code[i] = e
  BY <1>7
<1> QED
  BY <1>6, <1>11, <1>12, Zenon DEF code, e

\* What system calls, exits, faults and yields run.
LEMMA TrapHandlers ==
  ASSUME NEW ops \in Syscalls \cup {Exit, Fault, Pick \o Iret}
  PROVE  Handler(ops)
<1>1. Handler(WithState \o WriteBytes \o Iret) /\ Handler(WithState \o Iret)
  BY Pieces, PieceParts, Zenon
<1>2. Handler(WithState \o Allocate \o Iret) /\ Handler(Pick \o Iret)
  BY Pieces, PieceParts, Zenon
<1>3. Handler(Exit)
  BY Pieces, PieceParts, Zenon DEF Exit
<1>4. Handler(Fault)
  BY <1>3, Pieces, PieceParts, Zenon DEF Fault
<1> QED
  BY <1>1, <1>2, <1>3, <1>4, Zenon DEF Syscalls

\* The end of an interrupt is sent by its handler, which is light unless it
\* switches.
LEMMA IrqHandlers ==
  /\ \A switches \in BOOLEAN :
       /\ Handler(TimerHandler(switches))
       /\ \E i \in 1 .. Len(TimerHandler(switches)) :
            TimerHandler(switches)[i] = <<"eoi", "timer">>
  /\ TimerHandler(FALSE) \in Seq(LightInstr)
  /\ Handler(KeyboardHandler) /\ KeyboardHandler \in Seq(LightInstr)
  /\ \E i \in 1 .. Len(KeyboardHandler) : KeyboardHandler[i] = <<"eoi", "keyboard">>
<1>1. "timer" \in Irqs /\ "keyboard" \in Irqs
  BY Zenon DEF Irqs
<1>2. \A S : <<>> \in Seq(S)
  OBVIOUS
<1>3. Piece(<<>>)
  BY NothingIsPlain, Pieces, Zenon
<1>4. Piece(VgaPrint) /\ Piece(Pick) /\ Handler(Iret)
  BY Pieces, Zenon
<1>5. \A code : Piece(code) \/ Handler(code) => code \in Seq(Instr)
  BY Zenon DEF Piece, Handler, Shape
<1>6. VgaPrint \in Seq(LightInstr) /\ Iret \in Seq(LightInstr)
  <2>1. /\ <<"lock", "WRITER">> \in LightInstr /\ <<"unlock", "WRITER">> \in LightInstr
        /\ "WRITER" \in Locks
    BY Zenon DEF LightInstr, Locks
  <2>2. /\ <<"cli", "">> \in LightInstr /\ <<"restore", "">> \in LightInstr
        /\ <<"iret", "">> \in LightInstr
    BY Zenon DEF LightInstr, Locks, Irqs
  <2>3. Locked("WRITER") \in Seq(LightInstr)
    BY <2>1, LockedIsPlain, Zenon
  <2>4. \A i \in LightInstr : <<i>> \in Seq(LightInstr)
    OBVIOUS
  <2>5. Iret \in Seq(LightInstr)
    BY <2>2, <2>4, Zenon DEF Iret
  <2>6. VgaPrint \in Seq(LightInstr)
    BY <2>2, <2>3, <2>4, Parts, Zenon DEF VgaPrint, WithoutInterrupts
  <2> QED
    BY <2>5, <2>6, Zenon
<1>7. ASSUME NEW irq \in Irqs, NEW pre, Piece(pre)
      PROVE  /\ Handler(pre \o Eoi(irq) \o Iret)
             /\ \E i \in 1 .. Len(pre \o Eoi(irq) \o Iret) :
                  (pre \o Eoi(irq) \o Iret)[i] = <<"eoi", irq>>
  <2> DEFINE eoi == <<"eoi", irq>>
  <2>1. Piece(pre \o Eoi(irq)) /\ pre \o Eoi(irq) \in Seq(Instr)
    BY <1>1, <1>5, <1>7, EoiIs, PieceParts, Zenon
  <2>2. Handler(pre \o Eoi(irq) \o Iret)
    BY <1>4, <2>1, PieceParts, Zenon
  <2>3. pre \in Seq(Instr) /\ Eoi(irq) \in Seq(Instr) /\ Iret \in Seq(Instr)
    BY <1>1, <1>4, <1>5, <1>7, EoiIs, Zenon
  <2>4. PICK i \in 1 .. Len(Eoi(irq)) : Eoi(irq)[i] = eoi
    BY EoiIs, Zenon
  <2> HIDE DEF eoi
  <2>5. \E j \in 1 .. Len(pre \o Eoi(irq) \o Iret) : (pre \o Eoi(irq) \o Iret)[j] = Eoi(irq)[i]
    BY <2>3, Occurs, Zenon
  <2> QED
    BY <2>2, <2>4, <2>5, Zenon DEF eoi
<1>8. ASSUME NEW switches \in BOOLEAN
      PROVE  \E pre : Piece(pre) /\ TimerHandler(switches) = pre \o Eoi("timer") \o Iret
  BY <1>3, <1>4, Zenon DEF TimerHandler
<1>9. TimerHandler(FALSE) \in Seq(LightInstr)
  BY <1>1, <1>2, <1>6, EoiIs, Parts, Zenon DEF TimerHandler
<1>10. Handler(KeyboardHandler) /\ KeyboardHandler \in Seq(LightInstr)
  <2>1. Piece(VgaPrint \o Eoi("keyboard"))
    BY <1>1, <1>4, EoiIs, PieceParts, Zenon
  <2>2. Handler(KeyboardHandler)
    BY <1>4, <2>1, PieceParts, Zenon DEF KeyboardHandler
  <2>3. KeyboardHandler \in Seq(LightInstr)
    BY <1>1, <1>6, EoiIs, Parts, Zenon DEF KeyboardHandler
  <2> QED
    BY <2>2, <2>3, Zenon
<1>11. \E i \in 1 .. Len(KeyboardHandler) : KeyboardHandler[i] = <<"eoi", "keyboard">>
  BY <1>1, <1>4, <1>7, Zenon DEF KeyboardHandler
<1>12. ASSUME NEW switches \in BOOLEAN
       PROVE  /\ Handler(TimerHandler(switches))
              /\ \E i \in 1 .. Len(TimerHandler(switches)) :
                   TimerHandler(switches)[i] = <<"eoi", "timer">>
  <2>1. PICK pre : Piece(pre) /\ TimerHandler(switches) = pre \o Eoi("timer") \o Iret
    BY <1>8, Zenon
  <2> QED
    BY <1>1, <1>7, <2>1, Zenon
<1> QED
  BY <1>9, <1>10, <1>11, <1>12, Zenon

-----------------------------------------------------------------------------
(* Steps outside handlers *)

\* Frame f has these fields.
IsFrame(f, rest, enabled, was, next) ==
  /\ f \in Frames
  /\ f.rest = rest /\ f.enabled = enabled /\ f.was = was /\ f.next = next

\* The frames that the actions make: the rest of the code, interrupts off and
\* back on, and another context to return to.
Advanced(s, rest) == [s EXCEPT !.rest = rest]
Off(s, rest) == [s EXCEPT !.rest = rest, !.was = s.enabled, !.enabled = FALSE]
Parked(s, rest) == [s EXCEPT !.rest = rest, !.enabled = FALSE, !.was = s.enabled]
Back(s, rest) == [s EXCEPT !.rest = rest, !.enabled = s.was]
Switched(s, rest, c) == [s EXCEPT !.rest = rest, !.next = c]

\* The fields of these frames.
LEMMA FrameUpdates ==
  ASSUME NEW s \in Frames, NEW rest \in Seq(Instr)
  PROVE  /\ IsFrame(Advanced(s, rest), rest, s.enabled, s.was, s.next)
         /\ IsFrame(Off(s, rest), rest, FALSE, s.enabled, s.next)
         /\ IsFrame(Parked(s, rest), rest, FALSE, s.enabled, s.next)
         /\ IsFrame(Back(s, rest), rest, s.was, s.was, s.next)
         /\ \A c \in Contexts :
              /\ IsFrame(Switched(s, rest, c), rest, s.enabled, s.was, c)
              /\ IsFrame(InterruptGate(c, rest), rest, FALSE, FALSE, c)
<1>1. s.enabled \in BOOLEAN /\ s.was \in BOOLEAN /\ s.next \in Contexts
  BY Zenon DEF Frames
<1>2. IsFrame(Advanced(s, rest), rest, s.enabled, s.was, s.next)
  BY Zenon DEF IsFrame, Frames, Advanced
<1>3. IsFrame(Off(s, rest), rest, FALSE, s.enabled, s.next)
  BY <1>1, Zenon DEF IsFrame, Frames, Off
<1>4. IsFrame(Parked(s, rest), rest, FALSE, s.enabled, s.next)
  BY <1>1, Zenon DEF IsFrame, Frames, Parked
<1>5. IsFrame(Back(s, rest), rest, s.was, s.was, s.next)
  BY <1>1, Zenon DEF IsFrame, Frames, Back
<1>6. ASSUME NEW c \in Contexts
      PROVE  IsFrame(Switched(s, rest, c), rest, s.enabled, s.was, c)
  BY <1>1, Zenon DEF IsFrame, Frames, Switched
<1>7. ASSUME NEW c \in Contexts
      PROVE  IsFrame(InterruptGate(c, rest), rest, FALSE, FALSE, c)
  BY Zenon DEF IsFrame, Frames, InterruptGate
<1> QED
  BY <1>2, <1>3, <1>4, <1>5, <1>6, <1>7, Zenon

\* What occurs later, after an instruction that is something else.
LEMMA HasLater ==
  ASSUME NEW code \in Seq(Instr), code # <<>>, NEW op
  PROVE  /\ Has(Tail(code), op) => Has(code, op)
         /\ Has(code, op) /\ code[1][1] # op => Has(Tail(code), op)
<1>1. /\ Len(code) \in Nat \ {0} /\ Len(Tail(code)) = Len(code) - 1
      /\ \A i \in 1 .. Len(code) - 1 : Tail(code)[i] = code[i + 1]
  BY Rest, Zenon
<1>2. ASSUME Has(Tail(code), op) PROVE Has(code, op)
  <2>1. PICK i \in 1 .. Len(Tail(code)) : Tail(code)[i][1] = op
    BY <1>2, Zenon DEF Has
  <2>2. i + 1 \in 1 .. Len(code) /\ code[i + 1][1] = op
    BY <1>1, <2>1
  <2> QED
    BY <2>2, Zenon DEF Has
<1>3. ASSUME Has(code, op), code[1][1] # op PROVE Has(Tail(code), op)
  <2>1. PICK i \in 1 .. Len(code) : code[i][1] = op
    BY <1>3, Zenon DEF Has
  <2>2. i - 1 \in 1 .. Len(Tail(code)) /\ Tail(code)[i - 1][1] = op
    BY <1>1, <1>3, <2>1
  <2> QED
    BY <2>2, Zenon DEF Has
<1> QED
  BY <1>2, <1>3, Zenon

\* A task that has not ended goes on so.
LEMMA EndsLater ==
  ASSUME NEW code \in Seq(Instr), Ends(code), code # <<>>
  PROVE  /\ code[1][1] # "iret"
         /\ code[1][1] # "leave" => Ends(Tail(code))
         /\ code[1][1] = "leave" => Has(Tail(code), "iret")
<1>1. LeavesFirst(code) /\ code[1][1] # "iret"
  BY LeavesStaysFirst, Zenon DEF Ends
<1>2. code[1][1] = "leave" => Has(code, "leave")
  <2>1. 1 \in 1 .. Len(code)
    BY Rest
  <2> QED
    BY <2>1, Zenon DEF Has
<1> QED
  BY <1>1, <1>2, LeavesStaysFirst, HasLater, Zenon DEF Ends

\* Which phase a base is in, from its next instruction.
LEMMA BasePhase ==
  ASSUME NEW c, NEW s, Base(c, s), s.rest # <<>>
  PROVE  /\ s \in Frames /\ s.rest \in Seq(Instr) /\ s.rest[1] \in BaseInstr
         /\ s.rest[1][1] = "cli" => Waiting(s)
         /\ s.rest[1][1] \in {"restore", "leave", "iret"} => Started(s)
         /\ s.rest[1][1] # "cli" => ~Waiting(s)
         /\ c = Main => s.rest[1] \in MainInstr
<1>1. s \in Frames /\ s.rest \in Seq(Instr) /\ s.rest \in Seq(BaseInstr)
  BY Zenon DEF Base, Frames
<1>2. s.rest[1] \in BaseInstr /\ (c = Main => s.rest[1] \in MainInstr)
  BY <1>1, Rest, Zenon DEF Base
<1>3. Loading(s) => s.rest[1] \in LoadInstr
  BY Rest, Zenon DEF Loading
<1>4. Loading(s) => s.rest[1][1] \in {"lock", "unlock"}
  BY <1>3, Zenon DEF LoadInstr
<1>5. Started(s) => s.rest[1][1] # "cli"
  BY <1>1, BodyGoesOn, Zenon DEF Started
<1>6. Waiting(s) => s.rest[1][1] = "cli"
  BY Zenon DEF Waiting
<1>7. Started(s) \/ Waiting(s) \/ Loading(s)
  BY Zenon DEF Base
<1> QED
  BY <1>1, <1>2, <1>4, <1>5, <1>6, <1>7, Zenon

-----------------------------------------------------------------------------
(* The locks that a code holds *)

\* The two parts of an instruction.
LEMMA Pair ==
  ASSUME NEW S, NEW T, NEW i \in S \X T
  PROVE  i = <<i[1], i[2]>>
OBVIOUS

\* A lock is held from the instruction after its lock up to its unlock.
LEMMA HoldsNext ==
  ASSUME NEW code, Shape(code), code # <<>>
  PROVE  /\ code[1][1] = "lock" =>
              /\ code[1][2] \in Locks
              /\ \A lock \in Locks :
                   ~Holds(code, lock) /\ (Holds(Tail(code), lock) <=> lock = code[1][2])
         /\ code[1][1] = "unlock" =>
              \A lock \in Locks :
                (Holds(code, lock) <=> lock = code[1][2]) /\ ~Holds(Tail(code), lock)
         /\ code[1][1] = "eoi" =>
              \A lock \in Locks :
                (Holds(code, lock) <=> lock = "PICS") /\ (Holds(Tail(code), lock) <=> lock = "PICS")
         /\ code[1][1] \notin {"lock", "unlock", "eoi"} =>
              Fresh(Tail(code)) /\ \A lock : ~Holds(code, lock) /\ ~Holds(Tail(code), lock)
<1> DEFINE a == code[1]
           b == Tail(code)[1]
<1>1. /\ a \in Instr /\ Shape(Tail(code))
      /\ a[1] \in {"lock", "eoi"} => Tail(code) # <<>>
      /\ Tail(code) # <<>> => Follows(a, b)
  BY TailShape, Zenon
<1>2. a = <<a[1], a[2]>>
  <2> HIDE DEF a
  <2> QED
    BY <1>1, Pair, Zenon DEF Instr
<1>3. Tail(code) # <<>> => b \in Instr
  BY <1>1, Rest, Zenon DEF Shape
<1>4. /\ \A lock : Holds(code, lock) <=> a = <<"unlock", lock>> \/ (a[1] = "eoi" /\ lock = "PICS")
      /\ \A lock : Holds(Tail(code), lock) <=>
           Tail(code) # <<>> /\ (b = <<"unlock", lock>> \/ (b[1] = "eoi" /\ lock = "PICS"))
  BY Zenon DEF Holds
<1> HIDE DEF a, b
<1>5. CASE a[1] = "lock"
  <2>1. a[2] \in Locks /\ Tail(code) # <<>>
        /\ (b = <<"unlock", a[2]>> \/ (a[2] = "PICS" /\ b[1] = "eoi"))
    BY <1>1, <1>5, Zenon DEF Follows
  <2>2. \A lock : ~Holds(code, lock)
    BY <1>4, <1>5
  <2>3. \A lock \in Locks : Holds(Tail(code), lock) <=> lock = a[2]
    BY <1>4, <2>1
  <2> QED
    BY <1>5, <2>1, <2>2, <2>3, Zenon DEF a
<1>6. CASE a[1] = "unlock"
  <2>1. Tail(code) # <<>> => b[1] \notin {"unlock", "eoi"}
    BY <1>1, <1>6, Zenon DEF Follows, Holding
  <2>2. \A lock : ~Holds(Tail(code), lock)
    BY <1>4, <2>1
  <2>3. \A lock : Holds(code, lock) <=> lock = a[2]
    BY <1>2, <1>4, <1>6
  <2> QED
    BY <1>6, <2>2, <2>3, Zenon DEF a
<1>7. CASE a[1] = "eoi"
  <2>1. Tail(code) # <<>> /\ b = <<"unlock", "PICS">>
    BY <1>1, <1>7, Zenon DEF Follows
  <2>2. \A lock : Holds(code, lock) <=> lock = "PICS"
    BY <1>4, <1>7
  <2>3. \A lock : Holds(Tail(code), lock) <=> lock = "PICS"
    BY <1>4, <2>1, Zenon
  <2> QED
    BY <1>7, <2>2, <2>3, Zenon DEF a
<1>8. CASE a[1] \notin {"lock", "unlock", "eoi"}
  <2>1. Tail(code) # <<>> => b[1] \notin {"unlock", "eoi"}
    BY <1>1, <1>8, Zenon DEF Follows, Holding
  <2>2. \A lock : ~Holds(Tail(code), lock) /\ ~Holds(code, lock)
    BY <1>4, <1>8, <2>1
  <2>3. Fresh(Tail(code))
    BY <2>1, Zenon DEF Fresh, Holding, b
  <2> QED
    BY <1>8, <2>2, <2>3, Zenon DEF a
<1> QED
  BY <1>5, <1>6, <1>7, <1>8, Zenon DEF a

\* Code that does not begin with the release of a lock holds none.
LEMMA FreshHolds ==
  ASSUME NEW code, Fresh(code), NEW lock
  PROVE  ~Holds(code, lock)
BY DEF Fresh, Holds, Holding

\* A base that waits for nothing holds no lock; one of the set-up paths holds
\* at most the lock of MEMORY_STATE or of the heap.
LEMMA BaseHolds ==
  ASSUME NEW c, NEW s, Base(c, s), s.enabled
  PROVE  /\ Quiet(s) => \A lock : ~Holds(s.rest, lock)
         /\ \A lock : Holds(s.rest, lock) => lock \in {"MEMORY_STATE", "ALLOCATOR"}
<1>1. Quiet(s) => \A lock : ~Holds(s.rest, lock)
  BY DEF Quiet, Holds
<1>2. ASSUME NEW lock, Holds(s.rest, lock)
      PROVE  lock \in {"MEMORY_STATE", "ALLOCATOR"}
  <2>1. Loading(s) /\ s.rest # <<>>
    BY <1>2 DEF Base, Started, Waiting, Holds
  <2>2. s.rest[1] \in LoadInstr
    BY <2>1, Rest, Zenon DEF Loading
  <2>3. s.rest[1] = <<"unlock", lock>>
    BY <1>2, <2>2, Zenon DEF Holds, LoadInstr
  <2> QED
    BY <2>2, <2>3 DEF LoadInstr
<1> QED
  BY <1>1, <1>2, Zenon

-----------------------------------------------------------------------------
(* Steps outside handlers, and where they end *)

\* A lock is taken or released.
LEMMA BaseAdvances ==
  ASSUME NEW c, NEW s, NEW live, NEW on, RunsBase(c, s, live, on),
         s.rest # <<>>, s.rest[1][1] \in {"lock", "unlock"},
         NEW f, IsFrame(f, Tail(s.rest), s.enabled, s.was, s.next)
  PROVE  RunsBase(c, f, live, on)
<1>1. Base(c, s) /\ Shape(s.rest) /\ s.rest \in Seq(Instr)
  BY Zenon DEF RunsBase, Base, Shape
<1>2. /\ f \in Frames /\ f.rest = Tail(s.rest) /\ f.enabled = s.enabled
      /\ f.was = s.was /\ f.next = s.next
  BY Zenon DEF IsFrame
<1>3. Shape(f.rest)
  BY <1>1, <1>2, TailShape, Zenon
<1>4. f.rest \in Seq(BaseInstr) /\ (c = Main => f.rest \in Seq(MainInstr))
  BY <1>1, <1>2, Rest DEF Base
<1>5. Started(s) => Started(f)
  BY <1>1, <1>2, BodyGoesOn, Zenon DEF Started
<1>6. Loading(s) => Loading(f)
  BY <1>2, Rest DEF Loading
<1>7. Started(s) \/ Loading(s)
  <2>1. ~Waiting(s)
    BY <1>1, BasePhase, Zenon
  <2> QED
    BY <1>1, <2>1, Zenon DEF Base
<1>8. Base(c, f)
  BY <1>2, <1>3, <1>4, <1>5, <1>6, <1>7, Zenon DEF Base
<1>9. s.enabled => ~on
  BY Zenon DEF RunsBase, Quiet
<1>10. c \in live => f.next = c /\ Ends(f.rest)
  BY <1>1, <1>2, EndsLater, Zenon DEF RunsBase
<1>11. c \notin live => Started(f) /\ Has(f.rest, "iret")
  BY <1>1, <1>2, <1>5, HasLater DEF RunsBase
<1>12. f.next \in live
  BY <1>2, Zenon DEF RunsBase
<1> QED
  BY <1>2, <1>8, <1>9, <1>10, <1>11, <1>12, Zenon DEF RunsBase

\* Interrupts are turned off.
LEMMA BaseCli ==
  ASSUME NEW c, NEW s, NEW live, NEW on, RunsBase(c, s, live, on),
         s.rest # <<>>, s.rest[1][1] = "cli",
         NEW f, IsFrame(f, Tail(s.rest), FALSE, s.enabled, s.next)
  PROVE  RunsBase(c, f, live, on)
<1>1. Base(c, s) /\ Shape(s.rest) /\ s.rest \in Seq(Instr)
  BY Zenon DEF RunsBase, Base, Shape
<1>2. Waiting(s)
  BY <1>1, BasePhase, Zenon
<1>3. /\ f \in Frames /\ f.rest = Tail(s.rest) /\ ~f.enabled
      /\ f.was /\ f.next = s.next
  BY <1>2, Zenon DEF IsFrame, Waiting
<1>4. Shape(f.rest)
  BY <1>1, <1>3, TailShape, Zenon
<1>5. f.rest \in Seq(BaseInstr) /\ (c = Main => f.rest \in Seq(MainInstr))
  BY <1>1, <1>3, Rest DEF Base
<1>6. Started(f)
  BY <1>2, <1>3, Zenon DEF Started, Waiting
<1>7. Base(c, f)
  BY <1>3, <1>4, <1>5, <1>6, Zenon DEF Base
<1>8. c \in live
  BY <1>2, Zenon DEF RunsBase, Started, Waiting
<1>9. f.next = c /\ Ends(f.rest)
  BY <1>1, <1>3, <1>8, EndsLater, Zenon DEF RunsBase
<1> QED
  BY <1>3, <1>7, <1>8, <1>9, Zenon DEF RunsBase

\* Interrupts come back: the operation is over, and the task has not ended.
LEMMA BaseRestore ==
  ASSUME NEW c, NEW s, NEW live, NEW on, RunsBase(c, s, live, on),
         s.rest # <<>>, s.rest[1][1] = "restore",
         NEW f, IsFrame(f, Tail(s.rest), s.was, s.was, s.next)
  PROVE  RunsBase(c, f, live, on)
<1>1. Base(c, s) /\ Shape(s.rest) /\ s.rest \in Seq(Instr)
  BY Zenon DEF RunsBase, Base, Shape
<1>2. Started(s)
  BY <1>1, BasePhase, Zenon
<1>3. Tail(s.rest) = <<>>
  BY <1>1, <1>2, BodyGoesOn, Zenon DEF Started
<1>4. f \in Frames /\ f.rest = <<>> /\ f.enabled /\ f.next = s.next
  BY <1>2, <1>3, Zenon DEF IsFrame, Started
<1>5. \A S : <<>> \in Seq(S)
  OBVIOUS
<1>6. Shape(f.rest)
  BY <1>4, NothingIsPlain, Zenon DEF Plain
<1>7. Base(c, f) /\ Quiet(f)
  BY <1>4, <1>5, <1>6, Zenon DEF Base, Loading, Quiet
<1>8. c \in live
  <2>1. ~Has(<<>>, "iret")
    BY NothingIsPlain, PlainHas, Zenon
  <2> QED
    BY <1>1, <1>3, <2>1, HasLater, Zenon DEF RunsBase
<1>9. f.next = c /\ Ends(f.rest)
  BY <1>1, <1>3, <1>4, <1>8, EndsLater, Zenon DEF RunsBase
<1> QED
  BY <1>4, <1>7, <1>8, <1>9, Zenon DEF RunsBase

\* The end of a task: it runs on until its last iretq, which goes elsewhere.
LEMMA BaseLeaves ==
  ASSUME NEW c, NEW s, NEW live, NEW on, RunsBase(c, s, live, on),
         s.rest # <<>>, s.rest[1][1] = "leave", NEW left, c \notin left, NEW d \in left,
         NEW f, IsFrame(f, Root(d) \o Tail(s.rest), s.enabled, s.was, d)
  PROVE  RunsBase(c, f, left, on)
<1>1. Base(c, s) /\ Shape(s.rest) /\ s.rest \in Seq(Instr)
  BY Zenon DEF RunsBase, Base, Shape
<1>2. Started(s) /\ (c = Main => s.rest[1] \in MainInstr)
  BY <1>1, BasePhase, Zenon
<1>3. c # Main
  BY <1>2, Zenon DEF MainInstr
<1>4. /\ f \in Frames /\ f.rest = Root(d) \o Tail(s.rest) /\ ~f.enabled
      /\ f.was /\ f.next = d
  BY <1>2, Zenon DEF IsFrame, Started
<1>5. Plain(Root(d))
  BY RootIsPlain, Zenon
<1>6. Root(d) \in Seq(BaseInstr) /\ Root(d) \in Seq(Instr)
  BY <1>5, PlainIsMain, Zenon
<1>7. Shape(Tail(s.rest)) /\ Fresh(Tail(s.rest)) /\ Tail(s.rest) \in Seq(Instr)
  BY <1>1, TailShape, HoldsNext, Zenon DEF Shape
<1>8. Shape(f.rest)
  BY <1>4, <1>5, <1>7, ConcatShape, Zenon DEF Plain
<1>9. f.rest \in Seq(BaseInstr)
  <2>1. Tail(s.rest) \in Seq(BaseInstr)
    BY <1>1, Rest, Zenon DEF Base
  <2> QED
    BY <1>4, <1>6, <2>1, Parts, Zenon
<1>10. Body(Tail(s.rest))
  BY <1>1, <1>2, BodyGoesOn, Zenon DEF Started
<1>11. Body(f.rest)
  <2>1. ~Has(Root(d), "cli") /\ ~Has(Root(d), "restore")
    BY <1>5, PlainHas, Zenon
  <2> QED
    BY <1>4, <1>6, <1>7, <1>10, <2>1, BodyBehind, Zenon
<1>12. Started(f) /\ Base(c, f)
  BY <1>3, <1>4, <1>8, <1>9, <1>11, Zenon DEF Started, Base
<1>13. Has(Tail(s.rest), "iret")
  BY <1>1, EndsLater, HasLater, Zenon DEF RunsBase
<1>14. Has(f.rest, "iret")
  BY <1>4, <1>6, <1>7, <1>13, HasBehind, Zenon
<1> QED
  BY <1>4, <1>12, <1>14, Zenon DEF RunsBase

\* Only a task that has ended returns from its base, main does not end, and a
\* base has no other instructions of handlers.
LEMMA BaseReturns ==
  ASSUME NEW c, NEW s, NEW live, NEW on, RunsBase(c, s, live, on), s.rest # <<>>
  PROVE  /\ s.rest[1][1] = "iret" => c \notin live
         /\ s.rest[1][1] = "leave" => c # Main
         /\ s.rest[1][1] \notin {"eoi", "pick"}
<1>1. Base(c, s) /\ s.rest \in Seq(Instr)
  BY Zenon DEF RunsBase, Base, Shape
<1>2. s.rest[1] \in BaseInstr /\ (c = Main => s.rest[1] \in MainInstr)
  BY <1>1, BasePhase, Zenon
<1>3. s.rest[1][1] = "iret" => c \notin live
  BY <1>1, EndsLater, Zenon DEF RunsBase
<1> QED
  BY <1>2, <1>3, Zenon DEF BaseInstr, MainInstr

-----------------------------------------------------------------------------
(* Steps of handlers *)

\* A handler goes on; what it has ended is no longer in service.
LEMMA GateAdvances ==
  ASSUME NEW c, NEW g, NEW s, NEW live, NEW on, RunsGate(c, g, s, live, on), g.rest # <<>>,
         NEW f, IsFrame(f, Tail(g.rest), FALSE, FALSE, g.next),
         NEW irqs, InService(g, irqs)
  PROVE  /\ RunsGate(c, f, s, live, on)
         /\ g.rest[1][1] = "eoi" => InService(f, irqs \ {g.rest[1][2]})
         /\ g.rest[1][1] # "eoi" => InService(f, irqs)
<1>1. Gate(g) /\ Shape(g.rest) /\ IretLast(g.rest) /\ g.rest \in Seq(Instr)
  BY Zenon DEF RunsGate, Gate, Shape
<1>2. f \in Frames /\ f.rest = Tail(g.rest) /\ ~f.enabled /\ ~f.was /\ f.next = g.next
  BY Zenon DEF IsFrame
<1>3. Gate(f)
  BY <1>1, <1>2, TailShape, IretStaysLast, Zenon DEF Gate
<1>4. Light(c, g) => Light(c, f)
  BY <1>2, Rest, Zenon DEF Light
<1>5. RunsGate(c, f, s, live, on)
  BY <1>2, <1>3, <1>4, Zenon DEF RunsGate
<1>6. ASSUME NEW irq \in irqs, g.rest[1] # <<"eoi", irq>>
      PROVE  \E i \in 1 .. Len(f.rest) : f.rest[i] = <<"eoi", irq>>
  <2> DEFINE eoi == <<"eoi", irq>>
  <2>1. PICK i \in 1 .. Len(g.rest) : g.rest[i] = eoi
    BY Zenon DEF InService
  <2>2. g.rest[1] # eoi
    BY <1>6, Zenon
  <2> HIDE DEF eoi
  <2>3. /\ Len(g.rest) \in Nat \ {0} /\ Len(Tail(g.rest)) = Len(g.rest) - 1
        /\ \A j \in 1 .. Len(g.rest) - 1 : Tail(g.rest)[j] = g.rest[j + 1]
    BY <1>1, Rest, Zenon
  <2>4. i - 1 \in 1 .. Len(f.rest) /\ f.rest[i - 1] = eoi
    BY <1>2, <2>1, <2>2, <2>3
  <2> QED
    BY <2>4, Zenon DEF eoi
<1>7. g.rest[1][1] = "eoi" => InService(f, irqs \ {g.rest[1][2]})
  <2>1. \A irq : g.rest[1] = <<"eoi", irq>> => irq = g.rest[1][2]
    OBVIOUS
  <2> QED
    BY <1>6, <2>1, Zenon DEF InService
<1>8. g.rest[1][1] # "eoi" => InService(f, irqs)
  <2>1. \A irq : g.rest[1] = <<"eoi", irq>> => g.rest[1][1] = "eoi"
    OBVIOUS
  <2> QED
    BY <1>6, <2>1, Zenon DEF InService
<1> QED
  BY <1>5, <1>7, <1>8, Zenon

\* A handler switches, after a pick or at the end of a task: not that of main,
\* and not while an operation holds a lock.
LEMMA GateSwitches ==
  ASSUME NEW c, NEW g, NEW s, NEW live, NEW on, RunsGate(c, g, s, live, on),
         g.rest # <<>>, g.rest[1][1] \in {"pick", "leave"},
         NEW left, left \subseteq live, NEW d \in left,
         NEW f, IsFrame(f, Root(d) \o Tail(g.rest), FALSE, FALSE, d),
         NEW irqs, InService(g, irqs)
  PROVE  /\ c # Main /\ Quiet(s) /\ Fresh(f.rest)
         /\ RunsGate(c, f, s, left, on) /\ InService(f, irqs)
<1>1. Gate(g) /\ Shape(g.rest) /\ IretLast(g.rest) /\ g.rest \in Seq(Instr)
  BY Zenon DEF RunsGate, Gate, Shape
<1>2. /\ f \in Frames /\ f.rest = Root(d) \o Tail(g.rest) /\ ~f.enabled
      /\ ~f.was /\ f.next = d
  BY Zenon DEF IsFrame
<1>3. ~Light(c, g)
  <2>1. Light(c, g) => g.rest[1] \in LightInstr
    BY Rest, Zenon DEF Light
  <2> QED
    BY <2>1, Zenon DEF LightInstr
<1>4. c # Main /\ Quiet(s)
  BY <1>3, Zenon DEF RunsGate
<1>5. Plain(Root(d)) /\ Root(d) \in Seq(Instr) /\ ~Has(Root(d), "iret")
  BY RootIsPlain, PlainIsMain, PlainHas, Zenon
<1>6. /\ Shape(Tail(g.rest)) /\ Fresh(Tail(g.rest)) /\ Tail(g.rest) \in Seq(Instr)
      /\ IretLast(Tail(g.rest))
  BY <1>1, TailShape, HoldsNext, IretStaysLast, Zenon DEF Shape
<1>7. Shape(f.rest) /\ Fresh(f.rest)
  BY <1>2, <1>5, <1>6, ConcatShape, Zenon DEF Plain
<1>8. IretLast(f.rest)
  BY <1>2, <1>5, <1>6, IretBehind, Zenon
<1>9. Gate(f)
  BY <1>2, <1>7, <1>8, Zenon DEF Gate
<1>10. RunsGate(c, f, s, left, on)
  BY <1>2, <1>4, <1>9, Zenon DEF RunsGate
<1>11. ASSUME NEW irq \in irqs
       PROVE  \E i \in 1 .. Len(f.rest) : f.rest[i] = <<"eoi", irq>>
  <2> DEFINE eoi == <<"eoi", irq>>
  <2>1. PICK i \in 1 .. Len(g.rest) : g.rest[i] = eoi
    BY Zenon DEF InService
  <2>2. g.rest[1] # eoi
    OBVIOUS
  <2> HIDE DEF eoi
  <2> DEFINE a == Root(d)
             b == Tail(g.rest)
             n == Len(a) + (i - 1)
  <2>3. /\ Len(g.rest) \in Nat \ {0} /\ Len(b) = Len(g.rest) - 1
        /\ \A j \in 1 .. Len(g.rest) - 1 : b[j] = g.rest[j + 1]
    BY <1>1, Rest, Zenon
  <2>4. /\ Len(a) \in Nat /\ Len(f.rest) = Len(a) + Len(b)
        /\ \A k \in Len(a) + 1 .. Len(a) + Len(b) : f.rest[k] = b[k - Len(a)]
    BY <1>2, <1>5, <1>6, ConcatProperties
  <2> HIDE DEF a, b
  <2>5. i - 1 \in 1 .. Len(b) /\ b[i - 1] = eoi
    BY <2>1, <2>2, <2>3
  <2>6. n \in 1 .. Len(f.rest) /\ f.rest[n] = eoi
    <3>1. /\ n \in Len(a) + 1 .. Len(a) + Len(b) /\ n - Len(a) = i - 1
          /\ n \in 1 .. Len(f.rest)
      BY <2>3, <2>4, <2>5
    <3> HIDE DEF n
    <3> QED
      BY <2>4, <2>5, <3>1, Zenon
  <2> QED
    BY <2>6, Zenon DEF eoi
<1>12. InService(f, irqs)
  BY <1>11, Zenon DEF InService
<1> QED
  BY <1>4, <1>7, <1>10, <1>12, Zenon

\* A handler ends when every interrupt in service has been ended; the context
\* that it interrupted goes on, or is left waiting, or has ended.
LEMMA GateReturns ==
  ASSUME NEW c, NEW g, NEW s, NEW live, NEW on, RunsGate(c, g, s, live, on),
         g.rest # <<>>, g.rest[1][1] = "iret", NEW irqs, InService(g, irqs)
  PROVE  /\ irqs = {}
         /\ g.next = c => RunsBase(c, s, live, on)
         /\ g.next # c => Quiet(s) /\ c # Main /\ (c \in live => Suspended(c, s))
<1>1. Gate(g) /\ Shape(g.rest) /\ IretLast(g.rest) /\ g.rest \in Seq(Instr)
  BY Zenon DEF RunsGate, Gate, Shape
<1>2. Len(g.rest) = 1
  BY <1>1, IretStaysLast, Zenon
<1>3. irqs = {}
  <2>1. \A irq : g.rest[1] # <<"eoi", irq>>
    OBVIOUS
  <2> QED
    BY <1>2, <2>1 DEF InService
<1>4. Base(c, s) /\ s.enabled /\ g.next \in live
  BY Zenon DEF RunsGate
<1>5. ASSUME g.next = c
      PROVE  RunsBase(c, s, live, on)
  <2>1. c \in live /\ s.next = c /\ Ends(s.rest)
    BY <1>4, <1>5, Zenon DEF RunsGate
  <2>2. Quiet(s) \/ ~on
    BY Zenon DEF RunsGate
  <2> QED
    BY <1>4, <2>1, <2>2, Zenon DEF RunsBase
<1>6. ASSUME g.next # c
      PROVE  Quiet(s) /\ c # Main /\ (c \in live => Suspended(c, s))
  <2>1. Quiet(s) /\ c # Main
    BY <1>6, Zenon DEF RunsGate, Light
  <2>2. c \in live => s.next = c /\ Ends(s.rest)
    BY Zenon DEF RunsGate
  <2> QED
    BY <1>4, <2>1, <2>2, Zenon DEF Suspended
<1> QED
  BY <1>3, <1>5, <1>6, Zenon

-----------------------------------------------------------------------------
(* Steps of the running context *)

\* The locks that a context holds, in its handler and below it.
HoldsIn(fs, lock) ==
  Holds(fs[1].rest, lock) \/ (Len(fs) = 2 /\ Holds(fs[2].rest, lock))

\* Accounts, for an operation and at most one handler.
LEMMA AccountsIs ==
  ASSUME NEW h, NEW c, NEW fs, Len(fs) = 1 \/ Len(fs) = 2
  PROVE  Accounts(h, c, fs) <=>
         \A lock \in Locks : h[lock] = IF HoldsIn(fs, lock) THEN c ELSE Free
<1>1. ASSUME NEW lock
      PROVE  (\E i \in 1 .. Len(fs) : Holds(fs[i].rest, lock)) <=> HoldsIn(fs, lock)
  BY DEF HoldsIn
<1> QED
  BY <1>1, Zenon DEF Accounts

\* The stack of the running context.
LEMMA RunningStack ==
  ASSUME LockInv
  PROVE  /\ streams[cur] \in Seq(Frames) /\ streams[cur] # <<>>
         /\ Top(cur) = streams[cur][1] /\ Top(cur) \in Frames /\ Top(cur).rest \in Seq(Instr)
         /\ \/ Len(streams[cur]) = 1 /\ RunsBase(cur, Top(cur), Live, preempt) /\ inService = {}
            \/ /\ Len(streams[cur]) = 2 /\ RunsGate(cur, Top(cur), streams[cur][2], Live, preempt)
               /\ InService(Top(cur), inService)
         /\ \A lock \in Locks : held[lock] = IF HoldsIn(streams[cur], lock) THEN cur ELSE Free
<1>1. streams[cur] \in Seq(Frames)
  BY Zenon DEF LockInv
<1>2. Top(cur) = streams[cur][1]
  BY Zenon DEF Top
<1>3. \/ Len(streams[cur]) = 1 /\ RunsBase(cur, Top(cur), Live, preempt) /\ inService = {}
      \/ /\ Len(streams[cur]) = 2 /\ RunsGate(cur, Top(cur), streams[cur][2], Live, preempt)
         /\ InService(Top(cur), inService)
  BY <1>2, Zenon DEF LockInv, Runs
<1>4. streams[cur] # <<>> /\ Top(cur) \in Frames
  BY <1>1, <1>2, <1>3
<1>5. Top(cur).rest \in Seq(Instr)
  BY <1>4, Zenon DEF Frames
<1>6. Accounts(held, cur, streams[cur])
  BY Zenon DEF LockInv
<1>7. \A lock \in Locks : held[lock] = IF HoldsIn(streams[cur], lock) THEN cur ELSE Free
  BY <1>3, <1>6, AccountsIs, Zenon
<1> QED
  BY <1>1, <1>2, <1>3, <1>4, <1>5, <1>7, Zenon

\* Parts of it: the frame that runs.
LEMMA RunningTop ==
  ASSUME LockInv
  PROVE  /\ streams[cur] \in Seq(Frames) /\ Top(cur) = streams[cur][1] /\ Top(cur) \in Frames
         /\ Len(streams[cur]) = 1 \/ Len(streams[cur]) = 2
  BY RunningStack, Zenon

\* An operation, when there is only one.
LEMMA RunningBase ==
  ASSUME LockInv, Len(streams[cur]) = 1
  PROVE  RunsBase(cur, Top(cur), Live, preempt) /\ inService = {}
<1>1. Len(streams[cur]) # 2
  OBVIOUS
<1> QED
  BY <1>1, RunningStack, Zenon

\* A handler, when there are two.
LEMMA RunningGate ==
  ASSUME LockInv, Len(streams[cur]) = 2
  PROVE  RunsGate(cur, Top(cur), streams[cur][2], Live, preempt) /\ InService(Top(cur), inService)
<1>1. Len(streams[cur]) # 1
  OBVIOUS
<1> QED
  BY <1>1, RunningStack, Zenon

\* The stack of the running context when its top frame is replaced.
LEMMA ReplacedTop ==
  ASSUME NEW fs \in Seq(Frames), Len(fs) = 1 \/ Len(fs) = 2, NEW f \in Frames
  PROVE  LET gs == <<f>> \o Tail(fs) IN
         /\ gs \in Seq(Frames) /\ Len(gs) = Len(fs) /\ gs[1] = f
         /\ Len(fs) = 2 => gs[2] = fs[2]
<1> DEFINE t == Tail(fs)
           gs == <<f>> \o t
<1>1. fs # <<>>
  BY Emptiness
<1>2. t \in Seq(Frames) /\ Len(t) = Len(fs) - 1 /\ (Len(fs) = 2 => t[1] = fs[2])
  BY <1>1, Rest
<1> HIDE DEF t
<1>3. \A x \in Frames : <<x>> \in Seq(Frames) /\ Len(<<x>>) = 1 /\ <<x>>[1] = x
  OBVIOUS
<1>4. /\ gs \in Seq(Frames) /\ Len(gs) = 1 + Len(t) /\ gs[1] = f
      /\ Len(t) = 1 => gs[2] = t[1]
  BY <1>2, <1>3
<1> QED
  BY <1>2, <1>4 DEF t

\* The contexts that do not run wait as before.
LEMMA OthersWait ==
  ASSUME NEW c \in Contexts, Waits(c), streams'[c] = streams[c], c \in Live <=> c \in Live'
  PROVE  Waits(c)'
BY Zenon DEF Waits

\* The running context replaces the top of its stack, and goes on.
LEMMA TopChanges ==
  ASSUME LockInv, NEW f \in Frames, Goes(f), cur' = cur,
         ready' = ready \/ (ready' = ready \ {cur}),
         preempt' \in BOOLEAN, inService' \subseteq Irqs, held' \in [Locks -> Contexts \cup {Free}],
         Len(streams[cur]) = 1 => RunsBase(cur, f, Live', preempt') /\ inService' = {},
         Len(streams[cur]) = 2 =>
           RunsGate(cur, f, streams[cur][2], Live', preempt') /\ InService(f, inService'),
         \A lock \in Locks :
           held'[lock] = IF Holds(f.rest, lock)
                            \/ (Len(streams[cur]) = 2 /\ Holds(streams[cur][2].rest, lock))
                         THEN cur ELSE Free
  PROVE  LockInv'
<1> DEFINE fs == streams[cur]
           gs == <<f>> \o Tail(fs)
<1>1. streams \in [Contexts -> Seq(Frames)] /\ cur \in Contexts /\ ready \subseteq Tasks
  BY Zenon DEF LockInv
<1>2. fs \in Seq(Frames) /\ (Len(fs) = 1 \/ Len(fs) = 2)
  BY RunningStack, Zenon
<1>3. /\ gs \in Seq(Frames) /\ Len(gs) = Len(fs) /\ gs[1] = f
      /\ Len(fs) = 2 => gs[2] = fs[2]
  BY <1>2, ReplacedTop, Zenon
<1>4. streams' = [streams EXCEPT ![cur] = gs]
  BY Zenon DEF Goes, Below
<1> HIDE DEF gs
<1>5. /\ streams' \in [Contexts -> Seq(Frames)] /\ streams'[cur] = gs
      /\ \A c \in Contexts \ {cur} : streams'[c] = streams[c]
  BY <1>1, <1>3, <1>4, Zenon
<1>6. Runs(cur, gs, Live', preempt', inService')
  BY <1>2, <1>3, Zenon DEF Runs
<1>7. Accounts(held', cur, gs)
  <2>1. \A lock \in Locks : held'[lock] = IF HoldsIn(gs, lock) THEN cur ELSE Free
    BY <1>3, Zenon DEF HoldsIn
  <2> QED
    BY <1>2, <1>3, <2>1, AccountsIs, Zenon
<1>8. ASSUME NEW c \in Contexts \ {cur} PROVE Waits(c)'
  <2>1. c \in Live <=> c \in Live'
    BY Zenon DEF Live
  <2>2. Waits(c)
    BY Zenon DEF LockInv
  <2> QED
    BY <1>5, <2>1, <2>2, OthersWait, Zenon
<1>9. ready' \subseteq Tasks
  BY <1>1, Zenon
<1> QED
  BY <1>1, <1>5, <1>6, <1>7, <1>8, <1>9, Zenon DEF LockInv

\* A handler does not touch a lock that is held below it.
LEMMA HandlerKeepsAway ==
  ASSUME NEW c, NEW g, NEW s, NEW live, NEW on, RunsGate(c, g, s, live, on), g.rest # <<>>
  PROVE  ~Holds(s.rest, g.rest[1][2])
<1>1. /\ Quiet(s) => \A lock : ~Holds(s.rest, lock)
      /\ \A lock : Holds(s.rest, lock) => lock \in {"MEMORY_STATE", "ALLOCATOR"}
  BY BaseHolds, Zenon DEF RunsGate
<1>2. Light(c, g) => g.rest[1] \in LightInstr
  BY Rest, Zenon DEF Light
<1>3. Light(c, g) => g.rest[1][2] \notin {"MEMORY_STATE", "ALLOCATOR"}
  BY <1>2, Zenon DEF LightInstr
<1>4. Quiet(s) \/ Light(c, g)
  BY Zenon DEF RunsGate
<1> QED
  BY <1>1, <1>3, <1>4, Zenon

\* The code on top of the running context.
LEMMA TopCode ==
  ASSUME LockInv, Top(cur).rest # <<>>
  PROVE  /\ Shape(Top(cur).rest) /\ After \in Seq(Instr) /\ After = Tail(Top(cur).rest)
         /\ Len(streams[cur]) = 2 =>
              /\ ~Top(cur).enabled /\ ~Top(cur).was
              /\ ~Holds(streams[cur][2].rest, Arg)
<1>1. Top(cur).rest \in Seq(Instr)
  BY RunningStack, Zenon
<1>2. After = Tail(Top(cur).rest) /\ Arg = Top(cur).rest[1][2]
  BY Zenon DEF After, Arg
<1>3. After \in Seq(Instr)
  BY <1>1, <1>2, Rest, Zenon
<1>4. CASE Len(streams[cur]) = 1
  <2>1. RunsBase(cur, Top(cur), Live, preempt)
    BY <1>4, RunningBase, Zenon
  <2> QED
    BY <1>2, <1>3, <1>4, <2>1 DEF RunsBase, Base
<1>5. CASE Len(streams[cur]) = 2
  <2>1. RunsGate(cur, Top(cur), streams[cur][2], Live, preempt)
    BY <1>5, RunningGate, Zenon
  <2>2. ~Holds(streams[cur][2].rest, Arg)
    BY <1>2, <2>1, HandlerKeepsAway, Zenon
  <2>3. Gate(Top(cur))
    BY <2>1, Zenon DEF RunsGate
  <2> QED
    BY <1>2, <1>3, <2>2, <2>3, Zenon DEF Gate
<1> QED
  BY <1>4, <1>5, RunningStack, Zenon

\* Every lock that is asked for is free.
LEMMA LockIsFree ==
  ASSUME LockInv, At("lock")
  PROVE  Arg \in Locks /\ held[Arg] = Free
<1>1. Top(cur).rest # <<>> /\ Top(cur).rest[1][1] = "lock" /\ Arg = Top(cur).rest[1][2]
  BY Zenon DEF At, Arg
<1>2. /\ Shape(Top(cur).rest)
      /\ Len(streams[cur]) = 2 => ~Holds(streams[cur][2].rest, Arg)
  BY <1>1, TopCode, Zenon
<1>3. Arg \in Locks /\ ~Holds(Top(cur).rest, Arg)
  BY <1>1, <1>2, HoldsNext, Zenon
<1>4. ~HoldsIn(streams[cur], Arg)
  BY <1>2, <1>3, RunningStack, Zenon DEF HoldsIn
<1> QED
  BY <1>3, <1>4, RunningStack, Zenon

\* What TopChanges needs of a step that only goes on with the rest of the code:
\* the locks, with the lock that is released or taken now.
LEMMA AdvanceKeepsRunning ==
  ASSUME LockInv, Top(cur).rest # <<>>, NEW f \in Frames,
         Top(cur).rest[1][1] \in {"lock", "unlock"},
         IsFrame(f, After, Top(cur).enabled, Top(cur).was, Top(cur).next)
  PROVE  /\ Len(streams[cur]) = 1 => RunsBase(cur, f, Live, preempt) /\ inService = {}
         /\ Len(streams[cur]) = 2 =>
              RunsGate(cur, f, streams[cur][2], Live, preempt) /\ InService(f, inService)
<1>1. After = Tail(Top(cur).rest)
      /\ (Len(streams[cur]) = 2 => ~Top(cur).enabled /\ ~Top(cur).was)
  BY TopCode, Zenon
<1>2. ASSUME Len(streams[cur]) = 1
      PROVE  RunsBase(cur, f, Live, preempt) /\ inService = {}
  <2>1. RunsBase(cur, Top(cur), Live, preempt) /\ inService = {}
    BY <1>2, RunningBase, Zenon
  <2> QED
    BY <1>1, <2>1, BaseAdvances, Zenon
<1>3. ASSUME Len(streams[cur]) = 2
      PROVE  RunsGate(cur, f, streams[cur][2], Live, preempt) /\ InService(f, inService)
  <2> DEFINE s == Top(cur)
             b == streams[cur][2]
  <2>1. RunsGate(cur, s, b, Live, preempt) /\ InService(s, inService)
    BY <1>3, RunningGate, Zenon
  <2>2. IsFrame(f, Tail(s.rest), FALSE, FALSE, s.next)
    BY <1>1, <1>3 DEF IsFrame
  <2>3. s.rest # <<>> /\ s.rest[1][1] # "eoi"
    BY Zenon
  <2> HIDE DEF s, b
  <2>4. RunsGate(cur, f, b, Live, preempt) /\ InService(f, inService)
    BY <2>1, <2>2, <2>3, GateAdvances, Zenon
  <2> QED
    BY <2>4, Zenon DEF b
<1> QED
  BY <1>2, <1>3, Zenon

\* A lock is taken.
LEMMA LockStep ==
  ASSUME LockInv, Lock
  PROVE  LockInv'
<1>1. At("lock") /\ Arg \in Locks /\ held[Arg] = Free
  BY LockIsFree, Zenon DEF Lock
<1>2. /\ held' = [held EXCEPT ![Arg] = cur] /\ Continue(After)
      /\ cur' = cur /\ ready' = ready /\ preempt' = preempt /\ inService' = inService
  BY <1>1, Zenon DEF Lock
<1>3. Top(cur).rest # <<>> /\ Top(cur).rest[1][1] = "lock" /\ Arg = Top(cur).rest[1][2]
  BY <1>1, Zenon DEF At, Arg
<1>4. /\ Shape(Top(cur).rest) /\ After \in Seq(Instr) /\ After = Tail(Top(cur).rest)
      /\ Top(cur) \in Frames
  BY <1>3, TopCode, RunningStack, Zenon
<1> DEFINE f == Advanced(Top(cur), After)
<1>5. IsFrame(f, After, Top(cur).enabled, Top(cur).was, Top(cur).next)
  BY <1>4, FrameUpdates, Zenon
<1>6. Goes(f)
  BY <1>2, Zenon DEF Continue, Advanced
<1> HIDE DEF f
<1>7. f \in Frames /\ f.rest = After
  BY <1>5, Zenon DEF IsFrame
<1>8. /\ Len(streams[cur]) = 1 => RunsBase(cur, f, Live, preempt) /\ inService = {}
      /\ Len(streams[cur]) = 2 =>
           RunsGate(cur, f, streams[cur][2], Live, preempt) /\ InService(f, inService)
  BY <1>3, <1>5, <1>7, AdvanceKeepsRunning, Zenon
<1>9. Live' = Live /\ preempt \in BOOLEAN /\ inService \subseteq Irqs
      /\ held \in [Locks -> Contexts \cup {Free}] /\ cur \in Contexts
  BY <1>2, Zenon DEF Live, LockInv
<1>10. held' \in [Locks -> Contexts \cup {Free}]
  BY <1>2, <1>9, Zenon
<1>11. ASSUME NEW lock \in Locks
       PROVE  held'[lock] = IF Holds(f.rest, lock)
                               \/ (Len(streams[cur]) = 2 /\ Holds(streams[cur][2].rest, lock))
                            THEN cur ELSE Free
  <2>1. ~Holds(Top(cur).rest, lock) /\ (Holds(f.rest, lock) <=> lock = Arg)
    BY <1>3, <1>4, <1>7, HoldsNext
  <2>2. held[lock] = IF HoldsIn(streams[cur], lock) THEN cur ELSE Free
    BY RunningStack, Zenon
  <2>3. HoldsIn(streams[cur], lock) <=>
          Len(streams[cur]) = 2 /\ Holds(streams[cur][2].rest, lock)
    BY <2>1, RunningStack, Zenon DEF HoldsIn
  <2>4. held'[lock] = IF lock = Arg THEN cur ELSE held[lock]
    BY <1>2, <1>9, Zenon
  <2> QED
    BY <2>1, <2>2, <2>3, <2>4, Zenon
<1> QED
  BY <1>2, <1>6, <1>7, <1>8, <1>9, <1>10, <1>11, TopChanges, Zenon

\* A lock is released.
LEMMA UnlockStep ==
  ASSUME LockInv, Unlock
  PROVE  LockInv'
<1>1. /\ held' = [held EXCEPT ![Arg] = Free] /\ Continue(After)
      /\ cur' = cur /\ ready' = ready /\ preempt' = preempt /\ inService' = inService
  BY Zenon DEF Unlock
<1>2. Top(cur).rest # <<>> /\ Top(cur).rest[1][1] = "unlock" /\ Arg = Top(cur).rest[1][2]
  BY Zenon DEF Unlock, At, Arg
<1>3. /\ Shape(Top(cur).rest) /\ After \in Seq(Instr) /\ After = Tail(Top(cur).rest)
      /\ Top(cur) \in Frames
      /\ Len(streams[cur]) = 2 => ~Holds(streams[cur][2].rest, Arg)
  BY <1>2, TopCode, RunningStack, Zenon
<1> DEFINE f == Advanced(Top(cur), After)
<1>4. IsFrame(f, After, Top(cur).enabled, Top(cur).was, Top(cur).next)
  BY <1>3, FrameUpdates, Zenon
<1>5. Goes(f)
  BY <1>1, Zenon DEF Continue, Advanced
<1> HIDE DEF f
<1>6. f \in Frames /\ f.rest = After
  BY <1>4 DEF IsFrame
<1>7. /\ Len(streams[cur]) = 1 => RunsBase(cur, f, Live, preempt) /\ inService = {}
      /\ Len(streams[cur]) = 2 =>
           RunsGate(cur, f, streams[cur][2], Live, preempt) /\ InService(f, inService)
  BY <1>2, <1>4, <1>6, AdvanceKeepsRunning, Zenon
<1>8. Live' = Live /\ preempt \in BOOLEAN /\ inService \subseteq Irqs
      /\ held \in [Locks -> Contexts \cup {Free}]
  BY <1>1, Zenon DEF Live, LockInv
<1>9. held' \in [Locks -> Contexts \cup {Free}]
  BY <1>1, <1>8, Zenon
<1>10. ASSUME NEW lock \in Locks
       PROVE  held'[lock] = IF Holds(f.rest, lock)
                               \/ (Len(streams[cur]) = 2 /\ Holds(streams[cur][2].rest, lock))
                            THEN cur ELSE Free
  <2>1. (Holds(Top(cur).rest, lock) <=> lock = Arg) /\ ~Holds(f.rest, lock)
    BY <1>2, <1>3, <1>6, HoldsNext
  <2>2. held[lock] = IF HoldsIn(streams[cur], lock) THEN cur ELSE Free
    BY RunningStack
  <2>3. HoldsIn(streams[cur], lock) <=>
          lock = Arg \/ (Len(streams[cur]) = 2 /\ Holds(streams[cur][2].rest, lock))
    BY <2>1, RunningStack, Zenon DEF HoldsIn
  <2>4. held'[lock] = IF lock = Arg THEN Free ELSE held[lock]
    BY <1>1, <1>8, Zenon
  <2> QED
    BY <1>3, <2>1, <2>2, <2>3, <2>4, Zenon
<1> QED
  BY <1>1, <1>5, <1>6, <1>7, <1>8, <1>9, <1>10, TopChanges, Zenon

\* The locks of a step that takes and releases none.
LEMMA SameLocks ==
  ASSUME LockInv, NEW f, held' = held,
         \A lock \in Locks : Holds(f.rest, lock) <=> Holds(Top(cur).rest, lock)
  PROVE  /\ held' \in [Locks -> Contexts \cup {Free}]
         /\ \A lock \in Locks :
              held'[lock] = IF Holds(f.rest, lock)
                               \/ (Len(streams[cur]) = 2 /\ Holds(streams[cur][2].rest, lock))
                            THEN cur ELSE Free
<1>1. held' \in [Locks -> Contexts \cup {Free}]
  BY Zenon DEF LockInv
<1>2. ASSUME NEW lock \in Locks
      PROVE  held'[lock] = IF Holds(f.rest, lock)
                              \/ (Len(streams[cur]) = 2 /\ Holds(streams[cur][2].rest, lock))
                           THEN cur ELSE Free
  <2>1. held[lock] = IF HoldsIn(streams[cur], lock) THEN cur ELSE Free
    BY RunningStack, Zenon
  <2>2. HoldsIn(streams[cur], lock) <=>
          Holds(f.rest, lock) \/ (Len(streams[cur]) = 2 /\ Holds(streams[cur][2].rest, lock))
    BY RunningStack, Zenon DEF HoldsIn
  <2> QED
    BY <2>1, <2>2, Zenon
<1> QED
  BY <1>1, <1>2, Zenon

\* Interrupts are turned off, or back on.
LEMMA CliStep ==
  ASSUME LockInv, Cli \/ Restore
  PROVE  LockInv'
<1> DEFINE s == Top(cur)
           off == Off(s, After)
           back == Back(s, After)
<1>1. /\ held' = held /\ cur' = cur /\ ready' = ready /\ preempt' = preempt
      /\ inService' = inService /\ s.rest # <<>> /\ s.rest[1][1] \in {"cli", "restore"}
  BY Zenon DEF Cli, Restore, At
<1>2. /\ Shape(s.rest) /\ After \in Seq(Instr) /\ After = Tail(s.rest)
      /\ s \in Frames
      /\ Len(streams[cur]) = 2 => ~s.enabled /\ ~s.was
  BY <1>1, TopCode, RunningTop, Zenon
<1>3. /\ IsFrame(off, After, FALSE, s.enabled, s.next)
      /\ IsFrame(back, After, s.was, s.was, s.next)
  BY <1>2, FrameUpdates, Zenon
<1>4. \/ s.rest[1][1] = "cli" /\ Goes(off)
      \/ s.rest[1][1] = "restore" /\ Goes(back)
  BY Zenon DEF Cli, Restore, At, Off, Back
<1> HIDE DEF off, back
<1>5. PICK f : /\ Goes(f) /\ f \in Frames /\ f.rest = After
               /\ \/ s.rest[1][1] = "cli" /\ IsFrame(f, After, FALSE, s.enabled, s.next)
                  \/ s.rest[1][1] = "restore" /\ IsFrame(f, After, s.was, s.was, s.next)
  BY <1>3, <1>4, Zenon DEF IsFrame
<1> HIDE DEF s
<1>6. Live' = Live /\ preempt \in BOOLEAN /\ inService \subseteq Irqs
  BY <1>1, Zenon DEF Live, LockInv
<1>7. ASSUME Len(streams[cur]) = 1
      PROVE  RunsBase(cur, f, Live, preempt) /\ inService = {}
  <2>1. RunsBase(cur, s, Live, preempt) /\ inService = {}
    BY <1>7, RunningBase, Zenon DEF s
  <2> QED
    BY <1>1, <1>2, <1>5, <2>1, BaseCli, BaseRestore, Zenon
<1>8. ASSUME Len(streams[cur]) = 2
      PROVE  RunsGate(cur, f, streams[cur][2], Live, preempt) /\ InService(f, inService)
  <2> DEFINE b == streams[cur][2]
  <2>1. RunsGate(cur, s, b, Live, preempt) /\ InService(s, inService)
    BY <1>8, RunningGate, Zenon DEF s
  <2>2. IsFrame(f, Tail(s.rest), FALSE, FALSE, s.next)
    BY <1>2, <1>5, <1>8 DEF IsFrame
  <2>3. s.rest # <<>> /\ s.rest[1][1] # "eoi"
    BY <1>1, Zenon
  <2> HIDE DEF b
  <2>4. RunsGate(cur, f, b, Live, preempt) /\ InService(f, inService)
    BY <2>1, <2>2, <2>3, GateAdvances, Zenon
  <2> QED
    BY <2>4, Zenon DEF b
<1>9. \A lock \in Locks : Holds(f.rest, lock) <=> Holds(Top(cur).rest, lock)
  BY <1>1, <1>2, <1>5, HoldsNext DEF s
<1> QED
  BY <1>1, <1>5, <1>6, <1>7, <1>8, <1>9, SameLocks, TopChanges, Zenon

\* The end of an interrupt is sent, by a handler.
LEMMA EoiStep ==
  ASSUME LockInv, SendEoi
  PROVE  LockInv'
<1> DEFINE s == Top(cur)
           f == Advanced(s, After)
<1>1. /\ held' = held /\ cur' = cur /\ ready' = ready /\ preempt' = preempt
      /\ inService' = inService \ {Arg} /\ s.rest # <<>> /\ s.rest[1][1] = "eoi"
      /\ Arg = s.rest[1][2] /\ Goes(f)
  BY Zenon DEF SendEoi, At, Arg, Continue, Advanced
<1>2. /\ Shape(s.rest) /\ After \in Seq(Instr) /\ After = Tail(s.rest)
      /\ s \in Frames
      /\ Len(streams[cur]) = 2 => ~s.enabled /\ ~s.was
  BY <1>1, TopCode, RunningStack, Zenon
<1>3. IsFrame(f, After, s.enabled, s.was, s.next)
  BY <1>2, FrameUpdates, Zenon
<1> HIDE DEF f, s
<1>4. f \in Frames /\ f.rest = After
  BY <1>3, Zenon DEF IsFrame
<1>5. Live' = Live /\ preempt \in BOOLEAN /\ inService' \subseteq Irqs
  BY <1>1, Zenon DEF Live, LockInv
<1>6. Len(streams[cur]) # 1
  <2>1. Len(streams[cur]) = 1 => RunsBase(cur, s, Live, preempt)
    BY RunningBase, Zenon DEF s
  <2> QED
    BY <1>1, <2>1, BaseReturns, Zenon
<1>7. ASSUME Len(streams[cur]) = 2
      PROVE  RunsGate(cur, f, streams[cur][2], Live, preempt) /\ InService(f, inService')
  <2> DEFINE b == streams[cur][2]
  <2>1. RunsGate(cur, s, b, Live, preempt) /\ InService(s, inService)
    BY <1>7, RunningGate, Zenon DEF s
  <2>2. IsFrame(f, Tail(s.rest), FALSE, FALSE, s.next)
    BY <1>2, <1>3, <1>7 DEF IsFrame
  <2>3. s.rest # <<>> /\ s.rest[1][1] = "eoi"
    BY <1>1, Zenon
  <2> HIDE DEF b
  <2>4. RunsGate(cur, f, b, Live, preempt) /\ InService(f, inService \ {s.rest[1][2]})
    BY <2>1, <2>2, <2>3, GateAdvances, Zenon
  <2> QED
    BY <1>1, <2>4, Zenon DEF b
<1>8. \A lock \in Locks : Holds(f.rest, lock) <=> Holds(Top(cur).rest, lock)
  BY <1>1, <1>2, <1>4, HoldsNext DEF s
<1> QED
  BY <1>1, <1>4, <1>5, <1>6, <1>7, <1>8, SameLocks, TopChanges, Zenon

\* A handler picks a task, or stays.
LEMMA SwitchStep ==
  ASSUME LockInv, SwitchTo
  PROVE  LockInv'
<1> DEFINE s == Top(cur)
           b == streams[cur][2]
<1>1. /\ held' = held /\ cur' = cur /\ ready' = ready /\ preempt' = preempt
      /\ inService' = inService /\ s.rest # <<>> /\ s.rest[1][1] = "pick"
  BY Zenon DEF SwitchTo, At
<1>2. s.rest # <<>> /\ s.rest[1][1] = "pick"
  BY <1>1, Zenon
<1>3. /\ Shape(s.rest) /\ After \in Seq(Instr) /\ After = Tail(s.rest) /\ s \in Frames
      /\ Len(streams[cur]) = 2 => ~s.enabled /\ ~s.was
  BY <1>2, TopCode, RunningStack, Zenon
<1>4. Len(streams[cur]) = 2 /\ RunsGate(cur, s, b, Live, preempt) /\ InService(s, inService)
  <2>1. Len(streams[cur]) = 1 => ~RunsBase(cur, s, Live, preempt)
    BY <1>2, BaseReturns, Zenon
  <2> QED
    BY <2>1, RunningStack, Zenon
<1>5. \/ Goes(Advanced(s, After))
      \/ \E c \in ready \ {cur} : Goes(Switched(s, Root(c) \o After, c))
  BY Zenon DEF SwitchTo, Continue, Advanced, Switched
<1>6. Live' = Live /\ preempt \in BOOLEAN /\ inService \subseteq Irqs /\ ready \subseteq Tasks
  BY <1>1, Zenon DEF Live, LockInv
<1> HIDE DEF s, b
<1>7. CASE Goes(Advanced(s, After))
  <2> DEFINE f == Advanced(s, After)
  <2>1. IsFrame(f, Tail(s.rest), FALSE, FALSE, s.next) /\ f.rest = Tail(s.rest) /\ f \in Frames
    <3>1. IsFrame(f, Tail(s.rest), s.enabled, s.was, s.next)
      BY <1>3, FrameUpdates, Zenon
    <3> QED
      BY <1>3, <1>4, <3>1 DEF IsFrame
  <2> HIDE DEF f
  <2>2. RunsGate(cur, f, b, Live, preempt) /\ InService(f, inService)
    BY <1>2, <1>4, <2>1, GateAdvances, Zenon
  <2>3. \A lock \in Locks : Holds(f.rest, lock) <=> Holds(Top(cur).rest, lock)
    BY <1>2, <1>3, <2>1, HoldsNext DEF s
  <2>4. Goes(f)
    BY <1>7, Zenon DEF f
  <2>5. Len(streams[cur]) # 1
    BY <1>4
  <2> QED
    BY <1>1, <1>4, <1>6, <2>1, <2>2, <2>3, <2>4, <2>5, SameLocks, TopChanges, Zenon DEF b
<1>8. ASSUME NEW c \in ready \ {cur}, Goes(Switched(s, Root(c) \o After, c))
      PROVE  LockInv'
  <2> DEFINE f == Switched(s, Root(c) \o After, c)
  <2>1. Root(c) \o After \in Seq(Instr) /\ c \in Contexts /\ c \in Live
    <3>1. Root(c) \in Seq(Instr)
      BY RootIsPlain, PlainIsMain, Zenon
    <3> QED
      BY <1>3, <1>6, <3>1, Parts, Zenon DEF Contexts, Live
  <2>2. IsFrame(f, Root(c) \o Tail(s.rest), FALSE, FALSE, c) /\ f \in Frames
    <3>1. IsFrame(f, Root(c) \o Tail(s.rest), s.enabled, s.was, c)
      BY <1>3, <2>1, FrameUpdates, Zenon
    <3> QED
      BY <1>3, <1>4, <3>1 DEF IsFrame
  <2> HIDE DEF f
  <2>3. RunsGate(cur, f, b, Live, preempt) /\ InService(f, inService) /\ Fresh(f.rest)
    <3>1. Live \subseteq Live /\ s.rest[1][1] \in {"pick", "leave"}
      BY <1>2, Zenon
    <3> QED
      BY <1>2, <1>4, <2>1, <2>2, <3>1, GateSwitches, Zenon
  <2>4. \A lock \in Locks : Holds(f.rest, lock) <=> Holds(Top(cur).rest, lock)
    BY <1>2, <1>3, <2>3, HoldsNext, FreshHolds, Zenon DEF s
  <2>5. Goes(f)
    BY <1>8, Zenon DEF f
  <2>6. Len(streams[cur]) # 1
    BY <1>4
  <2> QED
    BY <1>1, <1>4, <1>6, <2>2, <2>3, <2>4, <2>5, <2>6, SameLocks, TopChanges, Zenon DEF b
<1> QED
  BY <1>5, <1>7, <1>8, Zenon

\* A task ends, in a handler or by itself.
LEMMA LeaveStep ==
  ASSUME LockInv, LeaveTask
  PROVE  LockInv'
<1> DEFINE s == Top(cur)
           b == streams[cur][2]
<1>1. /\ held' = held /\ cur' = cur /\ ready' = ready \ {cur} /\ preempt' = preempt
      /\ inService' = inService
  BY Zenon DEF LeaveTask
<1>2. s.rest # <<>> /\ s.rest[1][1] = "leave"
  BY Zenon DEF LeaveTask, At
<1>3. /\ Shape(s.rest) /\ After \in Seq(Instr) /\ After = Tail(s.rest) /\ s \in Frames
      /\ Len(streams[cur]) = 2 => ~s.enabled /\ ~s.was
  BY <1>2, TopCode, RunningStack, Zenon
<1>4. PICK c \in IF ready' = {} THEN {Main} ELSE ready' :
        Goes(Switched(s, Root(c) \o After, c))
  BY Zenon DEF LeaveTask, Switched
<1>5. preempt \in BOOLEAN /\ inService \subseteq Irqs /\ ready \subseteq Tasks
  BY Zenon DEF LockInv
<1>6. PICK left : /\ left = Live' /\ left = (ready \ {cur}) \cup {Main}
                 /\ left \subseteq Live
  BY <1>1, Zenon DEF Live
<1>7. c \in left /\ c \in Contexts
  BY <1>1, <1>4, <1>5, <1>6, Zenon DEF Contexts
<1> DEFINE f == Switched(s, Root(c) \o After, c)
<1>8. Root(c) \in Seq(Instr) /\ Plain(Root(c))
  BY RootIsPlain, PlainIsMain, Zenon
<1>9. Root(c) \o After \in Seq(Instr)
  BY <1>3, <1>8, Parts, Zenon
<1> HIDE DEF s, b
<1>10. IsFrame(f, Root(c) \o Tail(s.rest), s.enabled, s.was, c)
  BY <1>3, <1>7, <1>9, FrameUpdates, Zenon
<1>11. Goes(f)
  BY <1>4, Zenon
<1> HIDE DEF f
<1>12. f \in Frames /\ f.rest = Root(c) \o Tail(s.rest)
  BY <1>10 DEF IsFrame
<1>13. Fresh(f.rest)
  <2>1. Shape(Tail(s.rest)) /\ Fresh(Tail(s.rest))
    BY <1>2, <1>3, TailShape, HoldsNext, Zenon
  <2> QED
    BY <1>8, <1>12, <2>1, ConcatShape DEF Plain
<1>14. ASSUME Len(streams[cur]) = 1
       PROVE  RunsBase(cur, f, left, preempt) /\ inService = {}
  <2>1. RunsBase(cur, s, Live, preempt) /\ inService = {}
    BY <1>14, RunningBase, Zenon DEF s
  <2>2. cur # Main
    BY <1>2, <2>1, BaseReturns, Zenon
  <2>3. cur \notin left
    BY <1>6, <2>2
  <2> QED
    BY <1>2, <1>7, <1>10, <2>1, <2>3, BaseLeaves
<1>15. ASSUME Len(streams[cur]) = 2
       PROVE  RunsGate(cur, f, b, left, preempt) /\ InService(f, inService)
  <2>1. RunsGate(cur, s, b, Live, preempt) /\ InService(s, inService)
    BY <1>15, RunningGate, Zenon DEF s, b
  <2>2. IsFrame(f, Root(c) \o Tail(s.rest), FALSE, FALSE, c)
    BY <1>3, <1>10, <1>15 DEF IsFrame
  <2>3. left \subseteq Live /\ s.rest[1][1] \in {"pick", "leave"}
    BY <1>2, <1>6, Zenon
  <2> QED
    BY <1>2, <1>7, <2>1, <2>2, <2>3, GateSwitches, Zenon
<1>16. \A lock \in Locks : Holds(f.rest, lock) <=> Holds(Top(cur).rest, lock)
  BY <1>2, <1>3, <1>13, HoldsNext, FreshHolds, Zenon DEF s
<1> QED
  BY <1>1, <1>5, <1>6, <1>11, <1>12, <1>14, <1>15, <1>16, SameLocks, TopChanges, Zenon DEF b

-----------------------------------------------------------------------------
(* Switches *)

\* A context that waits may run; it holds no lock.
LEMMA Resumes ==
  ASSUME NEW c, NEW s, Suspended(c, s), NEW live, c \in live, NEW on
  PROVE  RunsBase(c, s, live, on) /\ \A lock : ~Holds(s.rest, lock)
<1>1. Base(c, s) /\ s.next = c /\ Ends(s.rest)
  BY Zenon DEF Suspended
<1>2. CASE c = Main
  <2> DEFINE restore == <<"restore", "">>
  <2>1. s.rest = <<restore>> /\ restore[1] = "restore" /\ \A lock : restore # <<"unlock", lock>>
    BY <1>2, Zenon DEF Suspended
  <2> HIDE DEF restore
  <2>2. s.rest # <<>> /\ s.rest[1] = restore
    BY <2>1
  <2>3. \A lock : ~Holds(s.rest, lock)
    BY <2>1, <2>2, Zenon DEF Holds
  <2>4. Started(s)
    BY <1>1, <2>1, <2>2, BasePhase, Zenon
  <2> QED
    BY <1>1, <2>3, <2>4, Zenon DEF RunsBase, Started
<1>3. CASE c # Main
  <2>1. Quiet(s)
    BY <1>3 DEF Suspended
  <2>2. \A lock : ~Holds(s.rest, lock)
    BY <2>1 DEF Quiet, Holds
  <2> QED
    BY <1>1, <2>1, <2>2, Zenon DEF RunsBase
<1> QED
  BY <1>2, <1>3, Zenon

\* Another context runs: the one that ran waits or has ended, and no lock is
\* held.
LEMMA HandsOver ==
  ASSUME LockInv, NEW c \in Live, c # cur, cur' = c,
         held' = held, \A lock \in Locks : held[lock] = Free,
         ready' = ready, preempt' = preempt, inService' = {},
         NEW fs \in Seq(Frames), streams' = [streams EXCEPT ![cur] = fs],
         IF cur \in Live THEN Len(fs) = 1 /\ Suspended(cur, fs[1]) ELSE fs = <<>>
  PROVE  LockInv'
<1>1. /\ held \in [Locks -> Contexts \cup {Free}] /\ streams \in [Contexts -> Seq(Frames)]
      /\ cur \in Contexts /\ ready \subseteq Tasks /\ preempt \in BOOLEAN
      /\ \A d \in Contexts \ {cur} : Waits(d)
  BY Zenon DEF LockInv
<1>2. c \in Contexts /\ Live' = Live
  BY <1>1, Zenon DEF Live, Contexts
<1>3. /\ streams' \in [Contexts -> Seq(Frames)] /\ streams'[cur] = fs
      /\ \A d \in Contexts \ {cur} : streams'[d] = streams[d]
  BY <1>1, Zenon
<1> DEFINE gs == streams[c]
<1>4. Len(gs) = 1 /\ Suspended(c, gs[1])
  BY <1>1, <1>2, Zenon DEF Waits
<1>5. streams'[c] = gs
  BY <1>2, <1>3, Zenon
<1> HIDE DEF gs
<1>6. RunsBase(c, gs[1], Live, preempt) /\ \A lock : ~Holds(gs[1].rest, lock)
  BY <1>4, Resumes, Zenon
<1>7. Runs(c, gs, Live, preempt, {})
  BY <1>4, <1>6, Zenon DEF Runs
<1>8. Accounts(held, c, gs)
  <2>1. \A lock \in Locks : held[lock] = IF HoldsIn(gs, lock) THEN c ELSE Free
    BY <1>4, <1>6 DEF HoldsIn
  <2> QED
    BY <1>4, <2>1, AccountsIs, Zenon
<1>9. ASSUME NEW d \in Contexts \ {c} PROVE Waits(d)'
  <2>1. CASE d = cur
    <3>1. streams'[d] = fs
      BY <1>3, <2>1, Zenon
    <3> QED
      BY <1>2, <2>1, <3>1, Zenon DEF Waits
  <2>2. CASE d # cur
    BY <1>1, <1>2, <1>3, <2>2, OthersWait, Zenon
  <2> QED
    BY <2>1, <2>2, Zenon
<1> QED
  BY <1>1, <1>2, <1>3, <1>5, <1>7, <1>8, <1>9, Zenon DEF LockInv

\* A handler, or a task that has ended, returns.
LEMMA ReturnStep ==
  ASSUME LockInv, Return
  PROVE  LockInv'
<1> DEFINE s == Top(cur)
           b == streams[cur][2]
           fs == IF cur \in Live THEN Tail(streams[cur]) ELSE <<>>
<1>1. /\ held' = held /\ cur' = s.next /\ ready' = ready /\ preempt' = preempt
      /\ inService' = inService
  BY Zenon DEF Return
<1>2. s.rest # <<>> /\ s.rest[1][1] = "iret"
  BY Zenon DEF Return, At
<1>3. /\ streams \in [Contexts -> Seq(Frames)] /\ cur \in Contexts /\ ready \subseteq Tasks
      /\ preempt \in BOOLEAN /\ inService \subseteq Irqs
      /\ held \in [Locks -> Contexts \cup {Free}]
  BY Zenon DEF LockInv
<1>4. streams' = [streams EXCEPT ![cur] = fs]
  BY <1>3, Zenon DEF Return, Live
<1>5. /\ streams[cur] \in Seq(Frames) /\ streams[cur] # <<>> /\ s = streams[cur][1]
      /\ \A lock \in Locks : held[lock] = IF HoldsIn(streams[cur], lock) THEN cur ELSE Free
  BY RunningStack, Zenon
<1>6. Shape(s.rest)
  BY <1>2, TopCode, Zenon
<1>7. \A lock : ~Holds(s.rest, lock)
  BY <1>2, <1>6, HoldsNext, Zenon
<1>8. Tail(streams[cur]) \in Seq(Frames) /\ fs \in Seq(Frames)
  <2>1. <<>> \in Seq(Frames)
    OBVIOUS
  <2> QED
    BY <1>5, <2>1, Rest, Zenon
<1>9. CASE Len(streams[cur]) = 1
  <2>1. RunsBase(cur, s, Live, preempt) /\ inService = {}
    BY <1>9, RunningBase, Zenon
  <2>2. cur \notin Live /\ s.next \in Live
    BY <1>2, <2>1, BaseReturns, Zenon DEF RunsBase
  <2>3. \A lock \in Locks : held[lock] = Free
    BY <1>5, <1>7, <1>9, Zenon DEF HoldsIn
  <2>4. fs = <<>>
    BY <2>2, Zenon
  <2> HIDE DEF s, fs
  <2> QED
    BY <1>1, <1>4, <1>8, <2>1, <2>2, <2>3, <2>4, HandsOver, Zenon
<1>10. CASE Len(streams[cur]) = 2
  <2>1. RunsGate(cur, s, b, Live, preempt) /\ InService(s, inService)
    BY <1>10, RunningGate, Zenon
  <2>2. s.next \in Live /\ b \in Frames
    BY <1>5, <1>10, <2>1 DEF RunsGate
  <2> DEFINE t == Tail(streams[cur])
  <2>3. t \in Seq(Frames) /\ Len(t) = 1 /\ t[1] = b
    BY <1>5, <1>10, Rest
  <2>4. /\ inService = {}
        /\ s.next = cur => RunsBase(cur, b, Live, preempt)
        /\ s.next # cur => Quiet(b) /\ (cur \in Live => Suspended(cur, b))
    BY <1>2, <2>1, GateReturns
  <2>5. \A lock \in Locks :
          held[lock] = IF Holds(b.rest, lock) THEN cur ELSE Free
    BY <1>5, <1>7, <1>10, Zenon DEF HoldsIn
  <2>6. fs = IF cur \in Live THEN t ELSE <<>>
    BY Zenon
  <2> HIDE DEF s, b, fs, t
  <2>7. CASE s.next # cur
    <3>1. \A lock \in Locks : held[lock] = Free
      BY <2>4, <2>5, <2>7 DEF Quiet, Holds
    <3>2. IF cur \in Live THEN Len(fs) = 1 /\ Suspended(cur, fs[1]) ELSE fs = <<>>
      BY <2>3, <2>4, <2>6, <2>7, Zenon
    <3> QED
      BY <1>1, <1>4, <1>8, <2>2, <2>4, <2>7, <3>1, <3>2, HandsOver, Zenon
  <2>8. CASE s.next = cur
    <3>1. cur \in Live /\ fs = t /\ cur' = cur /\ Live' = Live
      BY <1>1, <2>2, <2>6, <2>8, Zenon DEF Live
    <3>2. /\ streams' \in [Contexts -> Seq(Frames)] /\ streams'[cur] = t
          /\ \A d \in Contexts \ {cur} : streams'[d] = streams[d]
      BY <1>3, <1>4, <2>3, <3>1, Zenon
    <3>3. Runs(cur, t, Live, preempt, inService)
      BY <2>3, <2>4, <2>8, Zenon DEF Runs
    <3>4. Accounts(held, cur, t)
      <4>1. \A lock \in Locks : held[lock] = IF HoldsIn(t, lock) THEN cur ELSE Free
        BY <2>3, <2>5, Zenon DEF HoldsIn
      <4> QED
        BY <2>3, <4>1, AccountsIs, Zenon
    <3>5. ASSUME NEW d \in Contexts \ {cur} PROVE Waits(d)'
      <4>1. Waits(d)
        BY Zenon DEF LockInv
      <4> QED
        BY <3>1, <3>2, <4>1, OthersWait, Zenon
    <3> QED
      BY <1>1, <1>3, <3>1, <3>2, <3>3, <3>4, <3>5, Zenon DEF LockInv
  <2> QED
    BY <2>7, <2>8, Zenon
<1> QED
  BY <1>9, <1>10, RunningStack, Zenon

-----------------------------------------------------------------------------
(* Operations and interrupts begin *)

\* A context whose interrupts are on runs outside handlers.
LEMMA EnabledRuns ==
  ASSUME LockInv, Top(cur).enabled
  PROVE  /\ Len(streams[cur]) = 1 /\ RunsBase(cur, Top(cur), Live, preempt)
         /\ inService = {} /\ cur \in Live /\ Base(cur, Top(cur))
         /\ Top(cur).next = cur /\ Ends(Top(cur).rest)
<1>1. ~(Len(streams[cur]) = 2 /\ RunsGate(cur, Top(cur), streams[cur][2], Live, preempt))
  BY Zenon DEF RunsGate, Gate
<1>2. Len(streams[cur]) = 1 /\ RunsBase(cur, Top(cur), Live, preempt) /\ inService = {}
  BY <1>1, RunningStack, Zenon
<1>3. cur \in Live
  BY <1>2, Zenon DEF RunsBase, Started
<1> QED
  BY <1>2, <1>3, Zenon DEF RunsBase

\* Between its operations the running context has interrupts on.
LEMMA IdleRuns ==
  ASSUME LockInv, Idle(cur)
  PROVE  Top(cur).enabled /\ Top(cur).rest = <<>> /\ Quiet(Top(cur))
<1>1. Len(streams[cur]) = 1 /\ Top(cur).rest = <<>>
  BY Zenon DEF Idle
<1>2. RunsBase(cur, Top(cur), Live, preempt)
  BY <1>1, RunningBase, Zenon
<1>3. Loading(Top(cur))
  BY <1>1, <1>2, Zenon DEF RunsBase, Base, Started, Waiting, Body
<1> QED
  BY <1>1, <1>3, Zenon DEF Loading, Quiet

\* An operation begins.
LEMMA StartStep ==
  ASSUME LockInv, NEW ops, Starts(ops), Shape(ops), Fresh(ops), Ends(ops),
         Operation(ops) \/ (ops \in Seq(LoadInstr) /\ ops \in Seq(BaseInstr) /\ ~preempt),
         cur = Main => ops \in Seq(MainInstr)
  PROVE  LockInv'
<1> DEFINE s == Top(cur)
           f == Advanced(s, ops)
<1>1. /\ held' = held /\ cur' = cur /\ ready' = ready /\ preempt' = preempt
      /\ inService' = inService /\ Idle(cur) /\ Goes(f)
  BY Zenon DEF Starts, Continue, Advanced
<1>2. s.enabled /\ s.rest = <<>>
  BY <1>1, IdleRuns, Zenon
<1>3. /\ Len(streams[cur]) = 1 /\ RunsBase(cur, s, Live, preempt)
      /\ inService = {} /\ cur \in Live /\ s.next = cur
  BY <1>2, EnabledRuns, Zenon
<1>4. s \in Frames /\ ops \in Seq(Instr)
  BY RunningTop, Zenon DEF Shape
<1>5. IsFrame(f, ops, s.enabled, s.was, s.next)
  BY <1>4, FrameUpdates, Zenon
<1> HIDE DEF f, s
<1>6. f \in Frames /\ f.rest = ops /\ f.enabled /\ f.next = cur
  BY <1>2, <1>3, <1>5, Zenon DEF IsFrame
<1>7. Waiting(f) \/ (Loading(f) /\ ~preempt)
  BY <1>6, Zenon DEF Waiting, Loading, Operation
<1>8. ops \in Seq(BaseInstr)
  BY Zenon DEF Operation
<1>9. Base(cur, f)
  BY <1>6, <1>7, <1>8, Zenon DEF Base
<1>10. Quiet(f) \/ ~preempt
  BY <1>7, Zenon DEF Quiet, Waiting
<1>11. RunsBase(cur, f, Live, preempt)
  BY <1>3, <1>6, <1>9, <1>10, Zenon DEF RunsBase
<1>12. \A lock \in Locks : Holds(f.rest, lock) <=> Holds(Top(cur).rest, lock)
  <2>1. \A lock : ~Holds(Top(cur).rest, lock)
    BY <1>2, Zenon DEF Holds, s
  <2> QED
    BY <1>6, <2>1, FreshHolds, Zenon
<1>13. Live' = Live /\ preempt \in BOOLEAN /\ inService \subseteq Irqs
  BY <1>1, Zenon DEF Live, LockInv
<1>14. Len(streams[cur]) # 2
  BY <1>3
<1> QED
  BY <1>1, <1>3, <1>6, <1>11, <1>12, <1>13, <1>14, SameLocks, TopChanges, Zenon

\* The stack of a context and a handler on top of it.
LEMMA PushedTop ==
  ASSUME NEW fs \in Seq(Frames), Len(fs) = 1, NEW g \in Frames
  PROVE  LET gs == <<g>> \o fs IN
         gs \in Seq(Frames) /\ Len(gs) = 2 /\ gs[1] = g /\ gs[2] = fs[1]
<1>1. \A x \in Frames : <<x>> \in Seq(Frames) /\ Len(<<x>>) = 1 /\ <<x>>[1] = x
  OBVIOUS
<1>2. <<g>> \in Seq(Frames) /\ Len(<<g>>) = 1 /\ <<g>>[1] = g
  BY <1>1, Zenon
<1> HIDE DEF Frames
<1> QED
  BY <1>2

\* A handler begins, on top of the context that is interrupted.
LEMMA EnterStep ==
  ASSUME LockInv, Top(cur).enabled, NEW ops, Handler(ops), Enters(ops),
         inService' \subseteq Irqs,
         \A irq \in inService' : \E i \in 1 .. Len(ops) : ops[i] = <<"eoi", irq>>,
         Quiet(Top(cur)) \/ ops \in Seq(LightInstr),
         cur = Main => ops \in Seq(LightInstr)
  PROVE  LockInv'
<1> DEFINE s == Top(cur)
           g == InterruptGate(cur, ops)
           fs == streams[cur]
           gs == <<g>> \o fs
<1>1. held' = held /\ cur' = cur /\ ready' = ready /\ preempt' = preempt
  BY Zenon DEF Enters
<1>2. /\ held \in [Locks -> Contexts \cup {Free}] /\ streams \in [Contexts -> Seq(Frames)]
      /\ cur \in Contexts /\ ready \subseteq Tasks /\ preempt \in BOOLEAN
      /\ \A d \in Contexts \ {cur} : Waits(d)
  BY Zenon DEF LockInv
<1>3. streams' = [streams EXCEPT ![cur] = gs]
  BY <1>2, Zenon DEF Enters
<1>4. /\ Len(fs) = 1 /\ RunsBase(cur, s, Live, preempt) /\ cur \in Live
      /\ Base(cur, s) /\ s.next = cur /\ Ends(s.rest) /\ s.enabled
  BY EnabledRuns, Zenon
<1>5. /\ fs \in Seq(Frames) /\ s = fs[1] /\ s \in Frames
      /\ \A lock \in Locks : held[lock] = IF HoldsIn(fs, lock) THEN cur ELSE Free
  BY RunningStack, Zenon
<1>6. Shape(ops) /\ Fresh(ops) /\ IretLast(ops) /\ ops \in Seq(Instr)
  BY Zenon DEF Handler, Shape
<1>7. IsFrame(g, ops, FALSE, FALSE, cur)
  BY <1>2, <1>5, <1>6, FrameUpdates, Zenon
<1> HIDE DEF g, s
<1>8. g \in Frames /\ g.rest = ops /\ ~g.enabled /\ ~g.was /\ g.next = cur
  BY <1>7, Zenon DEF IsFrame
<1>9. gs \in Seq(Frames) /\ Len(gs) = 2 /\ gs[1] = g /\ gs[2] = s
  <2>1. fs \in Seq(Frames) /\ Len(fs) = 1 /\ fs[1] = s /\ g \in Frames
    BY <1>4, <1>5, <1>8, Zenon
  <2> HIDE DEF fs
  <2> QED
    BY <2>1, PushedTop, Zenon
<1> HIDE DEF gs, fs
<1>10. Gate(g)
  BY <1>6, <1>8, Zenon DEF Gate
<1>11. ops \in Seq(LightInstr) => Light(cur, g)
  BY <1>8, Zenon DEF Light
<1>12. Quiet(s) \/ (~preempt /\ Light(cur, g))
  BY <1>4, <1>11, Zenon DEF RunsBase, s
<1>13. RunsGate(cur, g, s, Live, preempt)
  BY <1>4, <1>8, <1>10, <1>11, <1>12, Zenon DEF RunsGate
<1>14. InService(g, inService')
  BY <1>8, Zenon DEF InService
<1>15. Runs(cur, gs, Live, preempt, inService')
  BY <1>9, <1>13, <1>14, Zenon DEF Runs
<1>16. Accounts(held, cur, gs)
  <2>1. \A lock : ~Holds(g.rest, lock)
    BY <1>6, <1>8, FreshHolds, Zenon
  <2>2. \A lock \in Locks : HoldsIn(gs, lock) <=> HoldsIn(fs, lock)
    BY <1>4, <1>5, <1>9, <2>1, Zenon DEF HoldsIn
  <2>3. \A lock \in Locks : held[lock] = IF HoldsIn(gs, lock) THEN cur ELSE Free
    BY <1>5, <2>2, Zenon
  <2> QED
    BY <1>9, <2>3, AccountsIs, Zenon
<1>17. /\ streams' \in [Contexts -> Seq(Frames)] /\ streams'[cur] = gs
       /\ \A d \in Contexts \ {cur} : streams'[d] = streams[d]
  BY <1>2, <1>3, <1>9, Zenon
<1>18. Live' = Live
  BY <1>1, Zenon DEF Live
<1>19. \A d \in Contexts \ {cur} : Waits(d)'
  BY <1>2, <1>17, <1>18, OthersWait, Zenon
<1> QED
  BY <1>1, <1>2, <1>15, <1>16, <1>17, <1>18, <1>19 DEF LockInv

\* The operations of the kernel, and the end of a kernel task.
LEMMA OperationStep ==
  ASSUME LockInv, KernelOperation \/ LoadProgram \/ FinishTask
  PROVE  LockInv'
<1>1. ASSUME NEW ops \in Seq(MainInstr), Starts(ops), Operation(ops)
      PROVE  LockInv'
  <2>1. \A i \in MainInstr : i[1] # "iret" /\ i[1] # "leave"
    BY Zenon DEF MainInstr
  <2>2. ~Has(ops, "iret") /\ ~Has(ops, "leave")
    BY <2>1, HasNot, Zenon
  <2>3. Ends(ops)
    BY <2>2, NoIretLeaves, Zenon DEF Ends
  <2>4. Shape(ops) /\ Fresh(ops)
    BY <1>1, Zenon DEF Operation, Fresh, Holding
  <2> QED
    BY <1>1, <2>3, <2>4, StartStep, Zenon
<1>2. CASE KernelOperation
  <2>1. PICK ops \in {VgaPrint, SerialPrint, Spawn, Query, QueryUserMemory} : Starts(ops)
    BY <1>2, Zenon DEF KernelOperation
  <2>2. ops \in Seq(MainInstr) /\ Operation(ops)
    BY <2>1, KernelOperations, Zenon
  <2> QED
    BY <1>1, <2>1, <2>2, Zenon
<1>3. CASE LoadProgram
  <2>1. Starts(Load) /\ ~preempt
    BY <1>3, Zenon DEF LoadProgram
  <2>2. Plain(Load) /\ Load \in Seq(LoadInstr)
    BY SetUpIsPlain, Zenon
  <2>3. Load \in Seq(MainInstr) /\ Load \in Seq(BaseInstr)
    BY <2>2, PlainIsMain, Zenon
  <2>4. Ends(Load)
    BY <2>2, PlainHas, NoIretLeaves, Zenon DEF Ends
  <2>5. Shape(Load) /\ Fresh(Load)
    BY <2>2, Zenon DEF Plain
  <2> QED
    BY <2>1, <2>2, <2>3, <2>4, <2>5, StartStep, Zenon
<1>4. CASE FinishTask
  <2>1. Starts(Finish) /\ cur # Main
    BY <1>4, KernelLocksAssumption, Zenon DEF FinishTask, Tasks
  <2>2. Operation(Finish) /\ Ends(Finish)
    BY FinishOperation, Zenon
  <2>3. Shape(Finish) /\ Fresh(Finish)
    BY <2>2 DEF Operation, Fresh, Holding
  <2> QED
    BY <2>1, <2>2, <2>3, StartStep
<1> QED
  BY <1>2, <1>3, <1>4, Zenon

\* System calls, faults and yields.
LEMMA TrapStep ==
  ASSUME LockInv, Yield \/ UserTrap
  PROVE  LockInv'
<1>1. Idle(cur) /\ cur # Main /\ inService' = inService
  BY KernelLocksAssumption, Zenon DEF Yield, UserTrap, Tasks
<1>2. PICK ops \in Syscalls \cup {Exit, Fault, Pick \o Iret} : Enters(ops)
  BY Zenon DEF Yield, UserTrap
<1>3. Top(cur).enabled /\ Quiet(Top(cur))
  BY <1>1, IdleRuns, Zenon
<1>4. inService' = {}
  BY <1>1, <1>3, EnabledRuns, Zenon
<1>5. Handler(ops)
  BY TrapHandlers, Zenon
<1> QED
  BY <1>1, <1>2, <1>3, <1>4, <1>5, EnterStep, Zenon

\* Interrupts.
LEMMA InterruptStep ==
  ASSUME LockInv, Timer \/ Keyboard
  PROVE  LockInv'
<1>1. Top(cur).enabled
  BY Zenon DEF Timer, Keyboard, Interruptible
<1>2. /\ inService = {} /\ RunsBase(cur, Top(cur), Live, preempt)
      /\ preempt \in BOOLEAN
  BY <1>1, EnabledRuns, Zenon DEF LockInv
<1>3. Quiet(Top(cur)) \/ ~preempt
  BY <1>1, <1>2, Zenon DEF RunsBase
<1>4. CASE Timer
  <2> DEFINE switches == preempt /\ cur # Main
  <2>1. Enters(TimerHandler(switches)) /\ inService' = {"timer"}
    BY <1>2, <1>4, Zenon DEF Timer
  <2>2. switches \in BOOLEAN /\ (~switches => switches = FALSE)
    BY <1>2, Zenon
  <2>3. cur = Main \/ ~preempt => ~switches
    BY Zenon
  <2> HIDE DEF switches
  <2> DEFINE ops == TimerHandler(switches)
  <2>4. Handler(ops) /\ (\E i \in 1 .. Len(ops) : ops[i] = <<"eoi", "timer">>)
    BY <2>2, IrqHandlers, Zenon
  <2>5. ~switches => ops \in Seq(LightInstr)
    BY <2>2, IrqHandlers, Zenon
  <2>6. Enters(ops)
    BY <2>1, Zenon
  <2> HIDE DEF ops
  <2>7. /\ inService' \subseteq Irqs
        /\ \A irq \in inService' : \E i \in 1 .. Len(ops) : ops[i] = <<"eoi", irq>>
    BY <2>1, <2>4, Zenon DEF Irqs
  <2>8. /\ Quiet(Top(cur)) \/ ops \in Seq(LightInstr)
        /\ cur = Main => ops \in Seq(LightInstr)
    BY <1>3, <2>3, <2>5, Zenon
  <2> QED
    BY <1>1, <2>4, <2>6, <2>7, <2>8, EnterStep, Zenon
<1>5. CASE Keyboard
  <2> DEFINE ops == KeyboardHandler
  <2>1. Enters(ops) /\ inService' = {"keyboard"}
    BY <1>2, <1>5, Zenon DEF Keyboard
  <2>2. /\ Handler(ops) /\ ops \in Seq(LightInstr)
        /\ \E i \in 1 .. Len(ops) : ops[i] = <<"eoi", "keyboard">>
    BY IrqHandlers, Zenon
  <2> HIDE DEF ops
  <2>3. /\ inService' \subseteq Irqs
        /\ \A irq \in inService' : \E i \in 1 .. Len(ops) : ops[i] = <<"eoi", irq>>
    BY <2>1, <2>2, Zenon DEF Irqs
  <2> QED
    BY <1>1, <2>1, <2>2, <2>3, EnterStep, Zenon
<1> QED
  BY <1>4, <1>5, Zenon

\* Main runs the tasks, and waits with interrupts off.
LEMMA RunStep ==
  ASSUME LockInv, Run
  PROVE  LockInv'
<1> DEFINE s == Top(cur)
           restore == <<"restore", "">>
           f == Parked(s, <<restore>>)
<1>1. /\ cur = Main /\ Idle(cur) /\ held' = held /\ ready' = ready /\ preempt' = preempt
      /\ inService' = inService
  BY Zenon DEF Run
<1>2. PICK c \in ready : cur' = c /\ streams' = [streams EXCEPT ![cur] = <<f>>]
  BY Zenon DEF Run, Parked
<1>3. s.enabled /\ s.rest = <<>>
  BY <1>1, IdleRuns, Zenon
<1>4. /\ Len(streams[cur]) = 1 /\ inService = {} /\ cur \in Live /\ s.next = cur
      /\ s \in Frames
  BY <1>3, EnabledRuns, RunningTop, Zenon
<1>5. restore \in Instr /\ restore \in MainInstr /\ restore \in BaseInstr
      /\ restore[1] = "restore"
  BY Zenon DEF MainInstr, BaseInstr, Instr, Ops
<1> HIDE DEF restore
<1>6. /\ <<restore>> \in Seq(Instr) /\ <<restore>> \in Seq(MainInstr)
      /\ <<restore>> \in Seq(BaseInstr) /\ Len(<<restore>>) = 1 /\ <<restore>>[1] = restore
      /\ <<restore>> # <<>>
  BY <1>5
<1>7. Shape(<<restore>>) /\ \A op : Has(<<restore>>, op) <=> op = "restore"
  BY <1>5, Single, Zenon
<1>8. Body(<<restore>>)
  BY <1>5, <1>6 DEF Body
<1>9. Ends(<<restore>>)
  BY <1>7, NoIretLeaves, Zenon DEF Ends
<1>10. IsFrame(f, <<restore>>, FALSE, s.enabled, s.next)
  BY <1>4, <1>6, FrameUpdates, Zenon
<1> HIDE DEF f, s
<1>11. f \in Frames /\ f.rest = <<restore>> /\ ~f.enabled /\ f.was /\ f.next = cur
  BY <1>3, <1>4, <1>10, Zenon DEF IsFrame
<1>12. Suspended(cur, f)
  <2>1. Base(cur, f)
    BY <1>6, <1>7, <1>8, <1>11, Zenon DEF Base, Started
  <2> QED
    BY <1>1, <1>9, <1>11, <2>1, Zenon DEF Suspended, restore
<1>13. \A x \in Frames : <<x>> \in Seq(Frames) /\ Len(<<x>>) = 1 /\ <<x>>[1] = x
  OBVIOUS
<1> DEFINE fs == <<f>>
<1>14. fs \in Seq(Frames) /\ Len(fs) = 1 /\ fs[1] = f
  BY <1>11, <1>13, Zenon
<1>15. \A lock \in Locks : held[lock] = Free
  <2>1. \A lock \in Locks : held[lock] = IF HoldsIn(streams[cur], lock) THEN cur ELSE Free
    BY RunningStack, Zenon
  <2>2. \A lock : ~Holds(streams[cur][1].rest, lock)
    BY <1>3, RunningStack, Zenon DEF Holds, s
  <2> QED
    BY <1>4, <2>1, <2>2, Zenon DEF HoldsIn
<1>16. c \in Live /\ c # cur
  BY <1>1, <1>2, KernelLocksAssumption, Zenon DEF Live, LockInv
<1>17. streams' = [streams EXCEPT ![cur] = fs]
  BY <1>2, Zenon
<1> HIDE DEF fs
<1> QED
  BY <1>1, <1>2, <1>4, <1>12, <1>14, <1>15, <1>16, <1>17, HandsOver, Zenon

\* Preemption is switched on or off between operations.
LEMMA PreemptionStep ==
  ASSUME LockInv, NEW on \in BOOLEAN, SetPreemption(on)
  PROVE  LockInv'
<1>1. /\ Idle(cur) /\ preempt' = on /\ held' = held /\ streams' = streams /\ cur' = cur
      /\ ready' = ready /\ inService' = inService
  BY Zenon DEF SetPreemption
<1>2. Top(cur).enabled /\ Quiet(Top(cur))
  BY <1>1, IdleRuns, Zenon
<1>3. Len(streams[cur]) = 1 /\ RunsBase(cur, Top(cur), Live, preempt) /\ inService = {}
  BY <1>2, EnabledRuns, Zenon
<1>4. RunsBase(cur, Top(cur), Live, on)
  BY <1>2, <1>3, Zenon DEF RunsBase
<1>5. Runs(cur, streams[cur], Live, on, inService)
  BY <1>3, <1>4, Zenon DEF Runs, Top
<1>6. /\ held \in [Locks -> Contexts \cup {Free}] /\ streams \in [Contexts -> Seq(Frames)]
      /\ cur \in Contexts /\ ready \subseteq Tasks /\ inService \subseteq Irqs
      /\ Accounts(held, cur, streams[cur]) /\ \A d \in Contexts \ {cur} : Waits(d)
  BY Zenon DEF LockInv
<1>7. Live' = Live
  BY <1>1, Zenon DEF Live
<1>8. \A d \in Contexts \ {cur} : Waits(d)'
  BY <1>1, <1>6, <1>7, OthersWait, Zenon
<1> QED
  BY <1>1, <1>5, <1>6, <1>7, <1>8, Zenon DEF LockInv

-----------------------------------------------------------------------------
(* The invariant holds *)

\* At the start every context is between its operations, with interrupts on.
LEMMA InitLockInv == Init => LockInv
<1> SUFFICES ASSUME Init PROVE LockInv
  BY Zenon
<1> DEFINE start(c) == [rest |-> <<>>, enabled |-> TRUE, was |-> FALSE, next |-> c]
<1>1. \A S : <<>> \in Seq(S)
  OBVIOUS
<1>2. ASSUME NEW c \in Contexts
      PROVE  IsFrame(start(c), <<>>, TRUE, FALSE, c)
  BY <1>1, Zenon DEF IsFrame, Frames
<1>3. streams = [c \in Contexts |-> <<start(c)>>]
  BY Zenon DEF Init
<1> HIDE DEF start
<1>4. ASSUME NEW c \in Contexts
      PROVE  /\ start(c) \in Frames /\ start(c).rest = <<>> /\ start(c).enabled
             /\ start(c).next = c
  BY <1>2, Zenon DEF IsFrame
<1>5. Shape(<<>>) /\ Plain(<<>>)
  BY NothingIsPlain, Zenon DEF Plain
<1>6. Ends(<<>>)
  BY <1>5, PlainHas, NoIretLeaves, Zenon DEF Ends
<1>7. ASSUME NEW c \in Contexts
      PROVE  Base(c, start(c)) /\ Quiet(start(c)) /\ Ends(start(c).rest)
  BY <1>1, <1>4, <1>5, <1>6, Zenon DEF Base, Loading, Quiet
<1>8. \A x \in Frames : <<x>> \in Seq(Frames) /\ Len(<<x>>) = 1 /\ <<x>>[1] = x
  OBVIOUS
<1>9. ASSUME NEW c \in Contexts
      PROVE  /\ streams[c] \in Seq(Frames) /\ Len(streams[c]) = 1
             /\ streams[c][1] = start(c)
  BY <1>3, <1>4, <1>8, Zenon
<1>10. streams \in [Contexts -> Seq(Frames)]
  BY <1>3, <1>9, Zenon
<1>11. /\ cur = Main /\ ready = Tasks /\ preempt = FALSE /\ inService = {}
       /\ held = [lock \in Locks |-> Free] /\ Live = Contexts /\ cur \in Contexts
  BY Zenon DEF Init, Live, Contexts
<1>12. Runs(cur, streams[cur], Live, preempt, inService)
  <2>1. RunsBase(cur, start(cur), Live, preempt)
    BY <1>4, <1>7, <1>11, Zenon DEF RunsBase
  <2> QED
    BY <1>9, <1>11, <2>1 DEF Runs
<1>13. Accounts(held, cur, streams[cur])
  <2>1. \A lock : ~Holds(streams[cur][1].rest, lock)
    BY <1>4, <1>9, <1>11, Zenon DEF Holds
  <2>2. \A lock \in Locks : held[lock] = IF HoldsIn(streams[cur], lock) THEN cur ELSE Free
    BY <1>9, <1>11, <2>1, Zenon DEF HoldsIn
  <2> QED
    BY <1>9, <1>11, <2>2, AccountsIs, Zenon
<1>14. ASSUME NEW c \in Contexts \ {cur} PROVE Waits(c)
  <2>1. Suspended(c, start(c))
    BY <1>4, <1>7, <1>11 DEF Suspended
  <2> QED
    BY <1>9, <1>11, <2>1, Zenon DEF Waits
<1> QED
  BY <1>10, <1>11, <1>12, <1>13, <1>14, Zenon DEF LockInv

\* Every step keeps the invariant.
LEMMA NextLockInv == LockInv /\ [Next]_vars => LockInv'
<1> SUFFICES ASSUME LockInv, [Next]_vars PROVE LockInv'
  BY Zenon
<1>1. CASE Lock
  BY <1>1, LockStep, Zenon
<1>2. CASE Unlock
  BY <1>2, UnlockStep, Zenon
<1>3. CASE Cli \/ Restore
  BY <1>3, CliStep, Zenon
<1>4. CASE SendEoi
  BY <1>4, EoiStep
<1>5. CASE SwitchTo
  BY <1>5, SwitchStep
<1>6. CASE LeaveTask
  BY <1>6, LeaveStep
<1>7. CASE Return
  BY <1>7, ReturnStep
<1>8. CASE KernelOperation \/ LoadProgram \/ FinishTask
  BY <1>8, OperationStep, Zenon
<1>9. CASE \E on \in BOOLEAN : SetPreemption(on)
  BY <1>9, PreemptionStep, Zenon
<1>10. CASE Yield \/ UserTrap
  BY <1>10, TrapStep
<1>11. CASE Timer \/ Keyboard
  BY <1>11, InterruptStep
<1>12. CASE Run
  BY <1>12, RunStep
<1>13. CASE UNCHANGED vars
  BY <1>13, Zenon DEF vars, LockInv, Waits, Live
<1> QED
  BY <1>1, <1>2, <1>3, <1>4, <1>5, <1>6, <1>7, <1>8, <1>9, <1>10, <1>11, <1>12, <1>13, Zenon
     DEF Next, Step

\* LockInv is invariant.
LEMMA LockInvHolds == Spec => []LockInv
<1> QED
  BY InitLockInv, NextLockInv, PTL DEF Spec

\* How deep handlers are nested.
LEMMA AtMostTwo ==
  ASSUME NEW n, n = 0 \/ n = 1 \/ n = 2
  PROVE  n <= 2
OBVIOUS

\* For any tasks: only the running context holds locks, so nothing is switched
\* away from, suspended or ended while it holds one.
THEOREM NoLockIsHeldAcrossSwitches == Spec => []NoLockAcrossSwitch
<1>1. LockInv => NoLockAcrossSwitch
  <2> SUFFICES ASSUME LockInv PROVE NoLockAcrossSwitch
    BY Zenon
  <2>1. /\ held \in [Locks -> Contexts \cup {Free}] /\ cur \in Contexts /\ ready \subseteq Tasks
        /\ preempt \in BOOLEAN /\ inService \subseteq Irqs
    BY Zenon DEF LockInv
  <2>2. ASSUME NEW c \in Contexts PROVE Len(streams[c]) <= 2
    <3>1. CASE c = cur
      <4>1. Len(streams[cur]) = 1 \/ Len(streams[cur]) = 2
        BY RunningTop, Zenon
      <4> QED
        BY <3>1, <4>1, AtMostTwo, Zenon
    <3>2. CASE c # cur
      <4>1. Waits(c)
        BY <3>2, Zenon DEF LockInv
      <4>2. Len(streams[c]) = 1 \/ streams[c] = <<>>
        BY <4>1, Zenon DEF Waits
      <4>3. Len(<<>>) = 0
        BY Zenon
      <4> QED
        BY <4>2, <4>3, AtMostTwo, Zenon
    <3> QED
      BY <3>1, <3>2, Zenon
  <2>3. \A lock \in Locks : held[lock] \in {cur, Free}
    BY RunningStack
  <2> QED
    BY <2>1, <2>2, <2>3, Zenon DEF NoLockAcrossSwitch, TypeOK
<1> QED
  BY <1>1, LockInvHolds, PTL

\* For any tasks: whoever asks for a lock finds it free, so the CPU never spins
\* for a lock that only the interrupted context could release.
THEOREM LocksAreAlwaysFree == Spec => []LocksAreFree
<1>1. LockInv => LocksAreFree
  BY LockIsFree, Zenon DEF LocksAreFree
<1> QED
  BY <1>1, LockInvHolds, PTL

\* For any tasks: the end of every interrupt in service is still to be sent by
\* a handler of the running context, whatever switches and exits there are.
THEOREM InterruptsAreEnded == Spec => []EveryInterruptEnds
<1>1. LockInv => EveryInterruptEnds
  <2> SUFFICES ASSUME LockInv, NEW irq \in inService
               PROVE  \E i \in 1 .. Len(streams[cur]) :
                        <<"eoi", irq>> \in {streams[cur][i].rest[j] :
                                              j \in 1 .. Len(streams[cur][i].rest)}
    BY Zenon DEF EveryInterruptEnds
  <2> DEFINE eoi == <<"eoi", irq>>
  <2>1. Len(streams[cur]) = 2 /\ Top(cur) = streams[cur][1] /\ InService(Top(cur), inService)
    BY RunningStack, Zenon
  <2>2. PICK j \in 1 .. Len(streams[cur][1].rest) : streams[cur][1].rest[j] = eoi
    BY <2>1, Zenon DEF InService
  <2> HIDE DEF eoi
  <2>3. 1 \in 1 .. Len(streams[cur])
    BY <2>1
  <2>4. eoi \in {streams[cur][1].rest[k] : k \in 1 .. Len(streams[cur][1].rest)}
    BY <2>2, Zenon
  <2> QED
    BY <2>3, <2>4, Zenon DEF eoi
<1> QED
  BY <1>1, LockInvHolds, PTL

\* For any tasks: interrupts are on whenever a context is between its
\* operations, so no nesting of without_interrupts, handlers and switches loses
\* them.
THEOREM InterruptsAlwaysComeBack == Spec => []InterruptsComeBack
<1>1. LockInv => InterruptsComeBack
  <2> SUFFICES ASSUME LockInv, NEW c \in ready \cup {Main}, Idle(c)
               PROVE  Top(c).enabled
    BY Zenon DEF InterruptsComeBack
  <2>1. CASE c = cur
    BY <2>1, IdleRuns, Zenon
  <2>2. CASE c # cur
    <3>1. c \in Live /\ c \in Contexts
      BY Zenon DEF LockInv, Live, Contexts
    <3>2. Waits(c)
      BY <2>2, <3>1, Zenon DEF LockInv
    <3>3. Suspended(c, Top(c))
      BY <3>1, <3>2, Zenon DEF Waits, Top
    <3>4. Base(c, Top(c)) /\ Top(c).rest = <<>>
      BY <3>3, Zenon DEF Suspended, Idle
    <3>5. Loading(Top(c))
      BY <3>4, Zenon DEF Base, Started, Waiting, Body
    <3> QED
      BY <3>5 DEF Loading
  <2> QED
    BY <2>1, <2>2, Zenon
<1> QED
  BY <1>1, LockInvHolds, PTL
=============================================================================
