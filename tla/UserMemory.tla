----------------------------- MODULE UserMemory -----------------------------
(***************************************************************************)
(* How system calls reach user memory: src/src/user_memory.rs and its      *)
(* callers, the write, read, open and waitpid calls of                     *)
(* src/src/scheduler.rs, from the pointer in a register                    *)
(* (src/src/syscall.rs) to the bytes that are moved.                       *)
(*                                                                         *)
(* A call is followed step by step.  Nothing runs between the steps of one *)
(* call (interrupts are off), except that waitpid copies its status when   *)
(* the child exits; the caller sleeps until then, so its page tables do    *)
(* not change.  Register values are numbers below Word, and pages are      *)
(* reached through frames that need not be adjacent.  In physical memory   *)
(* an untouched byte is its own address.                                   *)
(***************************************************************************)
EXTENDS Integers, Sequences, FiniteSets, FiniteSetsExt

CONSTANTS Word,         \* 2^64; addresses have a quarter of its range
          PageSize,
          UserBase,     \* USER_BASE
          StackTop,     \* USER_STACK_TOP
          Frame,        \* the frame of each user page
          ChunkSize,    \* WRITE_CHUNK_SIZE
          StatusSize,   \* wait_status_size()
          MaxPathLen,   \* MAX_PATH_LEN
          FileLen,      \* bytes left in the file that is read
          Pointers,     \* pointers and lengths that programs pass
          Lengths

UserPages == UserBase \div PageSize .. StackTop \div PageSize - 1

ASSUME UserMemoryAssumption ==
  /\ PageSize \in Nat \ {0} /\ ChunkSize \in Nat \ {0}
  /\ \A n \in {Word, UserBase, StackTop, StatusSize, MaxPathLen, FileLen} : n \in Nat
  /\ Word % 4 = 0 /\ StackTop <= Word \div 4 /\ UserBase < StackTop /\ StatusSize < Word
  /\ UserBase % PageSize = 0 /\ StackTop % PageSize = 0
  /\ Frame \in [UserPages -> Nat]
  /\ \A q, r \in UserPages : Frame[q] = Frame[r] => q = r
  /\ Pointers \subseteq 0 .. Word - 1 /\ Lengths \subseteq 0 .. Word - 1

VARIABLES perm,    \* user page -> "none", "r" or "rw"
          phys,    \* physical memory
          call,    \* the call: its name, pointer and length
          start,   \* the pointer as a VirtAddr
          phase,   \* where the kernel is in the call
          done,    \* bytes moved by the copy loop that is running
          buffer,  \* what copy_from_user has fetched
          out,     \* bytes sent to the serial port
          ret      \* the result, once phase is "returned"

vars == <<perm, phys, call, start, phase, done, buffer, out, ret>>

EFAULT == 14
Access == {"Read", "Write"}

PhysMem == 0 .. (Max({Frame[q] : q \in UserPages}) + 2) * PageSize - 1

-----------------------------------------------------------------------------
(* VirtAddr::new of the x86_64 crate: an address has a quarter of the      *)
(* range of a register here (48 of 64 bits).  Bits above the sign bit must *)
(* repeat it; when they are all clear they are set; anything else panics.  *)

Quarter == Word \div 4

IsAddress(value) == value < Quarter \/ value >= Word - Quarter

SignExtends(value) == Quarter <= value /\ value < 2 * Quarter

VirtAddr(value) == IF SignExtends(value) THEN value + 2 * Quarter ELSE value

-----------------------------------------------------------------------------
(* user_memory.rs.  Every UserMemoryError becomes -EFAULT. *)

\* CheckedEnd with a mistake: the sum wraps around.
WrappingEnd(a, len) == (a + len) % Word

\* start + len, where overflow is Word.
CheckedEnd(a, len) == Min({a + len, Word})

AlignDown(a) == (a \div PageSize) * PageSize

PermOf(a) == perm[a \div PageSize]

ValidByte(a, access) ==
  /\ UserBase <= a /\ a < StackTop
  /\ PermOf(a) # "none"
  /\ access = "Write" => PermOf(a) = "rw"

ValidRange(a, len, access) ==
  LET end == CheckedEnd(a, len) IN
  \/ len = 0
  \/ /\ end # Word
     /\ UserBase <= a /\ end <= StackTop
     /\ \A page \in {q * PageSize : q \in UserPages} :
          AlignDown(a) <= page /\ page < end => ValidByte(page, access)

Translate(a) == Frame[a \div PageSize] * PageSize + (a % PageSize)

\* Chunk with a mistake: where in its page the copy starts is forgotten.
WholePageChunk(a, left) == Min({left, PageSize})

\* What one turn of a copy loop moves: up to the end of the page.
Chunk(a, left) == Min({left, PageSize - (a % PageSize)})

Fetched(a, count) == [k \in 1 .. count |-> phys[Translate(a) + k - 1]]

-----------------------------------------------------------------------------
(* The calls.  A call that succeeds returns the number of bytes it moved; open *)
(* and waitpid go on with the path or the child, which is not modelled here.   *)

Return(value) ==
  /\ phase' = "returned"
  /\ ret' = value
  /\ UNCHANGED <<perm, phys, call, start, done, buffer, out>>

Goto(next) ==
  /\ phase' = next
  /\ UNCHANGED <<perm, phys, call, done, buffer, out, ret>>

\* dispatch.  A null status pointer asks waitpid for no status.
Dispatch ==
  /\ phase = "dispatch"
  /\ start' = VirtAddr(call.ptr)
  /\ IF ~(IsAddress(call.ptr) \/ SignExtends(call.ptr)) THEN Goto("panic")
     ELSE IF call.op \in {"write", "waitpid"} THEN Goto("validate")
     ELSE Goto("copy")

\* ValidateAccess with a mistake: the status is only checked for reading.
ValidateForRead(op) == "Read"

ValidateAccess(op) == IF op = "waitpid" THEN "Write" ELSE "Read"

Validate ==
  /\ phase = "validate"
  /\ IF ValidRange(start, call.len, ValidateAccess(call.op))
     THEN Goto("copy") /\ UNCHANGED start
     ELSE Return(-EFAULT)

\* write sends what it has fetched every ChunkSize bytes; the length of `out`
\* is the number `written` of sys_write_current.
WriteChunk(left) == Min({ChunkSize, left})

\* One turn of the loop of copy_from_user; in write, at the end of a chunk,
\* the bytes go to the serial port.
CopyFromUser ==
  LET written == Len(out)
      wanted == IF call.op = "write" THEN WriteChunk(call.len - written) ELSE call.len
      address == start + written + done
  IN  /\ phase = "copy" /\ call.op \in {"write", "open"}
      /\ IF done < wanted
         THEN IF ~ValidByte(address, "Read") THEN Return(-EFAULT)
              ELSE LET count == Chunk(address, wanted - done) IN
                   /\ buffer' = buffer \o Fetched(address, count)
                   /\ done' = done + count
                   /\ UNCHANGED <<perm, phys, call, start, phase, out, ret>>
         ELSE IF call.op = "write" /\ written < call.len
         THEN /\ out' = out \o buffer
              /\ buffer' = <<>>
              /\ done' = 0
              /\ UNCHANGED <<perm, phys, call, start, phase, ret>>
         ELSE Return(call.len)

\* One turn of the loop of copy_to_user.  Byte k of the source is -k.
CopyToUser ==
  LET address == start + done IN
  /\ phase = "copy" /\ call.op \in {"read", "waitpid"}
  /\ IF done < call.len
     THEN IF ~ValidByte(address, "Write") THEN Return(-EFAULT)
          ELSE LET count == Chunk(address, call.len - done)
                   to == Translate(address)
               IN  /\ phys' = [x \in PhysMem |->
                                 IF x \in to .. to + count - 1
                                 THEN -(done + x - to + 1) ELSE phys[x]]
                   /\ done' = done + count
                   /\ UNCHANGED <<perm, call, start, phase, buffer, out, ret>>
     ELSE Return(call.len)

\* The calls whose length has passed the checks that come before the pointer
\* is used.
Calls ==
  [op : {"write"}, ptr : Pointers, len : Lengths] \cup
  [op : {"open"}, ptr : Pointers, len : Lengths \cap 1 .. MaxPathLen] \cup
  [op : {"read"}, ptr : Pointers, len : Lengths \cap 0 .. FileLen] \cup
  [op : {"waitpid"}, ptr : Pointers \ {0}, len : {StatusSize}]

Init ==
  /\ perm \in [UserPages -> {"none", "r", "rw"}]
  /\ phys = [x \in PhysMem |-> x]
  /\ call \in Calls
  /\ start = 0
  /\ phase = "dispatch"
  /\ done = 0
  /\ buffer = <<>>
  /\ out = <<>>
  /\ ret = 0

Next == Dispatch \/ Validate \/ CopyFromUser \/ CopyToUser

Spec == Init /\ [][Next]_vars

-----------------------------------------------------------------------------
(* Properties                                                              *)

\* The type of every variable; no loop moves more than the call asks for.
TypeOK ==
  /\ perm \in [UserPages -> {"none", "r", "rw"}]
  /\ DOMAIN phys = PhysMem
  /\ start \in 0 .. Word - 1
  /\ phase \in {"dispatch", "validate", "copy", "returned", "panic"}
  /\ done \in 0 .. call.len
  /\ Len(buffer) <= call.len /\ Len(out) <= call.len
  /\ ret \in {-EFAULT} \cup 0 .. Word - 1

Span(a, len) == a .. a + len - 1

Usable(a, access) ==
  /\ a \in UserBase .. StackTop - 1
  /\ PermOf(a) \in IF access = "Write" THEN {"rw"} ELSE {"r", "rw"}

\* validate_user_range, which looks at one byte of each page, accepts exactly
\* the ranges of which every byte may be accessed, also when the range wraps
\* around, ends at the top of user memory or crosses into an unmapped page.
ValidationIsExact ==
  \A access \in Access :
    phase = "dispatch" =>
      (ValidRange(call.ptr, call.len, access) <=>
         \A a \in Span(call.ptr, call.len) : Usable(a, access))

\* A copy whose range was validated does not fail: sys_write_current never
\* returns -EFAULT with a part of the bytes sent, and the status of a child,
\* validated when its parent went to sleep, can be written when the child ends.
ValidatedCopiesFinish ==
  [][phase = "copy" /\ call.op \in {"write", "waitpid"} => ret' # -EFAULT]_vars

\* The variables have their types; a call that succeeds has moved exactly the
\* bytes of the range, in order, through frames that are not adjacent; and no
\* call, also one that fails half way, changes a byte outside the range or one
\* the program may not write.
TransferIsExact ==
  /\ TypeOK
  /\ phase = "returned" /\ ret # -EFAULT =>
       LET bytes == Span(start, call.len) IN
       CASE call.op = "write" ->
              out = [k \in 1 .. call.len |-> Translate(start + k - 1)]
         [] call.op = "open" ->
              buffer = [k \in 1 .. call.len |-> Translate(start + k - 1)]
         [] call.op \in {"read", "waitpid"} ->
              \A a \in bytes : phys[Translate(a)] = -(a - start + 1)
  /\ \A x \in PhysMem :
       phys[x] # x =>
         \E a \in UserBase .. StackTop - 1 :
           a \in Span(start, call.len) /\ Usable(a, "Write") /\ Translate(a) = x

\* What docs/code_walkthrough/user_memory_and_write.md says of a bad pointer in
\* a system call: the call returns -EFAULT.  dispatch makes a VirtAddr of the
\* register before anything is checked, and that panics for a value that is
\* no address.
BadPointersReturn == call.len > 0 => phase # "panic"

=============================================================================
