----------------------------- MODULE Descriptors -----------------------------
(***************************************************************************)
(* What the descriptor layer promises to a user process, without the       *)
(* kernel's table of open files: every descriptor has an offset of its     *)
(* own, calls that fail change nothing, and a call fails for want of room  *)
(* only when there is none.  Module Files implements it.                   *)
(***************************************************************************)
EXTENDS Integers, FiniteSets, FiniteSetsExt

CONSTANTS
  Pids,       \* the processes
  Capacity,   \* descriptors that may be open in the whole system
  MaxFds,     \* descriptors of one process
  Embedded,   \* the regular files
  FileLen,    \* their lengths
  MaxLen      \* bound: the largest len of a call

VARIABLES
  desc,       \* for each process and number: what is open there
  life,       \* "Unborn", "Running" or "Ended"
  ret         \* what the last call returned

vars == <<desc, life, ret>>

Fds == 0 .. MaxFds - 1
NoDesc == [kind |-> "None", offset |-> 0]
Fresh(kind) == [kind |-> kind, offset |-> 0]
Empty == [fd \in Fds |-> NoDesc]

\* A process starts with standard input, output and error.
Stdio ==
  [Empty EXCEPT ![0] = Fresh("NullInput"), ![1] = Fresh("ConsoleStdout"),
                ![2] = Fresh("ConsoleStderr")]

InUse ==
  LET d == desc IN Cardinality({at \in Pids \X Fds : d[at[1]][at[2]] # NoDesc})

Start(p) ==
  /\ life[p] = "Unborn"
  /\ life' = [life EXCEPT ![p] = "Running"]
  /\ ret' = 0
  /\ InUse + 3 <= Capacity
  /\ desc' = [desc EXCEPT ![p] = Stdio]

End(p) ==
  /\ life[p] = "Running"
  /\ life' = [life EXCEPT ![p] = "Ended"]
  /\ ret' = 0
  /\ desc' = [desc EXCEPT ![p] = Empty]

Unused(p) == LET d == desc[p] IN {fd \in Fds : d[fd] = NoDesc}

\* The lowest free number, at the start of the file.
Open(p, path) ==
  /\ life[p] = "Running"
  /\ ret' \in Fds
  /\ Unused(p) # {}
  /\ ret' = Min(Unused(p))
  /\ UNCHANGED life
  /\ InUse < Capacity
  /\ desc' = [desc EXCEPT ![p][ret'] = Fresh(path)]

\* Bytes are read in order: no more than are left, and none only at the end.
Read(p, fd) ==
  LET d    == desc[p][fd]
      left == FileLen[d.kind] - d.offset
  IN  /\ life[p] = "Running"
      /\ ret' \in 0 .. MaxLen
      /\ d.kind \in Embedded
      /\ ret' <= left
      /\ ret' = 0 => left = 0
      /\ UNCHANGED life
      /\ desc' = [desc EXCEPT ![p][fd].offset = @ + ret']

\* All of the bytes are written, or none and the call fails.
Write(p, fd) ==
  /\ life[p] = "Running"
  /\ ret' \in 1 .. MaxLen
  /\ desc[p][fd].kind \in {"ConsoleStdout", "ConsoleStderr"}
  /\ UNCHANGED <<life, desc>>

Close(p, fd) ==
  /\ life[p] = "Running"
  /\ ret' = 0
  /\ UNCHANGED life
  /\ desc[p][fd] # NoDesc
  /\ desc' = [desc EXCEPT ![p][fd] = NoDesc]

\* An empty call, or a read of the null input.
Nothing(p) == ret' = 0 /\ life[p] = "Running" /\ UNCHANGED <<life, desc>>

\* -ENFILE (23) and -EMFILE (24) mean what they say.
Refuse(p, error) ==
  /\ ret' = -error
  /\ life[p] # "Ended"
  /\ life[p] = "Unborn" => error = 23
  /\ error = 23 => InUse + (IF life[p] = "Unborn" THEN 3 ELSE 1) > Capacity
  /\ error = 24 => Unused(p) = {}
  /\ UNCHANGED <<life, desc>>

Init ==
  /\ desc = [p \in Pids |-> Empty]
  /\ life = [p \in Pids |-> "Unborn"]
  /\ ret = 0

Next ==
  \E p \in Pids :
    \/ Nothing(p)
    \/ Start(p)
    \/ End(p)
    \/ \E path \in Embedded : Open(p, path)
    \/ \E fd \in Fds :
         \/ Read(p, fd)
         \/ Write(p, fd)
         \/ Close(p, fd)
    \/ \E error \in {2, 9, 14, 22, 23, 24, 36} : Refuse(p, error)

Spec == Init /\ [][Next]_vars
====
