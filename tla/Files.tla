-------------------------------- MODULE Files --------------------------------
(***************************************************************************)
(* Descriptors and open files: src/fd.rs, src/file.rs, and the open, read, *)
(* write and close system calls of src/scheduler.rs.                       *)
(*                                                                         *)
(* Each process has a table of descriptors that name slots of one kernel   *)
(* table of open files, which holds the offset and a reference count.      *)
(* Which process makes the next call is the scheduler's choice (module     *)
(* Scheduler); here any running process may.  A call is one atomic step:   *)
(* it runs in an interrupt gate.  A kernel task has no process: its calls  *)
(* change neither table, and are left out.                                 *)
(***************************************************************************)
EXTENDS Integers, FiniteSets, FiniteSetsExt

CONSTANTS
  Pids,           \* the processes ever created
  MaxOpenFiles,   \* MAX_OPEN_FILES, file.rs
  MaxFds,         \* MAX_FDS_PER_PROCESS, fd.rs; stdio takes the first three
  Embedded,       \* EMBEDDED_FILES, by path
  FileLen,        \* the length in bytes of each of them
  MaxLen          \* bound: the largest len passed to read and write

ASSUME MaxOpenFilesAssumption == MaxOpenFiles \in Nat \ {0}
ASSUME MaxFdsAssumption == MaxFds \in Nat /\ MaxFds >= 3
ASSUME FileLenAssumption == FileLen \in [Embedded -> Nat]
ASSUME MaxLenAssumption == MaxLen \in Nat
ASSUME KindsAssumption ==
  Embedded \cap {"None", "NullInput", "ConsoleStdout", "ConsoleStderr"} = {}

VARIABLES
  files,    \* OpenFileTable.files
  fds,      \* FdTable.entries of each process
  life,     \* "Unborn", "Running" or "Ended" (zombie or reaped) processes
  ret       \* what the last call returned: a count, a descriptor or -errno

vars == <<files, fds, life, ret>>

FileIds == 0 .. MaxOpenFiles - 1
Fds == 0 .. MaxFds - 1
NoFile == -1

ENOENT == 2
EBADF == 9
EFAULT == 14
EINVAL == 22
ENFILE == 23
EMFILE == 24
ENAMETOOLONG == 36

STDIN == 0
STDOUT == 1
STDERR == 2

Console == {"ConsoleStdout", "ConsoleStderr"}

-----------------------------------------------------------------------------
(***************************************************************************)
(* OpenFileTable.                                                          *)
(***************************************************************************)
Closed == [kind |-> "None", access |-> "None", offset |-> 0, refs |-> 0]

FreeFiles(fs) == {i \in FileIds : fs[i] = Closed}

\* OpenFileTable::alloc takes the lowest free slot; callers test FreeFiles.
Alloc(fs, kind, access) ==
  [fs EXCEPT ![Min(FreeFiles(fs))] =
     [kind |-> kind, access |-> access, offset |-> 0, refs |-> 1]]

\* dec_ref, n times: the slot is freed when the count reaches 0.
Release(file, n) ==
  IF n = 0 THEN file
  ELSE IF file.refs <= n THEN Closed
  ELSE [file EXCEPT !.refs = @ - n]

DecRef(fs, id) == [fs EXCEPT ![id] = Release(@, 1)]

(***************************************************************************)
(* FdTable.                                                                *)
(***************************************************************************)
EmptyTable == [fd \in Fds |-> NoFile]

FreeFds(table) == {fd \in Fds : table[fd] = NoFile}

CloseAll(fs, table) ==
  [i \in FileIds |-> Release(fs[i], Cardinality({fd \in Fds : table[fd] = i}))]

\* One descriptor of new_with_stdio: when the open-file table is full, the ones
\* installed before it are closed again.
InstallStdio(st, fd, kind, access) ==
  IF st.failed THEN st
  ELSE IF FreeFiles(st.files) = {}
  THEN [files |-> CloseAll(st.files, st.table), table |-> EmptyTable, failed |-> TRUE]
  ELSE [files |-> Alloc(st.files, kind, access),
        table |-> [st.table EXCEPT ![fd] = Min(FreeFiles(st.files))],
        failed |-> FALSE]

\* NewWithStdio with a mistake: standard error shares standard output's file.
NewWithStdioShared(fs) ==
  LET start == [files |-> fs, table |-> EmptyTable, failed |-> FALSE]
      input == InstallStdio(start, STDIN, "NullInput", "ReadOnly")
      out   == InstallStdio(input, STDOUT, "ConsoleStdout", "WriteOnly")
  IN  IF out.failed THEN out
      ELSE [out EXCEPT !.table[STDERR] = out.table[STDOUT],
                       !.files[out.table[STDOUT]].refs = 2]

NewWithStdio(fs) ==
  LET start == [files |-> fs, table |-> EmptyTable, failed |-> FALSE]
      input == InstallStdio(start, STDIN, "NullInput", "ReadOnly")
      out   == InstallStdio(input, STDOUT, "ConsoleStdout", "WriteOnly")
  IN  InstallStdio(out, STDERR, "ConsoleStderr", "WriteOnly")

-----------------------------------------------------------------------------
(***************************************************************************)
(* Processes come and go.                                                  *)
(***************************************************************************)
\* spawn_user_process; that the process table has room is checked before.
Spawn(p) ==
  LET stdio == NewWithStdio(files)
  IN  /\ life[p] = "Unborn"
      /\ files' = stdio.files
      /\ IF stdio.failed
         THEN ret' = -ENFILE /\ UNCHANGED <<fds, life>>
         ELSE /\ fds' = [fds EXCEPT ![p] = stdio.table]
              /\ life' = [life EXCEPT ![p] = "Running"]
              /\ ret' = 0

\* Exit with a mistake: the descriptors are dropped, not closed.
ExitKeepsFiles(p) ==
  /\ life[p] = "Running"
  /\ life' = [life EXCEPT ![p] = "Ended"]
  /\ fds' = [fds EXCEPT ![p] = EmptyTable]
  /\ ret' = 0
  /\ UNCHANGED files

\* mark_exited, on exit and on a fault.
Exit(p) ==
  /\ life[p] = "Running"
  /\ life' = [life EXCEPT ![p] = "Ended"]
  /\ files' = CloseAll(files, fds[p])
  /\ fds' = [fds EXCEPT ![p] = EmptyTable]
  /\ ret' = 0

(***************************************************************************)
(* open.  The path is an embedded file's, one of no file, empty, or longer *)
(* than MAX_PATH_LEN; readable says whether copy_from_user can fetch it.   *)
(***************************************************************************)
Paths == Embedded \cup {"missing", "empty", "toolong"}

\* The early returns of sys_open_current before a file is allocated; 0 is none.
OpenError(path, flags, readable) ==
  IF flags # 0 THEN EINVAL
  ELSE IF path = "empty" THEN ENOENT
  ELSE IF path = "toolong" THEN ENAMETOOLONG
  ELSE IF ~readable THEN EFAULT
  ELSE IF path = "missing" THEN ENOENT
  ELSE IF FreeFiles(files) = {} THEN ENFILE
  ELSE 0

\* Over all of its arguments.
OpenErrors ==
  {OpenError(path, flags, readable) :
     path \in Paths, flags \in 0 .. 1, readable \in BOOLEAN} \ {0}

OpenFails(p) ==
  /\ life[p] = "Running"
  /\ \E error \in OpenErrors : ret' = -error
  /\ UNCHANGED <<files, fds, life>>

\* Open with a mistake: the highest free descriptor is taken.
OpenTakesHighest(p, path) ==
  LET free == FreeFds(fds[p])
  IN  /\ life[p] = "Running"
      /\ OpenError(path, 0, TRUE) = 0
      /\ IF free = {} THEN ret' = -EMFILE /\ UNCHANGED <<files, fds>>
         ELSE /\ files' = Alloc(files, path, "ReadOnly")
              /\ fds' = [fds EXCEPT ![p][Max(free)] = Min(FreeFiles(files))]
              /\ ret' = Max(free)
      /\ UNCHANGED life

\* The open file is allocated first; with no descriptor left it is released.
Open(p, path) ==
  LET id    == Min(FreeFiles(files))
      alloc == Alloc(files, path, "ReadOnly")
      free  == FreeFds(fds[p])
  IN  /\ life[p] = "Running"
      /\ OpenError(path, 0, TRUE) = 0
      /\ IF free = {}
         THEN /\ files' = DecRef(alloc, id)
              /\ ret' = -EMFILE
              /\ UNCHANGED fds
         ELSE /\ files' = alloc
              /\ fds' = [fds EXCEPT ![p][Min(free)] = id]
              /\ ret' = Min(free)
      /\ UNCHANGED life

(***************************************************************************)
(* read and write.  fd may be out of range; ok says whether the user range *)
(* passes validation.                                                      *)
(***************************************************************************)
OpenFileOf(p, fd) ==
  IF fd \in Fds /\ fds[p][fd] # NoFile THEN files[fds[p][fd]] ELSE Closed

\* Count with a mistake: what is left of the file is not looked at.
CountWholeLen(file, len) == IF file.kind \in Embedded THEN len ELSE 0

\* Bytes that a read returns: 0 for the null input and at the end of a file.
Count(file, len) ==
  IF file.kind \in Embedded THEN Min({len, FileLen[file.kind] - file.offset}) ELSE 0

ReadResult(file, len, ok) ==
  IF len = 0 THEN 0
  ELSE IF file.access # "ReadOnly" \/ file.kind \in Console THEN -EBADF
  ELSE IF file.kind = "NullInput" \/ file.offset >= FileLen[file.kind] THEN 0
  ELSE IF ~ok THEN -EFAULT
  ELSE Count(file, len)

ReadResults(p, fd) ==
  {ReadResult(OpenFileOf(p, fd), len, ok) : len \in 0 .. MaxLen, ok \in BOOLEAN}

\* Read with a mistake: the offset moves even when the copy fails.
ReadMovesFirst(p, fd) ==
  /\ life[p] = "Running"
  /\ ret' \in ReadResults(p, fd)
  /\ IF ret' > 0 \/ ret' = -EFAULT
     THEN files' = [files EXCEPT ![fds[p][fd]].offset = @ + Count(files[fds[p][fd]], MaxLen)]
     ELSE UNCHANGED files
  /\ UNCHANGED <<fds, life>>

Read(p, fd) ==
  /\ life[p] = "Running"
  /\ ret' \in ReadResults(p, fd)
  /\ IF ret' > 0
     THEN files' = [files EXCEPT ![fds[p][fd]].offset = @ + ret']
     ELSE UNCHANGED files
  /\ UNCHANGED <<fds, life>>

WriteResult(file, len, ok) ==
  IF len = 0 THEN 0
  ELSE IF file.access # "WriteOnly" \/ file.kind \notin Console THEN -EBADF
  ELSE IF ~ok THEN -EFAULT
  ELSE len

WriteResults(p, fd) ==
  {WriteResult(OpenFileOf(p, fd), len, ok) : len \in 0 .. MaxLen, ok \in BOOLEAN}

Write(p, fd) ==
  /\ life[p] = "Running"
  /\ ret' \in WriteResults(p, fd)
  /\ UNCHANGED <<files, fds, life>>

Close(p, fd) ==
  /\ life[p] = "Running"
  /\ IF fd \in Fds /\ fds[p][fd] # NoFile
     THEN /\ files' = DecRef(files, fds[p][fd])
          /\ fds' = [fds EXCEPT ![p][fd] = NoFile]
          /\ ret' = 0
     ELSE ret' = -EBADF /\ UNCHANGED <<files, fds>>
  /\ UNCHANGED life

-----------------------------------------------------------------------------
Init ==
  /\ files = [i \in FileIds |-> Closed]
  /\ fds = [p \in Pids |-> EmptyTable]
  /\ life = [p \in Pids |-> "Unborn"]
  /\ ret = 0

Next ==
  \E p \in Pids :
    \/ Spawn(p)
    \/ Exit(p)
    \/ OpenFails(p)
    \/ \E path \in Embedded : Open(p, path)
    \/ \E fd \in 0 .. MaxFds :
         \/ Read(p, fd)
         \/ Write(p, fd)
         \/ Close(p, fd)

Spec == Init /\ [][Next]_vars

-----------------------------------------------------------------------------
OpenFile ==
  [kind : Embedded \cup Console \cup {"NullInput"},
   access : {"ReadOnly", "WriteOnly"}, offset : Nat, refs : Nat \ {0}]

\* The type of every variable.
TypeOK ==
  /\ files \in [FileIds -> OpenFile \cup {Closed}]
  /\ fds \in [Pids -> [Fds -> FileIds \cup {NoFile}]]
  /\ life \in [Pids -> {"Unborn", "Running", "Ended"}]
  /\ ret \in Int

Descriptors(id) == {d \in Pids \X Fds : fds[d[1]][d[2]] = id}

\* The reference count of every open-file slot is the number of descriptors
\* that name it.  So no descriptor dangles, no file is freed under a
\* descriptor, none is kept by nobody, and all are free once every process has
\* ended, across failed opens, failed spawns and exits.
RefsMatchDescriptors ==
  \A id \in FileIds : files[id].refs = Cardinality(Descriptors(id))

\* Only a running process holds descriptors, and no two descriptors share an
\* open file: nothing is inherited or duplicated in this kernel.
DescriptorsArePrivate ==
  /\ \A p \in Pids : life[p] # "Running" => fds[p] = EmptyTable
  /\ \A p, q \in Pids, fd, gd \in Fds :
       fds[p][fd] # NoFile /\ fds[p][fd] = fds[q][gd] => p = q /\ fd = gd

\* The variables have their types, and an offset never passes the end of its
\* file, so the slice bytes[offset..] of sys_read_current is always in bounds;
\* only regular files have an offset, and the direction of a file follows from
\* its kind.
OffsetsInRange ==
  /\ TypeOK
  /\ \A id \in FileIds :
       LET file == files[id]
       IN  /\ file.kind \in Embedded => file.offset <= FileLen[file.kind]
           /\ file.kind \notin Embedded => file.offset = 0
           /\ file.access = "WriteOnly" <=> file.kind \in Console

\* A call that returns an error leaves both tables as they were: the open file
\* that open allocated, and the standard descriptors that a spawn installed
\* before it failed, are given back.
FailureChangesNothing ==
  [][ret' < 0 => UNCHANGED <<files, fds, life>>]_vars

-----------------------------------------------------------------------------
(***************************************************************************)
(* The open-file table hidden: what each descriptor stands for.            *)
(***************************************************************************)
Seen(file) == [kind |-> file.kind, offset |-> file.offset]

Desc ==
  [p \in Pids |-> [fd \in Fds |->
     IF fds[p][fd] = NoFile THEN Seen(Closed) ELSE Seen(files[fds[p][fd]])]]

D == INSTANCE Descriptors WITH desc <- Desc, Capacity <- MaxOpenFiles

\* The two tables together behave as if every descriptor had an offset of its
\* own: sharing, slot reuse, rollback and cleanup of open files never show, and
\* -ENFILE and -EMFILE are returned only when there is no room.
ImplementsDescriptors == D!Spec
====
