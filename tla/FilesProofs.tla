----------------------------- MODULE FilesProofs -----------------------------
(***************************************************************************)
(* The safety of the descriptor and open-file tables, for every number of  *)
(* processes, descriptors and open files and every set of embedded files,  *)
(* and that they implement Descriptors.                                    *)
(*                                                                         *)
(* The reference counts are the difficulty: that they equal the number of  *)
(* descriptors is kept only because no two descriptors share a file, so a  *)
(* count is 0 or 1.  FilesInv says this without counting.                  *)
(***************************************************************************)
EXTENDS Files, TLAPS, FiniteSetTheorems

Tables == [Fds -> FileIds \cup {NoFile}]

Direction(kind) == IF kind \in Console THEN "WriteOnly" ELSE "ReadOnly"

\* What one open file must be.
FileOK(file) ==
  \/ file = Closed
  \/ /\ file \in OpenFile /\ file.refs = 1
     /\ file.access = Direction(file.kind)
     /\ file.kind \in Embedded => file.offset <= FileLen[file.kind]
     /\ file.kind \notin Embedded => file.offset = 0

\* Open files fs and descriptors ds fit: each open file has one descriptor.
Fit(fs, ds) ==
  /\ fs \in [FileIds -> OpenFile \cup {Closed}]
  /\ ds \in [Pids -> Tables]
  /\ \A id \in FileIds : FileOK(fs[id])
  /\ \A p \in Pids, fd \in Fds : ds[p][fd] # NoFile => fs[ds[p][fd]] # Closed
  /\ \A id \in FileIds : fs[id] # Closed => \E p \in Pids, fd \in Fds : ds[p][fd] = id
  /\ \A p, q \in Pids, fd, gd \in Fds :
       ds[p][fd] # NoFile /\ ds[p][fd] = ds[q][gd] => p = q /\ fd = gd

\* The inductive invariant.
FilesInv ==
  /\ Fit(files, fds)
  /\ life \in [Pids -> {"Unborn", "Running", "Ended"}]
  /\ ret \in Int
  /\ \A p \in Pids : life[p] # "Running" => fds[p] = EmptyTable

-----------------------------------------------------------------------------
(* Operators                                                               *)

\* Min finds the least element: the first match of a search upwards.
LEMMA MinIsLeast ==
  ASSUME NEW S \in SUBSET Nat, S # {}
  PROVE  Min(S) \in S /\ \A y \in S : Min(S) <= y
<1>1. PICK x \in S : \A y \in S : ~(<<y, x>> \in OpToRel(<, Nat))
  BY WFMin, NatLessThanWellFounded, Zenon
<1>2. \A y \in S : ~(y < x)
  BY <1>1, Zenon DEF OpToRel
<1>3. \A y \in S : x <= y
  BY <1>2
<1> QED
  BY <1>3, Zenon DEF Min

\* A free slot and a free descriptor, when there is one.
LEMMA FreeSlot ==
  ASSUME NEW fs, FreeFiles(fs) # {}
  PROVE  Min(FreeFiles(fs)) \in FileIds /\ fs[Min(FreeFiles(fs))] = Closed
<1>1. FreeFiles(fs) \in SUBSET Nat
  BY DEF FreeFiles, FileIds
<1>2. Min(FreeFiles(fs)) \in FreeFiles(fs)
  BY <1>1, MinIsLeast, Zenon
<1> QED
  BY <1>2, Zenon DEF FreeFiles

\* The same for the descriptors of one table.
LEMMA FreeDescriptor ==
  ASSUME NEW table, FreeFds(table) # {}
  PROVE  Min(FreeFds(table)) \in Fds /\ table[Min(FreeFds(table))] = NoFile
<1>1. FreeFds(table) \in SUBSET Nat
  BY DEF FreeFds, Fds
<1>2. Min(FreeFds(table)) \in FreeFds(table)
  BY <1>1, MinIsLeast, Zenon
<1> QED
  BY <1>2, Zenon DEF FreeFds

\* A closed slot is not an open file.
LEMMA ClosedIsNone == Closed \notin OpenFile /\ Closed.refs = 0 /\ Closed.access = "None"
                      /\ Closed.kind = "None" /\ Closed.offset = 0
BY Zenon DEF Closed, OpenFile

\* dec_ref on a file with one reference frees it.
LEMMA ReleaseOne ==
  ASSUME NEW file, file.refs \in 0 .. 1
  PROVE  Release(file, 1) = Closed /\ Release(file, 0) = file
BY DEF Release

\* A file that was just opened is as it should be.
LEMMA NewFileOK ==
  ASSUME NEW kind \in Embedded \cup Console \cup {"NullInput"}, NEW access,
         access = Direction(kind)
  PROVE  LET file == [kind |-> kind, access |-> access, offset |-> 0, refs |-> 1]
         IN  FileOK(file) /\ file \in OpenFile /\ file # Closed
<1> DEFINE file == [kind |-> kind, access |-> access, offset |-> 0, refs |-> 1]
<1>1. access \in {"ReadOnly", "WriteOnly"}
  BY Zenon DEF Direction
<1>2. file \in OpenFile
  BY <1>1 DEF OpenFile
<1>3. kind \in Embedded => 0 <= FileLen[kind]
  BY FileLenAssumption
<1> QED
  BY <1>2, <1>3, ClosedIsNone, Zenon DEF FileOK

-----------------------------------------------------------------------------
(* What opening and closing do to a pair that fits                         *)

\* A new open file and a new descriptor for it.
LEMMA InstallKeepsFit ==
  ASSUME NEW fs, NEW ds, Fit(fs, ds), FreeFiles(fs) # {},
         NEW p \in Pids, NEW fd \in Fds, ds[p][fd] = NoFile,
         NEW kind \in Embedded \cup Console \cup {"NullInput"}, NEW access,
         access = Direction(kind)
  PROVE  Fit(Alloc(fs, kind, access), [ds EXCEPT ![p][fd] = Min(FreeFiles(fs))])
<1> DEFINE id == Min(FreeFiles(fs))
           file == [kind |-> kind, access |-> access, offset |-> 0, refs |-> 1]
           fs1 == Alloc(fs, kind, access)
           ds1 == [ds EXCEPT ![p][fd] = id]
<1>1. id \in FileIds /\ fs[id] = Closed
  BY FreeSlot, Zenon
<1>2. FileOK(file) /\ file \in OpenFile /\ file # Closed
  BY NewFileOK, Zenon
<1>3. fs \in [FileIds -> OpenFile \cup {Closed}] /\ ds \in [Pids -> Tables]
  BY Zenon DEF Fit
<1>4. fs1 = [fs EXCEPT ![id] = file]
  BY Zenon DEF Alloc
<1>5. id # NoFile
  BY <1>1 DEF FileIds, NoFile
<1> HIDE DEF id, file, fs1, ds1
<1>6. fs1[id] = file /\ \A i \in FileIds : i # id => fs1[i] = fs[i]
  BY <1>1, <1>3, <1>4, Zenon
<1>7. fs1 \in [FileIds -> OpenFile \cup {Closed}]
  BY <1>1, <1>2, <1>3, <1>4, Zenon
<1>8. /\ ds1 \in [Pids -> Tables]
      /\ ds1[p][fd] = id
      /\ \A q \in Pids, gd \in Fds : q # p \/ gd # fd => ds1[q][gd] = ds[q][gd]
  BY <1>1, <1>3, Zenon DEF ds1, Tables
<1>9. \A q \in Pids, gd \in Fds : ds[q][gd] # id
  BY <1>1, <1>5, Zenon DEF Fit
<1>10. \A i \in FileIds : FileOK(fs1[i])
  BY <1>2, <1>6, Zenon DEF Fit
<1>11. \A q \in Pids, gd \in Fds : ds1[q][gd] # NoFile => fs1[ds1[q][gd]] # Closed
  <2> SUFFICES ASSUME NEW q \in Pids, NEW gd \in Fds, ds1[q][gd] # NoFile
               PROVE  fs1[ds1[q][gd]] # Closed
    BY Zenon
  <2>1. CASE q = p /\ gd = fd
    BY <2>1, <1>2, <1>6, <1>8, Zenon
  <2>2. CASE q # p \/ gd # fd
    <3>1. ds1[q][gd] = ds[q][gd] /\ ds[q][gd] \in FileIds /\ ds[q][gd] # id
      BY <2>2, <1>3, <1>8, <1>9 DEF Tables
    <3> QED
      BY <3>1, <1>6 DEF Fit
  <2> QED
    BY <2>1, <2>2, Zenon
<1>12. \A i \in FileIds : fs1[i] # Closed => \E q \in Pids, gd \in Fds : ds1[q][gd] = i
  <2> SUFFICES ASSUME NEW i \in FileIds, fs1[i] # Closed
               PROVE  \E q \in Pids, gd \in Fds : ds1[q][gd] = i
    BY Zenon
  <2>1. CASE i = id
    BY <2>1, <1>8, Zenon
  <2>2. CASE i # id
    <3>1. PICK q \in Pids, gd \in Fds : ds[q][gd] = i
      BY <2>2, <1>6, Zenon DEF Fit
    <3>2. q # p \/ gd # fd
      BY <3>1 DEF FileIds, NoFile
    <3> QED
      BY <3>1, <3>2, <1>8, Zenon
  <2> QED
    BY <2>1, <2>2, Zenon
<1>13. \A q, r \in Pids, gd, hd \in Fds :
         ds1[q][gd] # NoFile /\ ds1[q][gd] = ds1[r][hd] => q = r /\ gd = hd
  BY <1>8, <1>9 DEF Fit
<1> QED
  BY <1>7, <1>8, <1>10, <1>11, <1>12, <1>13, Zenon DEF Fit, fs1, ds1, id

\* Within one table a file has at most one descriptor.
LEMMA CountIsOne ==
  ASSUME NEW fs, NEW ds, Fit(fs, ds), NEW p \in Pids, NEW id \in FileIds
  PROVE  LET named == {fd \in Fds : ds[p][fd] = id}
         IN  IF named = {} THEN Cardinality(named) = 0 ELSE Cardinality(named) = 1
<1> DEFINE named == {fd \in Fds : ds[p][fd] = id}
<1>1. CASE named = {}
  BY <1>1, FS_EmptySet, Zenon
<1>2. CASE named # {}
  <2>1. PICK fd \in named : TRUE
    BY <1>2, Zenon
  <2>2. named = {fd}
    BY <2>1 DEF Fit, FileIds, NoFile
  <2>3. Cardinality({fd}) = 1
    BY FS_Singleton, Zenon
  <2> QED
    BY <1>2, <2>2, <2>3, Zenon
<1> QED
  BY <1>1, <1>2, Zenon

\* close_all frees the files of its table and leaves the others alone.
LEMMA CloseAllEffect ==
  ASSUME NEW fs, NEW ds, Fit(fs, ds), NEW p \in Pids
  PROVE  /\ DOMAIN CloseAll(fs, ds[p]) = FileIds
         /\ \A id \in FileIds :
              CloseAll(fs, ds[p])[id] = IF \E fd \in Fds : ds[p][fd] = id THEN Closed
                                        ELSE fs[id]
<1>1. DOMAIN CloseAll(fs, ds[p]) = FileIds
  BY Zenon DEF CloseAll
<1> SUFFICES ASSUME NEW id \in FileIds
             PROVE  CloseAll(fs, ds[p])[id] =
                      IF \E fd \in Fds : ds[p][fd] = id THEN Closed ELSE fs[id]
  BY <1>1, Zenon
<1> DEFINE named == {fd \in Fds : ds[p][fd] = id}
<1>2. CloseAll(fs, ds[p])[id] = Release(fs[id], Cardinality(named))
  BY Zenon DEF CloseAll
<1>3. fs[id].refs \in 0 .. 1
  BY ClosedIsNone DEF Fit, FileOK
<1>4. CASE named = {}
  <2>1. Cardinality(named) = 0
    BY <1>4, CountIsOne
  <2> QED
    BY <1>2, <1>3, <1>4, <2>1, ReleaseOne, Zenon
<1>5. CASE named # {}
  <2>1. Cardinality(named) = 1
    BY <1>5, CountIsOne
  <2>2. Release(fs[id], 1) = Closed
    BY <1>3, ReleaseOne, Zenon
  <2> QED
    BY <1>2, <1>5, <2>1, <2>2, Zenon
<1> QED
  BY <1>4, <1>5, Zenon

\* The descriptors gone of p are closed in ds1, and their files in fs1.
Removed(fs, ds, p, gone, fs1, ds1) ==
  /\ DOMAIN fs1 = FileIds /\ fs1 = [id \in DOMAIN fs1 |-> fs1[id]]
  /\ \A id \in FileIds :
       fs1[id] = IF \E fd \in gone : ds[p][fd] = id THEN Closed ELSE fs[id]
  /\ ds1 \in [Pids -> Tables]
  /\ \A q \in Pids, fd \in Fds :
       ds1[q][fd] = IF q = p /\ fd \in gone THEN NoFile ELSE ds[q][fd]

\* Closing some descriptors of one process, and with each its file.
LEMMA RemoveKeepsFit ==
  ASSUME NEW fs, NEW ds, Fit(fs, ds), NEW p \in Pids, NEW gone \in SUBSET Fds,
         NEW fs1, NEW ds1, Removed(fs, ds, p, gone, fs1, ds1)
  PROVE  Fit(fs1, ds1)
<1> USE DEF Removed
<1>1. fs1 \in [FileIds -> OpenFile \cup {Closed}]
  BY DEF Fit
<1>2. \A id \in FileIds : FileOK(fs1[id])
  BY DEF Fit, FileOK
<1>3. \A q \in Pids, fd \in Fds : ds1[q][fd] # NoFile => fs1[ds1[q][fd]] # Closed
  <2> SUFFICES ASSUME NEW q \in Pids, NEW fd \in Fds, ds1[q][fd] # NoFile
               PROVE  fs1[ds1[q][fd]] # Closed
    BY Zenon
  <2>1. ds1[q][fd] = ds[q][fd] /\ ~(q = p /\ fd \in gone)
    OBVIOUS
  <2>2. ds[q][fd] \in FileIds
    BY <2>1 DEF Fit, Tables
  <2>3. ~\E gd \in gone : ds[p][gd] = ds[q][fd]
    BY <2>1 DEF Fit
  <2> QED
    BY <2>1, <2>2, <2>3 DEF Fit
<1>4. \A id \in FileIds : fs1[id] # Closed => \E q \in Pids, fd \in Fds : ds1[q][fd] = id
  <2> SUFFICES ASSUME NEW id \in FileIds, fs1[id] # Closed
               PROVE  \E q \in Pids, fd \in Fds : ds1[q][fd] = id
    BY Zenon
  <2>1. fs[id] # Closed /\ ~\E fd \in gone : ds[p][fd] = id
    BY Zenon
  <2>2. PICK q \in Pids, fd \in Fds : ds[q][fd] = id
    BY <2>1, Zenon DEF Fit
  <2> QED
    BY <2>1, <2>2
<1>5. \A q, r \in Pids, fd, gd \in Fds :
        ds1[q][fd] # NoFile /\ ds1[q][fd] = ds1[r][gd] => q = r /\ fd = gd
  BY DEF Fit
<1> QED
  BY <1>1, <1>2, <1>3, <1>4, <1>5, Zenon DEF Fit

\* The end of a process: all of its descriptors are closed.
LEMMA CloseAllKeepsFit ==
  ASSUME NEW fs, NEW ds, Fit(fs, ds), NEW p \in Pids
  PROVE  Fit(CloseAll(fs, ds[p]), [ds EXCEPT ![p] = EmptyTable])
<1> DEFINE fs1 == CloseAll(fs, ds[p])
           ds1 == [ds EXCEPT ![p] = EmptyTable]
<1>1. ds \in [Pids -> Tables]
  BY Zenon DEF Fit
<1>2. EmptyTable \in Tables /\ \A fd \in Fds : EmptyTable[fd] = NoFile
  BY Zenon DEF EmptyTable, Tables
<1>3. /\ ds1 \in [Pids -> Tables]
      /\ \A q \in Pids, fd \in Fds :
           ds1[q][fd] = IF q = p /\ fd \in Fds THEN NoFile ELSE ds[q][fd]
  BY <1>1, <1>2, Zenon
<1>4. fs1 = [id \in DOMAIN fs1 |-> fs1[id]]
  BY Zenon DEF CloseAll
<1> HIDE DEF fs1, ds1
<1>5. DOMAIN fs1 = FileIds /\ \A id \in FileIds :
        fs1[id] = IF \E fd \in Fds : ds[p][fd] = id THEN Closed ELSE fs[id]
  BY CloseAllEffect DEF fs1
<1>6. Removed(fs, ds, p, Fds, fs1, ds1)
  BY <1>3, <1>4, <1>5, Zenon DEF Removed
<1>7. Fit(fs1, ds1)
  BY <1>6, RemoveKeepsFit, Zenon
<1> QED
  BY <1>7, Zenon DEF fs1, ds1

\* close: one descriptor and its file.
LEMMA CloseKeepsFit ==
  ASSUME NEW fs, NEW ds, Fit(fs, ds), NEW p \in Pids, NEW fd \in Fds, ds[p][fd] # NoFile
  PROVE  Fit(DecRef(fs, ds[p][fd]), [ds EXCEPT ![p][fd] = NoFile])
<1> DEFINE id == ds[p][fd]
           fs1 == DecRef(fs, id)
           ds1 == [ds EXCEPT ![p][fd] = NoFile]
<1>1. ds \in [Pids -> Tables] /\ fs \in [FileIds -> OpenFile \cup {Closed}]
  BY Zenon DEF Fit
<1>2. id \in FileIds
  BY <1>1 DEF Tables
<1>3. fs[id].refs \in 0 .. 1
  BY <1>2, ClosedIsNone DEF Fit, FileOK
<1>4. Release(fs[id], 1) = Closed
  BY <1>3, ReleaseOne, Zenon
<1>5. fs1 = [fs EXCEPT ![id] = Closed]
  BY <1>1, <1>2, <1>4, Zenon DEF DecRef
<1>6. /\ ds1 \in [Pids -> Tables]
      /\ \A q \in Pids, gd \in Fds :
           ds1[q][gd] = IF q = p /\ gd \in {fd} THEN NoFile ELSE ds[q][gd]
  BY <1>1, Zenon DEF Tables
<1> HIDE DEF fs1, ds1
<1>7. /\ DOMAIN fs1 = FileIds /\ fs1 = [i \in DOMAIN fs1 |-> fs1[i]]
      /\ \A i \in FileIds : fs1[i] = IF \E gd \in {fd} : ds[p][gd] = i THEN Closed ELSE fs[i]
  BY <1>1, <1>2, <1>5, Zenon
<1>8. Removed(fs, ds, p, {fd}, fs1, ds1)
  BY <1>6, <1>7, Zenon DEF Removed
<1>9. Fit(fs1, ds1)
  BY <1>8, RemoveKeepsFit, Zenon
<1> QED
  BY <1>9, Zenon DEF fs1, ds1

-----------------------------------------------------------------------------
(* new_with_stdio                                                          *)

\* The tables of p after some of the standard descriptors: they fit, and every
\* slot that is not one of theirs is as before; or all is undone.
StageOK(p, st) ==
  /\ st.failed \in BOOLEAN
  /\ st.failed => st.files = files
  /\ ~st.failed =>
       /\ st.table \in Tables
       /\ Fit(st.files, [fds EXCEPT ![p] = st.table])
       /\ \A id \in FileIds : IF \E fd \in Fds : st.table[fd] = id
                              THEN files[id] = Closed ELSE st.files[id] = files[id]

\* One more descriptor, fd, or none because it failed.
NextStage(p, st, fd, after) ==
  /\ StageOK(p, after)
  /\ ~after.failed => /\ ~st.failed
                      /\ \A gd \in Fds : gd # fd => after.table[gd] = st.table[gd]

\* One turn of new_with_stdio, with its rollback when there is no room.
LEMMA InstallStdioKeepsStage ==
  ASSUME FilesInv, NEW p \in Pids, NEW st, StageOK(p, st), NEW fd \in Fds,
         ~st.failed => st.table[fd] = NoFile,
         NEW kind \in Console \cup {"NullInput"}, NEW access, access = Direction(kind)
  PROVE  NextStage(p, st, fd, InstallStdio(st, fd, kind, access))
<1> DEFINE after == InstallStdio(st, fd, kind, access)
           ds == [fds EXCEPT ![p] = st.table]
           id == Min(FreeFiles(st.files))
<1> SUFFICES NextStage(p, st, fd, after)
  BY Zenon
<1>1. CASE st.failed
  BY <1>1, Zenon DEF InstallStdio, NextStage
<1>2. CASE ~st.failed
  <2>1. st.table \in Tables /\ Fit(st.files, ds)
    BY <1>2, Zenon DEF StageOK
  <2>2. /\ fds \in [Pids -> Tables] /\ files \in [FileIds -> OpenFile \cup {Closed}]
        /\ st.files \in [FileIds -> OpenFile \cup {Closed}]
    BY <2>1, Zenon DEF FilesInv, Fit
  <2>3. ds[p] = st.table
    BY <2>2, Zenon
  <2>4. CASE FreeFiles(st.files) = {}
    <3>1. /\ after.failed = TRUE
          /\ after.files = CloseAll(st.files, ds[p])
      BY <1>2, <2>3, <2>4, Zenon DEF InstallStdio
    <3>2. \A i \in FileIds : CloseAll(st.files, ds[p])[i] = files[i]
      <4> SUFFICES ASSUME NEW i \in FileIds PROVE CloseAll(st.files, ds[p])[i] = files[i]
        BY Zenon
      <4> HIDE DEF ds
      <4>1. CloseAll(st.files, ds[p])[i] =
              IF \E gd \in Fds : ds[p][gd] = i THEN Closed ELSE st.files[i]
        BY <2>1, CloseAllEffect
      <4> QED
        BY <1>2, <2>3, <4>1 DEF StageOK
    <3>3. CloseAll(st.files, ds[p]) = files
      BY <2>2, <3>2, Zenon DEF CloseAll
    <3> QED
      BY <3>1, <3>3, Zenon DEF StageOK, NextStage
  <2>5. CASE FreeFiles(st.files) # {}
    <3>1. /\ after.failed = FALSE
          /\ after.files = Alloc(st.files, kind, access)
          /\ after.table = [st.table EXCEPT ![fd] = id]
      BY <1>2, <2>5, Zenon DEF InstallStdio
    <3>2. id \in FileIds /\ st.files[id] = Closed
      BY <2>5, FreeSlot, Zenon
    <3>3. ds[p][fd] = NoFile
      BY <1>2, <2>3, Zenon
    <3>4. Fit(Alloc(st.files, kind, access), [ds EXCEPT ![p][fd] = id])
      BY <2>1, <2>5, <3>3, InstallKeepsFit, Zenon
    <3>5. [ds EXCEPT ![p][fd] = id] = [fds EXCEPT ![p] = after.table]
      BY <2>2, <2>3, <3>1, Zenon
    <3>6. after.table \in Tables /\ after.table[fd] = id
          /\ \A gd \in Fds : gd # fd => after.table[gd] = st.table[gd]
      BY <2>1, <3>1, <3>2, Zenon DEF Tables
    <3>7. after.files[id] # Closed
          /\ \A i \in FileIds : i # id => after.files[i] = st.files[i]
      BY <2>2, <3>1, <3>2, NewFileOK DEF Alloc
    <3>8. ~\E gd \in Fds : st.table[gd] = id
      BY <2>1, <2>3, <3>2 DEF Fit, FileIds, NoFile
    <3>9. files[id] = Closed
      BY <1>2, <3>2, <3>8, Zenon DEF StageOK
    <3>10. \A i \in FileIds : IF \E gd \in Fds : after.table[gd] = i
                              THEN files[i] = Closed ELSE after.files[i] = files[i]
      <4> SUFFICES ASSUME NEW i \in FileIds
                   PROVE  IF \E gd \in Fds : after.table[gd] = i
                          THEN files[i] = Closed ELSE after.files[i] = files[i]
        BY Zenon
      <4>1. CASE i = id
        BY <4>1, <3>6, <3>9, Zenon
      <4>2. CASE i # id
        <5>1. (\E gd \in Fds : after.table[gd] = i) <=> (\E gd \in Fds : st.table[gd] = i)
          BY <4>2, <3>3, <2>3, <3>6 DEF FileIds, NoFile
        <5> QED
          BY <4>2, <5>1, <3>7, <1>2, Zenon DEF StageOK
      <4> QED
        BY <4>1, <4>2, Zenon
    <3> HIDE DEF after, id, ds
    <3> QED
      BY <1>2, <3>1, <3>4, <3>5, <3>6, <3>10, Zenon DEF StageOK, NextStage
  <2> QED
    BY <2>4, <2>5, Zenon
<1> QED
  BY <1>1, <1>2, Zenon

\* A spawn gets a table that fits, or leaves all open files as they were.
LEMMA NewWithStdioEffect ==
  ASSUME FilesInv, NEW p \in Pids, fds[p] = EmptyTable
  PROVE  StageOK(p, NewWithStdio(files))
<1> DEFINE start == [files |-> files, table |-> EmptyTable, failed |-> FALSE]
           input == InstallStdio(start, STDIN, "NullInput", "ReadOnly")
           out   == InstallStdio(input, STDOUT, "ConsoleStdout", "WriteOnly")
<1>1. {STDIN, STDOUT, STDERR} \subseteq Fds
  BY MaxFdsAssumption DEF STDIN, STDOUT, STDERR, Fds
<1>2. STDIN # STDOUT /\ STDIN # STDERR /\ STDOUT # STDERR
  BY DEF STDIN, STDOUT, STDERR
<1>3. /\ Direction("NullInput") = "ReadOnly"
      /\ Direction("ConsoleStdout") = "WriteOnly" /\ Direction("ConsoleStderr") = "WriteOnly"
      /\ "ConsoleStdout" \in Console /\ "ConsoleStderr" \in Console
  BY Zenon DEF Direction, Console
<1>4. /\ EmptyTable \in Tables
      /\ \A fd \in Fds : EmptyTable[fd] = NoFile
      /\ \A id \in FileIds : ~\E fd \in Fds : EmptyTable[fd] = id
  BY DEF EmptyTable, Tables, FileIds, NoFile
<1>5. [fds EXCEPT ![p] = EmptyTable] = fds
  BY Zenon DEF FilesInv, Fit
<1>6. StageOK(p, start)
  BY <1>4, <1>5, Zenon DEF StageOK, FilesInv
<1>7. start.table = EmptyTable
  BY Zenon
<1> HIDE DEF start
<1>8. NextStage(p, start, STDIN, input)
  BY <1>1, <1>3, <1>4, <1>6, <1>7, InstallStdioKeepsStage, Zenon
<1> HIDE DEF input
<1>9. ~input.failed => input.table[STDOUT] = NoFile /\ input.table[STDERR] = NoFile
  BY <1>1, <1>2, <1>4, <1>7, <1>8, Zenon DEF NextStage
<1>10. NextStage(p, input, STDOUT, out)
  BY <1>1, <1>3, <1>8, <1>9, InstallStdioKeepsStage DEF NextStage
<1> HIDE DEF out
<1>11. ~out.failed => out.table[STDERR] = NoFile
  BY <1>1, <1>2, <1>9, <1>10, Zenon DEF NextStage
<1>12. StageOK(p, InstallStdio(out, STDERR, "ConsoleStderr", "WriteOnly"))
  BY <1>1, <1>3, <1>10, <1>11, InstallStdioKeepsStage, Zenon DEF NextStage
<1> QED
  BY <1>12, Zenon DEF NewWithStdio, out, input, start

-----------------------------------------------------------------------------
(* Steps                                                                   *)

\* What every step must do; the second half is FailureChangesNothing.
StepOK ==
  /\ FilesInv'
  /\ ret' < 0 => UNCHANGED <<files, fds, life>>

\* The error numbers are positive.
LEMMA Errors ==
  /\ {EBADF, EFAULT, ENFILE, EMFILE} \subseteq Nat \ {0}
  /\ OpenErrors \subseteq Int
BY DEF EBADF, EFAULT, ENFILE, EMFILE, OpenErrors, OpenError, EINVAL, ENOENT, ENAMETOOLONG

\* A new process: its table fits, or the spawn failed and nothing changed.
LEMMA SpawnKeepsInv ==
  ASSUME FilesInv, NEW p \in Pids, Spawn(p)
  PROVE  StepOK
<1> DEFINE stdio == NewWithStdio(files)
<1>1. fds[p] = EmptyTable /\ life[p] = "Unborn"
  BY Zenon DEF Spawn, FilesInv
<1>2. StageOK(p, stdio)
  BY <1>1, NewWithStdioEffect, Zenon
<1>3. CASE stdio.failed
  <2>1. files' = files /\ fds' = fds /\ life' = life /\ ret' \in Int
    BY <1>2, <1>3, Errors DEF Spawn, StageOK
  <2> QED
    BY <2>1 DEF StepOK, FilesInv, Fit
<1>4. CASE ~stdio.failed
  <2>1. /\ files' = stdio.files /\ fds' = [fds EXCEPT ![p] = stdio.table]
        /\ life' = [life EXCEPT ![p] = "Running"] /\ ret' = 0
    BY <1>4, Zenon DEF Spawn
  <2>2. Fit(stdio.files, [fds EXCEPT ![p] = stdio.table])
    BY <1>2, <1>4, Zenon DEF StageOK
  <2>3. Fit(files', fds')
    BY <2>1, <2>2, Zenon
  <2>4. \A q \in Pids : life'[q] # "Running" => fds'[q] = EmptyTable
    BY <2>1, Zenon DEF FilesInv, Fit
  <2>5. life' \in [Pids -> {"Unborn", "Running", "Ended"}]
    BY <2>1, Zenon DEF FilesInv
  <2>6. FilesInv'
    BY <2>1, <2>3, <2>4, <2>5 DEF FilesInv, Fit
  <2> QED
    BY <2>1, <2>6 DEF StepOK
<1> QED
  BY <1>3, <1>4, Zenon

\* The end of a process gives back all of its files.
LEMMA ExitKeepsInv ==
  ASSUME FilesInv, NEW p \in Pids, Exit(p)
  PROVE  StepOK
<1>1. Fit(CloseAll(files, fds[p]), [fds EXCEPT ![p] = EmptyTable])
  BY CloseAllKeepsFit, Zenon DEF FilesInv
<1>2. Fit(files', fds')
  BY <1>1, Zenon DEF Exit
<1>3. \A q \in Pids : life'[q] # "Running" => fds'[q] = EmptyTable
  BY Zenon DEF Exit, FilesInv, Fit
<1>4. life' \in [Pids -> {"Unborn", "Running", "Ended"}] /\ ret' = 0
  BY Zenon DEF Exit, FilesInv
<1>5. FilesInv'
  BY <1>2, <1>3, <1>4 DEF FilesInv, Fit
<1> QED
  BY <1>4, <1>5 DEF StepOK

\* A step that changes neither table.
LEMMA QuietStepKeepsInv ==
  ASSUME FilesInv, UNCHANGED <<files, fds, life>>, ret' \in Int
  PROVE  StepOK
BY DEF StepOK, FilesInv, Fit

\* A step of a running process that does not end it.
LEMMA RunningKeepsInv ==
  ASSUME FilesInv, NEW p \in Pids, life[p] = "Running", life' = life,
         Fit(files', fds'), ret' \in Nat,
         \A q \in Pids : q # p => fds'[q] = fds[q]
  PROVE  StepOK
<1>1. \A q \in Pids : life'[q] # "Running" => fds'[q] = EmptyTable
  BY Zenon DEF FilesInv
<1>2. FilesInv'
  BY <1>1 DEF FilesInv, Fit
<1> QED
  BY <1>2 DEF StepOK

\* open: a file and a descriptor, or an error and neither.
LEMMA OpenKeepsInv ==
  ASSUME FilesInv, NEW p \in Pids, NEW path \in Embedded, Open(p, path)
  PROVE  StepOK
<1> DEFINE id == Min(FreeFiles(files))
           alloc == Alloc(files, path, "ReadOnly")
           free == FreeFds(fds[p])
           file == [kind |-> path, access |-> "ReadOnly", offset |-> 0, refs |-> 1]
<1>1. life[p] = "Running" /\ life' = life
  BY Zenon DEF Open
<1>2. FreeFiles(files) # {}
  <2>1. OpenError(path, 0, TRUE) = 0
    BY Zenon DEF Open
  <2>2. ENFILE # 0 /\ ENOENT # 0 /\ ENAMETOOLONG # 0
    BY DEF ENFILE, ENOENT, ENAMETOOLONG
  <2> QED
    BY <2>1, <2>2, Zenon DEF OpenError
<1>3. id \in FileIds /\ files[id] = Closed
  BY <1>2, FreeSlot, Zenon
<1>4. files \in [FileIds -> OpenFile \cup {Closed}] /\ fds \in [Pids -> Tables]
  BY Zenon DEF FilesInv, Fit
<1>5. CASE free = {}
  <2>1. files' = DecRef(alloc, id) /\ ret' = -EMFILE /\ fds' = fds
    BY <1>5, Zenon DEF Open
  <2>2. alloc = [files EXCEPT ![id] = file]
    BY Zenon DEF Alloc
  <2>3. Release(file, 1) = Closed
    BY DEF Release
  <2>4. DecRef(alloc, id) = [alloc EXCEPT ![id] = Closed]
    BY <1>3, <1>4, <2>2, <2>3, Zenon DEF DecRef
  <2>5. [alloc EXCEPT ![id] = Closed] = files
    BY <1>3, <1>4, <2>2, Zenon
  <2> QED
    BY <1>1, <2>1, <2>4, <2>5, Errors, QuietStepKeepsInv
<1>6. CASE free # {}
  <2> DEFINE fd == Min(free)
  <2>1. files' = alloc /\ ret' = fd /\ fds' = [fds EXCEPT ![p][fd] = id]
    BY <1>6 DEF Open
  <2>2. fd \in Fds /\ fds[p][fd] = NoFile
    BY <1>6, FreeDescriptor, Zenon
  <2>3. "ReadOnly" = Direction(path)
    BY KindsAssumption, Zenon DEF Direction, Console
  <2> HIDE DEF fd
  <2>4. Fit(alloc, [fds EXCEPT ![p][fd] = id])
    BY <1>2, <2>2, <2>3, InstallKeepsFit DEF FilesInv
  <2>5. Fit(files', fds')
    BY <2>1, <2>4, Zenon
  <2>6. \A q \in Pids : q # p => fds'[q] = fds[q]
    BY <1>4, <2>1, Zenon
  <2>7. ret' \in Nat
    BY <2>1, <2>2 DEF Fds
  <2> QED
    BY <1>1, <2>5, <2>6, <2>7, RunningKeepsInv, Zenon
<1> QED
  BY <1>5, <1>6, Zenon

\* close: an error changes nothing.
LEMMA CloseStepKeepsInv ==
  ASSUME FilesInv, NEW p \in Pids, NEW fd \in 0 .. MaxFds, Close(p, fd)
  PROVE  StepOK
<1>1. CASE fd \in Fds /\ fds[p][fd] # NoFile
  <2>1. /\ files' = DecRef(files, fds[p][fd]) /\ fds' = [fds EXCEPT ![p][fd] = NoFile]
        /\ ret' = 0 /\ life' = life /\ life[p] = "Running"
    BY <1>1, Zenon DEF Close
  <2>2. Fit(DecRef(files, fds[p][fd]), [fds EXCEPT ![p][fd] = NoFile])
    BY <1>1, CloseKeepsFit, Zenon DEF FilesInv
  <2>3. \A q \in Pids : q # p => fds'[q] = fds[q]
    BY <2>1, Zenon DEF FilesInv, Fit
  <2> QED
    BY <2>1, <2>2, <2>3, RunningKeepsInv, Zenon
<1>2. CASE ~(fd \in Fds /\ fds[p][fd] # NoFile)
  BY <1>2, Errors, QuietStepKeepsInv DEF Close
<1> QED
  BY <1>1, <1>2, Zenon

\* What read returns is 0, one of two errors, or a positive number: then the
\* descriptor is open on an embedded file and the bytes are all there.
LEMMA ReadResultEffect ==
  ASSUME FilesInv, NEW p \in Pids, NEW fd \in 0 .. MaxFds,
         NEW result \in ReadResults(p, fd)
  PROVE  /\ result \in {0, -EBADF, -EFAULT} \cup 1 .. MaxLen
         /\ result > 0 =>
              /\ fd \in Fds /\ fds[p][fd] \in FileIds
              /\ LET file == files[fds[p][fd]]
                 IN  /\ file # Closed /\ file.kind \in Embedded
                     /\ file.offset + result <= FileLen[file.kind]
<1> DEFINE file == OpenFileOf(p, fd)
<1>1. PICK len \in 0 .. MaxLen, ok \in BOOLEAN : result = ReadResult(file, len, ok)
  BY DEF ReadResults
<1>2. fds \in [Pids -> Tables]
  BY Zenon DEF FilesInv, Fit
<1>3. /\ FileOK(file)
      /\ file # Closed => fd \in Fds /\ fds[p][fd] \in FileIds /\ file = files[fds[p][fd]]
  BY <1>2 DEF OpenFileOf, FilesInv, Fit, Tables, FileOK
<1>4. CASE len = 0 \/ file.access # "ReadOnly" \/ file.kind \in Console
  <2>1. result \in {0, -EBADF}
    BY <1>1, <1>4, Zenon DEF ReadResult
  <2> QED
    BY <2>1 DEF EBADF, EFAULT
<1>5. CASE ~(len = 0 \/ file.access # "ReadOnly" \/ file.kind \in Console)
  <2>1. file # Closed
    BY <1>5, ClosedIsNone, Zenon
  <2>2. file \in OpenFile /\ (file.kind \in Embedded => file.offset <= FileLen[file.kind])
    BY <1>3, <2>1, Zenon DEF FileOK
  <2>3. CASE file.kind = "NullInput" \/ file.offset >= FileLen[file.kind] \/ ~ok
    <3>1. result \in {0, -EFAULT}
      BY <1>1, <1>5, <2>3, Zenon DEF ReadResult
    <3> QED
      BY <3>1 DEF EBADF, EFAULT
  <2>4. CASE ~(file.kind = "NullInput" \/ file.offset >= FileLen[file.kind] \/ ~ok)
    <3>1. file.kind \in Embedded
      BY <1>5, <2>2, <2>4, Zenon DEF OpenFile
    <3>2. FileLen[file.kind] \in Nat /\ file.offset \in Nat /\ len \in Nat
      BY <2>2, <3>1, FileLenAssumption, MaxLenAssumption DEF OpenFile
    <3> DEFINE left == FileLen[file.kind] - file.offset
    <3>3. left \in Nat
      BY <2>2, <3>1, <3>2
    <3>4. result = Min({len, left})
      BY <1>1, <1>5, <2>4, <3>1, Zenon DEF ReadResult, Count
    <3> HIDE DEF left
    <3>5. Min({len, left}) \in {len, left} /\ Min({len, left}) <= left
          /\ Min({len, left}) <= len
      <4>1. {len, left} \in SUBSET Nat /\ {len, left} # {} /\ left \in {len, left}
        BY <3>2, <3>3
      <4> QED
        BY <4>1, MinIsLeast, Zenon
    <3>6. result \in 0 .. MaxLen /\ result <= left
      BY <3>2, <3>3, <3>4, <3>5, MaxLenAssumption
    <3>7. file.offset + result <= FileLen[file.kind]
      BY <3>2, <3>6, MaxLenAssumption DEF left
    <3> HIDE DEF file
    <3> QED
      BY <1>3, <2>1, <3>1, <3>6, <3>7
  <2> QED
    BY <2>3, <2>4, Zenon
<1> QED
  BY <1>4, <1>5, Zenon

\* read: only the offset of one open file may move.
LEMMA ReadKeepsInv ==
  ASSUME FilesInv, NEW p \in Pids, NEW fd \in 0 .. MaxFds, Read(p, fd)
  PROVE  StepOK
<1>1. ret' \in ReadResults(p, fd) /\ life' = life /\ fds' = fds /\ life[p] = "Running"
  BY Zenon DEF Read
<1>2. ret' \in Int
  BY <1>1, ReadResultEffect, MaxLenAssumption DEF EBADF, EFAULT
<1>3. CASE ~(ret' > 0)
  BY <1>1, <1>2, <1>3, QuietStepKeepsInv, Zenon DEF Read
<1>4. CASE ret' > 0
  <2> DEFINE id == fds[p][fd]
             file == files[id]
             moved == [file EXCEPT !.offset = @ + ret']
  <2>1. /\ id \in FileIds /\ file # Closed /\ file.kind \in Embedded
        /\ file.offset + ret' <= FileLen[file.kind]
    BY <1>1, <1>4, ReadResultEffect, Zenon
  <2>2. files \in [FileIds -> OpenFile \cup {Closed}]
    BY Zenon DEF FilesInv, Fit
  <2>3. FileOK(file) /\ file \in OpenFile
    BY <2>1, <2>2, Zenon DEF FilesInv, Fit
  <2>4. files' = [files EXCEPT ![id] = moved]
    BY <1>4, <2>1, <2>2 DEF Read
  <2>5. /\ moved \in OpenFile /\ moved.refs = file.refs /\ moved.access = file.access
        /\ moved.kind = file.kind /\ moved.offset = file.offset + ret'
    BY <1>2, <1>4, <2>3 DEF OpenFile
  <2> HIDE DEF id, file, moved
  <2>6. FileOK(moved) /\ moved # Closed
    BY <2>1, <2>3, <2>5, ClosedIsNone, Zenon DEF FileOK
  <2>7. files'[id] = moved /\ \A i \in FileIds : i # id => files'[i] = files[i]
    BY <2>1, <2>2, <2>4, Zenon
  <2>8. files' \in [FileIds -> OpenFile \cup {Closed}]
    BY <2>2, <2>4, <2>5, Zenon
  <2>9. \A i \in FileIds : FileOK(files'[i]) /\ (files'[i] # Closed <=> files[i] # Closed)
    BY <2>1, <2>6, <2>7, Zenon DEF FilesInv, Fit, file
  <2>10. Fit(files', fds)
    BY <2>8, <2>9 DEF FilesInv, Fit, Tables
  <2>11. FilesInv'
    BY <1>1, <1>2, <2>10 DEF FilesInv, Fit
  <2> QED
    BY <1>2, <1>4, <2>11 DEF StepOK
<1> QED
  BY <1>3, <1>4, Zenon

\* write: the tables stay as they are.
LEMMA WriteKeepsInv ==
  ASSUME FilesInv, NEW p \in Pids, NEW fd \in 0 .. MaxFds, Write(p, fd)
  PROVE  StepOK
<1>1. PICK len \in 0 .. MaxLen, ok \in BOOLEAN :
        ret' = WriteResult(OpenFileOf(p, fd), len, ok)
  BY DEF Write, WriteResults
<1>2. ret' \in {0, -EBADF, -EFAULT, len}
  BY <1>1, Zenon DEF WriteResult
<1>3. ret' \in Int
  BY <1>2, MaxLenAssumption DEF EBADF, EFAULT
<1> QED
  BY <1>3, QuietStepKeepsInv, Zenon DEF Write

\* Every step keeps the invariant, and a failing one changes nothing.
LEMMA NextKeepsInv == FilesInv /\ [Next]_vars => [StepOK]_vars /\ FilesInv'
<1> SUFFICES ASSUME FilesInv, [Next]_vars PROVE [StepOK]_vars /\ FilesInv'
  BY Zenon
<1>1. CASE UNCHANGED vars
  BY <1>1 DEF vars, FilesInv, Fit
<1>2. CASE Next
  <2>1. PICK p \in Pids :
          \/ Spawn(p)
          \/ Exit(p)
          \/ OpenFails(p)
          \/ \E path \in Embedded : Open(p, path)
          \/ \E fd \in 0 .. MaxFds : Read(p, fd) \/ Write(p, fd) \/ Close(p, fd)
    BY <1>2, Zenon DEF Next
  <2>2. CASE Spawn(p)
    BY <2>2, SpawnKeepsInv, Zenon DEF StepOK
  <2>3. CASE Exit(p)
    BY <2>3, ExitKeepsInv, Zenon DEF StepOK
  <2>4. CASE OpenFails(p)
    <3>1. ret' \in Int
      BY <2>4, Errors DEF OpenFails
    <3> QED
      BY <2>4, <3>1, QuietStepKeepsInv, Zenon DEF OpenFails, StepOK
  <2>5. CASE \E path \in Embedded : Open(p, path)
    BY <2>5, OpenKeepsInv, Zenon DEF StepOK
  <2>6. CASE \E fd \in 0 .. MaxFds : Read(p, fd) \/ Write(p, fd) \/ Close(p, fd)
    BY <2>6, ReadKeepsInv, WriteKeepsInv, CloseStepKeepsInv, Zenon DEF StepOK
  <2> QED
    BY <2>1, <2>2, <2>3, <2>4, <2>5, <2>6
<1> QED
  BY <1>1, <1>2, Zenon

\* The kernel starts with two empty tables.
LEMMA InitFits == Init => FilesInv
<1> SUFFICES ASSUME Init PROVE FilesInv
  BY Zenon
<1>1. EmptyTable \in Tables /\ \A fd \in Fds : EmptyTable[fd] = NoFile
  BY Zenon DEF EmptyTable, Tables
<1>2. files \in [FileIds -> OpenFile \cup {Closed}] /\ \A id \in FileIds : files[id] = Closed
  BY Zenon DEF Init
<1>3. fds \in [Pids -> Tables] /\ \A p \in Pids, fd \in Fds : fds[p][fd] = NoFile
  BY <1>1, Zenon DEF Init
<1>4. Fit(files, fds)
  BY <1>2, <1>3, Zenon DEF Fit, FileOK
<1> QED
  BY <1>4 DEF Init, FilesInv

-----------------------------------------------------------------------------
(* What follows                                                            *)

\* FilesInv is an invariant.
THEOREM FilesSafe == Spec => []FilesInv
<1>1. FilesInv /\ [Next]_vars => FilesInv'
  BY NextKeepsInv, Zenon
<1> QED
  BY InitFits, <1>1, PTL DEF Spec

\* Reference counts are the numbers of descriptors, for any number of processes
\* and any size of the two tables: no open file is freed under a descriptor or
\* kept without one, across failed opens, failed spawns and exits.
THEOREM CountsAreRight == Spec => []RefsMatchDescriptors
<1>1. FilesInv => RefsMatchDescriptors
  <2> SUFFICES ASSUME FilesInv, NEW id \in FileIds
               PROVE  files[id].refs = Cardinality(Descriptors(id))
    BY Zenon DEF RefsMatchDescriptors
  <2>1. CASE files[id] = Closed
    <3>1. Descriptors(id) = {}
      BY <2>1 DEF Descriptors, FilesInv, Fit, FileIds, NoFile
    <3> QED
      BY <2>1, <3>1, FS_EmptySet, ClosedIsNone, Zenon
  <2>2. CASE files[id] # Closed
    <3>1. PICK p \in Pids, fd \in Fds : fds[p][fd] = id
      BY <2>2, Zenon DEF FilesInv, Fit
    <3>2. id # NoFile
      BY DEF FileIds, NoFile
    <3>3. \A d \in Pids \X Fds : fds[d[1]][d[2]] = id <=> d = <<p, fd>>
      BY <3>1, <3>2 DEF FilesInv, Fit
    <3>4. Descriptors(id) = {<<p, fd>>}
      BY <3>1, <3>3 DEF Descriptors
    <3>5. files[id].refs = 1
      BY <2>2, Zenon DEF FilesInv, Fit, FileOK
    <3> QED
      BY <3>4, <3>5, FS_Singleton, Zenon
  <2> QED
    BY <2>1, <2>2, Zenon
<1> QED
  BY <1>1, FilesSafe, PTL

\* No process has a descriptor of another's open file, nor one after it ended.
THEOREM FilesAreNotShared == Spec => []DescriptorsArePrivate
<1>1. FilesInv => DescriptorsArePrivate
  BY Zenon DEF FilesInv, Fit, DescriptorsArePrivate
<1> QED
  BY <1>1, FilesSafe, PTL

\* The slice of sys_read_current is in bounds whatever was read before.
THEOREM ReadsStayInBounds == Spec => []OffsetsInRange
<1>1. FilesInv => OffsetsInRange
  <2> SUFFICES ASSUME FilesInv PROVE OffsetsInRange
    BY Zenon
  <2>1. TypeOK
    BY Zenon DEF FilesInv, Fit, TypeOK, Tables
  <2>2. ASSUME NEW id \in FileIds
        PROVE  LET file == files[id]
               IN  /\ file.kind \in Embedded => file.offset <= FileLen[file.kind]
                   /\ file.kind \notin Embedded => file.offset = 0
                   /\ file.access = "WriteOnly" <=> file.kind \in Console
    <3>1. CASE files[id] = Closed
      BY <3>1, ClosedIsNone, KindsAssumption, Zenon DEF Console
    <3>2. CASE files[id] # Closed
      BY <3>2, Zenon DEF FilesInv, Fit, FileOK, Direction
    <3> QED
      BY <3>1, <3>2, Zenon
  <2> QED
    BY <2>1, <2>2, Zenon DEF OffsetsInRange
<1> QED
  BY <1>1, FilesSafe, PTL

\* A call that fails leaves both tables as they were, also a spawn that had
\* opened some of its standard descriptors and an open that had its file.
THEOREM FailuresLeaveNoTrace == Spec => FailureChangesNothing
<1>1. FilesInv /\ [Next]_vars => [ret' < 0 => UNCHANGED <<files, fds, life>>]_vars
  BY NextKeepsInv, Zenon DEF StepOK
<1> QED
  BY <1>1, FilesSafe, PTL DEF Spec, FailureChangesNothing

-----------------------------------------------------------------------------
(***************************************************************************)
(* Files implements Descriptors: every step of the two tables is a step of *)
(* the descriptors that a process sees, or none.                           *)
(*                                                                         *)
(* FilesInv gives all but one fact.  That -ENFILE is returned only when    *)
(* there is no room needs counting: the open files are as many as the      *)
(* descriptors in use, so that the free slots are the room that is left.   *)
(***************************************************************************)

Room == Cardinality(FreeFiles(files))

NewFile(kind, access) == [kind |-> kind, access |-> access, offset |-> 0, refs |-> 1]

\* What a process sees of a descriptor.
LEMMA SeenDescriptor ==
  ASSUME FilesInv, NEW p \in Pids, NEW fd \in Fds
  PROVE  /\ fds[p][fd] = NoFile => Desc[p][fd] = D!NoDesc
         /\ fds[p][fd] # NoFile =>
              /\ fds[p][fd] \in FileIds
              /\ files[fds[p][fd]] \in OpenFile
              /\ Desc[p][fd] = Seen(files[fds[p][fd]])
              /\ Desc[p][fd] # D!NoDesc
<1>1. Desc[p][fd] = IF fds[p][fd] = NoFile THEN Seen(Closed) ELSE Seen(files[fds[p][fd]])
  BY Zenon DEF Desc
<1>2. Seen(Closed) = D!NoDesc
  BY Zenon DEF Seen, Closed, D!NoDesc
<1>3. ASSUME fds[p][fd] # NoFile
      PROVE  fds[p][fd] \in FileIds /\ files[fds[p][fd]] \in OpenFile
  BY <1>3 DEF FilesInv, Fit, Tables
<1>4. ASSUME fds[p][fd] # NoFile
      PROVE  Seen(files[fds[p][fd]]) # D!NoDesc
  <2>1. files[fds[p][fd]].kind # "None"
    BY <1>3, <1>4, KindsAssumption, Zenon DEF OpenFile, Console
  <2> QED
    BY <2>1, Zenon DEF Seen, D!NoDesc
<1> QED
  BY <1>1, <1>2, <1>3, <1>4, Zenon

\* The descriptors in use and the free slots of the open-file table make up the
\* table: each open file has one descriptor.
LEMMA RoomIsCounted ==
  ASSUME FilesInv
  PROVE  /\ IsFiniteSet(FreeFiles(files)) /\ Room \in Nat
         /\ D!InUse \in Nat
         /\ D!InUse + Room = MaxOpenFiles
<1> DEFINE open == FileIds \ FreeFiles(files)
           used == {at \in Pids \X Fds : fds[at[1]][at[2]] # NoFile}
           pick(id) == CHOOSE at \in used : fds[at[1]][at[2]] = id
           owner == [id \in open |-> pick(id)]
<1>1. IsFiniteSet(FileIds) /\ Cardinality(FileIds) = MaxOpenFiles
  BY FS_Interval, MaxOpenFilesAssumption DEF FileIds
<1>2. FreeFiles(files) \in SUBSET FileIds
  BY Zenon DEF FreeFiles
<1>3. IsFiniteSet(FreeFiles(files)) /\ Room \in Nat
  BY <1>1, <1>2, FS_Subset, FS_CardinalityType, Zenon DEF Room
<1>4. open \in SUBSET FileIds
  BY Zenon
<1>5. IsFiniteSet(open) /\ Cardinality(open) \in Nat
  BY <1>1, <1>4, FS_Subset, FS_CardinalityType, Zenon
<1>6. Cardinality(open) = MaxOpenFiles - Room
  <2>1. FileIds \cap FreeFiles(files) = FreeFiles(files)
    BY <1>2, Zenon
  <2> QED
    BY <1>1, <2>1, FS_Difference, Zenon DEF Room
<1>7. \A id \in open : \E at \in used : fds[at[1]][at[2]] = id
  <2> SUFFICES ASSUME NEW id \in open PROVE \E at \in used : fds[at[1]][at[2]] = id
    BY Zenon
  <2>1. id \in FileIds /\ files[id] # Closed
    BY Zenon DEF FreeFiles
  <2>2. PICK p \in Pids, fd \in Fds : fds[p][fd] = id
    BY <2>1, Zenon DEF FilesInv, Fit
  <2>3. id # NoFile
    BY <2>1 DEF FileIds, NoFile
  <2>4. <<p, fd>> \in used
    BY <2>2, <2>3, Zenon
  <2> QED
    BY <2>2, <2>4, Zenon
<1>8. \A id \in open : pick(id) \in used /\ fds[pick(id)[1]][pick(id)[2]] = id
  <2> HIDE DEF used, open
  <2> QED
    BY <1>7, Zenon
<1>9. \A at \in used : fds[at[1]][at[2]] \in open
  BY DEF FilesInv, Fit, Tables, FreeFiles
<1>10. \A at, bt \in used : fds[at[1]][at[2]] = fds[bt[1]][bt[2]] => at = bt
  BY DEF FilesInv, Fit
<1> HIDE DEF open, used, pick
<1>11. owner \in [open -> used] /\ \A id \in open : owner[id] = pick(id)
  BY <1>8, Zenon
<1> HIDE DEF owner
<1>12. owner \in Injection(open, used)
  BY <1>8, <1>11 DEF Injection, IsInjective
<1>13. owner \in Surjection(open, used)
  <2>1. \A at \in used : \E id \in open : owner[id] = at
    BY <1>8, <1>9, <1>10, <1>11
  <2> QED
    BY <1>11, <2>1, Zenon DEF Surjection
<1>14. Cardinality(used) = Cardinality(open)
  BY <1>5, <1>12, <1>13, FS_Surjection, Zenon
<1>15. D!InUse = Cardinality(used)
  <2>1. {at \in Pids \X D!Fds : Desc[at[1]][at[2]] # D!NoDesc} = used
    <3>1. D!Fds = Fds
      BY Zenon DEF D!Fds, Fds
    <3>2. \A at \in Pids \X Fds : Desc[at[1]][at[2]] # D!NoDesc <=> fds[at[1]][at[2]] # NoFile
      BY SeenDescriptor, Zenon
    <3> QED
      BY <3>1, <3>2, Zenon DEF used
  <2>2. D!InUse = D!Cardinality(used)
    BY <2>1, Zenon DEF D!InUse
  <2> QED
    BY <2>2, Zenon DEF D!Cardinality, Cardinality
<1> QED
  BY <1>3, <1>5, <1>6, <1>14, <1>15, MaxOpenFilesAssumption

\* Min and the numbers of descriptors are the same in both modules, and what is
\* unused in one is free in the other.
LEMMA SameNumbers ==
  ASSUME FilesInv, NEW p \in Pids
  PROVE  /\ D!Fds = Fds
         /\ D!Unused(p) = FreeFds(fds[p])
         /\ D!Min(D!Unused(p)) = Min(FreeFds(fds[p]))
<1>1. D!Fds = Fds
  BY Zenon DEF D!Fds, Fds
<1>2. D!Unused(p) = FreeFds(fds[p])
  <2>1. \A fd \in Fds : Desc[p][fd] = D!NoDesc <=> fds[p][fd] = NoFile
    BY SeenDescriptor, Zenon
  <2> QED
    BY <1>1, <2>1, Zenon DEF D!Unused, FreeFds
<1>3. D!Min(FreeFds(fds[p])) = Min(FreeFds(fds[p]))
  BY Zenon DEF D!Min, Min
<1> QED
  BY <1>1, <1>2, <1>3, Zenon

\* A call that fails or does nothing changes no descriptor.
LEMMA SameDescriptors ==
  ASSUME files' = files, fds' = fds
  PROVE  Desc' = Desc
BY Zenon DEF Desc

\* An error that is not for want of room is always allowed, -ENFILE and -EMFILE
\* when there is none.
LEMMA RefusalStep ==
  ASSUME FilesInv, NEW p \in Pids, NEW error \in {2, 9, 14, 22, 23, 24, 36},
         ret' = -error, UNCHANGED <<files, fds, life>>, life[p] = "Running",
         error = 23 => FreeFiles(files) = {},
         error = 24 => FreeFds(fds[p]) = {}
  PROVE  D!Next
<1>1. error = 23 => D!InUse + 1 > MaxOpenFiles
  <2>1. ASSUME error = 23 PROVE Room = 0
    BY <2>1, FS_EmptySet, Zenon DEF Room
  <2> QED
    BY <2>1, RoomIsCounted, MaxOpenFilesAssumption
<1>2. error = 24 => D!Unused(p) = {}
  BY SameNumbers, Zenon
<1>3. D!Refuse(p, error)
  BY <1>1, <1>2, SameDescriptors, Zenon DEF D!Refuse
<1> QED
  BY <1>3, Zenon DEF D!Next

\* A call that returns 0 and changes nothing.
LEMMA NothingStep ==
  ASSUME NEW p \in Pids, ret' = 0, UNCHANGED <<files, fds, life>>, life[p] = "Running"
  PROVE  D!Next
<1>1. D!Nothing(p)
  BY SameDescriptors, Zenon DEF D!Nothing
<1> QED
  BY <1>1 DEF D!Next

\* write, with its checks.
LEMMA WriteRefines ==
  ASSUME FilesInv, NEW p \in Pids, NEW fd \in 0 .. MaxFds, Write(p, fd)
  PROVE  D!Next
<1> DEFINE file == OpenFileOf(p, fd)
<1>1. PICK len \in 0 .. MaxLen, ok \in BOOLEAN : ret' = WriteResult(file, len, ok)
  BY DEF Write, WriteResults
<1>2. life[p] = "Running" /\ UNCHANGED <<files, fds, life>>
  BY Zenon DEF Write
<1>3. CASE len = 0
  BY <1>1, <1>2, <1>3, NothingStep, Zenon DEF WriteResult
<1>4. CASE len # 0 /\ (file.access # "WriteOnly" \/ file.kind \notin Console)
  <2>1. ret' = -9
    BY <1>1, <1>4, Zenon DEF WriteResult, EBADF
  <2> QED
    BY <1>2, <2>1, RefusalStep
<1>5. CASE len # 0 /\ ~(file.access # "WriteOnly" \/ file.kind \notin Console) /\ ~ok
  <2>1. ret' = -14
    BY <1>1, <1>5, Zenon DEF WriteResult, EFAULT
  <2> QED
    BY <1>2, <2>1, RefusalStep
<1>6. CASE len # 0 /\ ~(file.access # "WriteOnly" \/ file.kind \notin Console) /\ ok
  <2>1. ret' = len /\ ret' \in 1 .. MaxLen
    BY <1>1, <1>6, MaxLenAssumption DEF WriteResult
  <2>2. file # Closed
    BY <1>6, ClosedIsNone, Zenon
  <2>3. fd \in Fds /\ fds[p][fd] # NoFile /\ file = files[fds[p][fd]]
    BY <2>2, Zenon DEF OpenFileOf
  <2>4. Desc[p][fd].kind = file.kind
    <3> HIDE DEF file
    <3>1. Desc[p][fd] = Seen(file)
      BY <2>3, SeenDescriptor, Zenon
    <3> QED
      BY <3>1 DEF Seen
  <2>5. D!Write(p, fd)
    <3>1. Desc' = Desc
      BY <1>2, SameDescriptors
    <3>2. Desc[p][fd].kind \in {"ConsoleStdout", "ConsoleStderr"}
      BY <1>6, <2>4, Zenon DEF Console
    <3> QED
      BY <1>2, <2>1, <3>1, <3>2, Zenon DEF D!Write
  <2> QED
    BY <2>3, <2>5, SameNumbers, Zenon DEF D!Next
<1> QED
  BY <1>3, <1>4, <1>5, <1>6, Zenon

\* The step leaves what gd of process q stands for as it is.
Untouched(q, gd) ==
  /\ fds'[q][gd] = fds[q][gd]
  /\ fds[q][gd] # NoFile => files'[fds[q][gd]] = files[fds[q][gd]]

View(q, gd) == IF fds[q][gd] = NoFile THEN Seen(Closed) ELSE Seen(files[fds[q][gd]])

\* A step on one descriptor.
LEMMA OneDescriptor ==
  ASSUME NEW p \in Pids, NEW fd \in Fds,
         \A q \in Pids, gd \in Fds : ~(q = p /\ gd = fd) => Untouched(q, gd)
  PROVE  Desc' = [Desc EXCEPT ![p][fd] = View(p, fd)']
<1>1. Desc = [q \in Pids |-> [gd \in Fds |-> View(q, gd)]]
  BY Zenon DEF Desc, View
<1>2. Desc' = [q \in Pids |-> [gd \in Fds |-> View(q, gd)']]
  BY Zenon DEF Desc, View
<1>3. \A q \in Pids, gd \in Fds : ~(q = p /\ gd = fd) => View(q, gd)' = View(q, gd)
  BY DEF View, Untouched
<1> DEFINE after == [q \in Pids |-> [gd \in Fds |-> View(q, gd)']]
           before == [q \in Pids |-> [gd \in Fds |-> View(q, gd)]]
<1>4. after = [before EXCEPT ![p][fd] = View(p, fd)']
  BY <1>3, Zenon
<1> QED
  BY <1>1, <1>2, <1>4, Zenon

\* A step on all descriptors of one process.
LEMMA OneTable ==
  ASSUME NEW p \in Pids,
         \A q \in Pids, gd \in Fds : q # p => Untouched(q, gd)
  PROVE  Desc' = [Desc EXCEPT ![p] = [gd \in Fds |-> View(p, gd)']]
<1>1. Desc = [q \in Pids |-> [gd \in Fds |-> View(q, gd)]]
  BY Zenon DEF Desc, View
<1>2. Desc' = [q \in Pids |-> [gd \in Fds |-> View(q, gd)']]
  BY Zenon DEF Desc, View
<1>3. \A q \in Pids, gd \in Fds : q # p => View(q, gd)' = View(q, gd)
  BY DEF View, Untouched
<1> DEFINE after == [q \in Pids |-> [gd \in Fds |-> View(q, gd)']]
           before == [q \in Pids |-> [gd \in Fds |-> View(q, gd)]]
<1>4. \A q \in Pids : q # p => after[q] = before[q]
  BY <1>3, Zenon
<1>5. after = [before EXCEPT ![p] = [gd \in Fds |-> View(p, gd)']]
  BY <1>4, Zenon
<1> QED
  BY <1>1, <1>2, <1>5, Zenon

\* Two descriptors never name one file, so a change of the file of one is not
\* seen through another.
LEMMA OtherFile ==
  ASSUME FilesInv, NEW p \in Pids, NEW fd \in Fds, NEW q \in Pids, NEW gd \in Fds,
         fds[q][gd] # NoFile, fds[q][gd] = fds[p][fd]
  PROVE  q = p /\ gd = fd
BY DEF FilesInv, Fit

\* close.
LEMMA CloseRefines ==
  ASSUME FilesInv, NEW p \in Pids, NEW fd \in 0 .. MaxFds, Close(p, fd)
  PROVE  D!Next
<1>1. life[p] = "Running" /\ life' = life
  BY Zenon DEF Close
<1>2. CASE fd \in Fds /\ fds[p][fd] # NoFile
  <2>1. /\ files' = DecRef(files, fds[p][fd]) /\ ret' = 0
        /\ fds' = [fds EXCEPT ![p][fd] = NoFile]
    BY <1>2, Zenon DEF Close
  <2>2. /\ fds \in [Pids -> Tables] /\ files \in [FileIds -> OpenFile \cup {Closed}]
    BY Zenon DEF FilesInv, Fit
  <2>3. fds'[p][fd] = NoFile
    BY <1>2, <2>1, <2>2, Zenon DEF Tables
  <2>4. \A q \in Pids, gd \in Fds : ~(q = p /\ gd = fd) => Untouched(q, gd)
    <3> SUFFICES ASSUME NEW q \in Pids, NEW gd \in Fds, ~(q = p /\ gd = fd)
                 PROVE  Untouched(q, gd)
      BY Zenon
    <3>1. fds'[q][gd] = fds[q][gd]
      BY <1>2, <2>1, <2>2, Zenon DEF Tables
    <3>2. ASSUME fds[q][gd] # NoFile PROVE files'[fds[q][gd]] = files[fds[q][gd]]
      <4>1. fds[q][gd] # fds[p][fd]
        BY <1>2, <3>2, OtherFile
      <4>2. fds[q][gd] \in FileIds
        BY <2>2, <3>2 DEF Tables
      <4> QED
        BY <2>1, <2>2, <4>1, <4>2 DEF DecRef
    <3> QED
      BY <3>1, <3>2 DEF Untouched
  <2>5. Desc' = [Desc EXCEPT ![p][fd] = View(p, fd)']
    BY <1>2, <2>4, OneDescriptor, Zenon
  <2>6. View(p, fd)' = D!NoDesc
    BY <2>3, Zenon DEF View, Seen, Closed, D!NoDesc
  <2>7. D!Close(p, fd)
    BY <1>1, <1>2, <2>1, <2>5, <2>6, SeenDescriptor, Zenon DEF D!Close
  <2> QED
    BY <1>2, <2>7, SameNumbers, Zenon DEF D!Next
<1>3. CASE ~(fd \in Fds /\ fds[p][fd] # NoFile)
  <2>1. ret' = -9 /\ UNCHANGED <<files, fds>>
    BY <1>3, Zenon DEF Close, EBADF
  <2> QED
    BY <1>1, <2>1, RefusalStep
<1> QED
  BY <1>2, <1>3, Zenon

\* The end of a process.
LEMMA ExitRefines ==
  ASSUME FilesInv, NEW p \in Pids, Exit(p)
  PROVE  D!Next
<1>1. /\ life[p] = "Running" /\ life' = [life EXCEPT ![p] = "Ended"] /\ ret' = 0
      /\ files' = CloseAll(files, fds[p]) /\ fds' = [fds EXCEPT ![p] = EmptyTable]
  BY Zenon DEF Exit
<1>2. /\ fds \in [Pids -> Tables] /\ Fit(files, fds)
  BY Zenon DEF FilesInv, Fit
<1>3. fds'[p] = EmptyTable /\ \A q \in Pids : q # p => fds'[q] = fds[q]
  BY <1>1, <1>2
<1>4. \A q \in Pids, gd \in Fds : q # p => Untouched(q, gd)
  <2> SUFFICES ASSUME NEW q \in Pids, NEW gd \in Fds, q # p
               PROVE  Untouched(q, gd)
    BY Zenon
  <2>1. ASSUME fds[q][gd] # NoFile PROVE files'[fds[q][gd]] = files[fds[q][gd]]
    <3>1. fds[q][gd] \in FileIds
      BY <1>2, <2>1, Zenon DEF Tables
    <3>2. ~\E fd \in Fds : fds[p][fd] = fds[q][gd]
      BY <2>1, OtherFile
    <3> QED
      BY <1>1, <1>2, <3>1, <3>2, CloseAllEffect
  <2> QED
    BY <1>3, <2>1, Zenon DEF Untouched
<1>5. Desc' = [Desc EXCEPT ![p] = [gd \in Fds |-> View(p, gd)']]
  BY <1>4, OneTable, Zenon
<1>6. [gd \in Fds |-> View(p, gd)'] = D!Empty
  <2>1. \A gd \in Fds : View(p, gd)' = D!NoDesc
    BY <1>3 DEF View, EmptyTable, Seen, Closed, D!NoDesc
  <2> QED
    BY <2>1, SameNumbers, Zenon DEF D!Empty
<1>7. D!End(p)
  BY <1>1, <1>5, <1>6, Zenon DEF D!End
<1> QED
  BY <1>7, Zenon DEF D!Next

\* open that fails before it allocates.
LEMMA OpenFailsRefines ==
  ASSUME FilesInv, NEW p \in Pids, OpenFails(p)
  PROVE  D!Next
<1>1. PICK error \in OpenErrors : ret' = -error
  BY Zenon DEF OpenFails
<1>2. PICK path \in Paths, flags \in 0 .. 1, readable \in BOOLEAN :
        error = OpenError(path, flags, readable) /\ error # 0
  BY DEF OpenErrors
<1>3. /\ error \in {2, 9, 14, 22, 23, 24, 36} /\ error # 24
      /\ error = 23 => FreeFiles(files) = {}
  BY <1>2 DEF OpenError, EINVAL, ENOENT, ENAMETOOLONG, EFAULT, ENFILE
<1>4. life[p] = "Running" /\ UNCHANGED <<files, fds, life>>
  BY DEF OpenFails
<1> QED
  BY <1>1, <1>3, <1>4, RefusalStep

\* open, with room or without a descriptor.
LEMMA OpenRefines ==
  ASSUME FilesInv, NEW p \in Pids, NEW path \in Embedded, Open(p, path)
  PROVE  D!Next
<1> DEFINE id == Min(FreeFiles(files))
           free == FreeFds(fds[p])
<1>1. life[p] = "Running" /\ life' = life
  BY DEF Open
<1>2. FreeFiles(files) # {}
  <2>1. OpenError(path, 0, TRUE) = 0
    BY Zenon DEF Open
  <2>2. ENFILE # 0 /\ ENOENT # 0 /\ ENAMETOOLONG # 0
    BY DEF ENFILE, ENOENT, ENAMETOOLONG
  <2> QED
    BY <2>1, <2>2 DEF OpenError
<1>3. id \in FileIds /\ files[id] = Closed
  BY <1>2, FreeSlot
<1>4. files \in [FileIds -> OpenFile \cup {Closed}] /\ fds \in [Pids -> Tables]
  BY Zenon DEF FilesInv, Fit
<1>5. CASE free = {}
  <2>1. ret' = -24 /\ ret' < 0
    BY <1>5 DEF Open, EMFILE
  <2>2. UNCHANGED <<files, fds, life>>
    BY <2>1, OpenKeepsInv, Zenon DEF StepOK
  <2> QED
    BY <1>1, <1>5, <2>1, <2>2, RefusalStep
<1>6. CASE free # {}
  <2>fd. PICK fd \in Fds : fd = Min(free) /\ fds[p][fd] = NoFile
    BY <1>6, FreeDescriptor, Zenon
  <2>1. /\ files' = [files EXCEPT ![id] = NewFile(path, "ReadOnly")]
        /\ ret' = fd /\ fds' = [fds EXCEPT ![p][fd] = id]
    BY <1>6, <2>fd, Zenon DEF Open, Alloc, NewFile
  <2>2. fd \in Fds /\ fds[p][fd] = NoFile
    BY <2>fd
  <2> HIDE DEF id, free
  <2>3. fds'[p][fd] = id /\ files'[id] = NewFile(path, "ReadOnly") /\ id # NoFile
    BY <1>3, <1>4, <2>1, <2>2 DEF Tables, FileIds, NoFile
  <2>4. \A q \in Pids, gd \in Fds : ~(q = p /\ gd = fd) => Untouched(q, gd)
    <3> SUFFICES ASSUME NEW q \in Pids, NEW gd \in Fds, ~(q = p /\ gd = fd)
                 PROVE  Untouched(q, gd)
      BY Zenon
    <3>1. fds'[q][gd] = fds[q][gd]
      BY <1>4, <2>1, <2>2, Zenon DEF Tables
    <3>2. ASSUME fds[q][gd] # NoFile PROVE files'[fds[q][gd]] = files[fds[q][gd]]
      <4>1. fds[q][gd] \in FileIds /\ files[fds[q][gd]] # Closed
        BY <1>4, <3>2 DEF FilesInv, Fit, Tables
      <4> QED
        BY <1>3, <1>4, <2>1, <4>1
    <3> QED
      BY <3>1, <3>2, Zenon DEF Untouched
  <2>5. Desc' = [Desc EXCEPT ![p][fd] = View(p, fd)']
    BY <2>2, <2>4, OneDescriptor, Zenon
  <2>6. View(p, fd)' = D!Fresh(path)
    BY <2>3 DEF View, Seen, NewFile, D!Fresh
  <2>7. D!InUse < MaxOpenFiles
    <3>1. Room # 0
      BY <1>2, RoomIsCounted, FS_EmptySet, Zenon DEF Room
    <3> QED
      BY <3>1, RoomIsCounted, MaxOpenFilesAssumption
  <2>8. ret' \in D!Fds /\ D!Unused(p) # {} /\ ret' = D!Min(D!Unused(p))
    <3>1. D!Fds = Fds /\ D!Unused(p) = free /\ D!Min(D!Unused(p)) = Min(free)
      BY SameNumbers, Zenon DEF free
    <3> QED
      BY <1>6, <2>fd, <2>1, <3>1, Zenon
  <2>9. Desc' = [Desc EXCEPT ![p][ret'] = D!Fresh(path)]
    BY <2>1, <2>5, <2>6
  <2>10. D!Open(p, path)
    BY <1>1, <2>7, <2>8, <2>9, Zenon DEF D!Open
  <2> QED
    BY <2>10 DEF D!Next
<1> QED
  BY <1>5, <1>6, Zenon

\* read: the offset moves by what is returned.
LEMMA ReadRefines ==
  ASSUME FilesInv, NEW p \in Pids, NEW fd \in 0 .. MaxFds, Read(p, fd)
  PROVE  D!Next
<1>1. ret' \in ReadResults(p, fd) /\ life' = life /\ fds' = fds /\ life[p] = "Running"
  BY DEF Read
<1>2. ret' \in {0, -EBADF, -EFAULT} \cup 1 .. MaxLen
  BY <1>1, ReadResultEffect, Zenon
<1>3. CASE ret' \in {0, -EBADF, -EFAULT}
  <2>1. ~(ret' > 0)
    BY <1>3 DEF EBADF, EFAULT
  <2>2. files' = files
    BY <2>1, Zenon DEF Read
  <2>3. ret' = 0 \/ ret' = -9 \/ ret' = -14
    BY <1>3, Zenon DEF EBADF, EFAULT
  <2> QED
    BY <1>1, <2>2, <2>3, NothingStep, RefusalStep
<1>4. CASE ret' \in 1 .. MaxLen
  <2>1. ret' > 0 /\ ret' \in Nat
    BY <1>4, MaxLenAssumption
  <2>2. PICK id \in FileIds : id = fds[p][fd]
    BY <1>1, <2>1, ReadResultEffect, Zenon
  <2>3. /\ fd \in Fds /\ files[id] # Closed /\ files[id].kind \in Embedded
        /\ files[id].offset + ret' <= FileLen[files[id].kind]
    BY <1>1, <2>1, <2>2, ReadResultEffect, Zenon
  <2>4. files \in [FileIds -> OpenFile \cup {Closed}] /\ fds \in [Pids -> Tables]
    BY Zenon DEF FilesInv, Fit
  <2>5. files[id] \in OpenFile /\ id # NoFile
    BY <2>3, <2>4 DEF FileIds, NoFile
  <2>6. files' = [files EXCEPT ![id].offset = @ + ret']
    BY <2>1, <2>2, Zenon DEF Read
  <2>7. /\ files'[id].kind = files[id].kind
        /\ files'[id].offset = files[id].offset + ret'
    BY <2>4, <2>5, <2>6, Zenon DEF OpenFile
  <2>8. \A q \in Pids, gd \in Fds : ~(q = p /\ gd = fd) => Untouched(q, gd)
    <3> SUFFICES ASSUME NEW q \in Pids, NEW gd \in Fds, ~(q = p /\ gd = fd)
                 PROVE  Untouched(q, gd)
      BY Zenon
    <3>1. ASSUME fds[q][gd] # NoFile PROVE files'[fds[q][gd]] = files[fds[q][gd]]
      <4>1. fds[q][gd] # id
        BY <2>2, <2>3, <3>1, OtherFile
      <4>2. fds[q][gd] \in FileIds
        BY <2>4, <3>1, Zenon DEF Tables
      <4> QED
        BY <2>4, <2>6, <4>1, <4>2, Zenon
    <3> QED
      BY <1>1, <3>1 DEF Untouched
  <2>9. Desc' = [Desc EXCEPT ![p][fd] = View(p, fd)']
    BY <2>3, <2>8, OneDescriptor, Zenon
  <2>10. Desc[p][fd] = [kind |-> files[id].kind, offset |-> files[id].offset]
    <3>1. Desc[p][fd] = Seen(files[id])
      BY <2>2, <2>3, <2>5, SeenDescriptor, Zenon
    <3> QED
      BY <3>1, Zenon DEF Seen
  <2>11. View(p, fd)' = [Desc[p][fd] EXCEPT !.offset = @ + ret']
    <3>1. View(p, fd)' = [kind |-> files[id].kind, offset |-> files[id].offset + ret']
      BY <1>1, <2>2, <2>5, <2>7 DEF View, Seen
    <3> QED
      BY <2>10, <3>1
  <2>12. Desc' = [Desc EXCEPT ![p][fd].offset = @ + ret']
    <3>1. Desc \in [Pids -> [Fds -> {Desc[q][gd] : q \in Pids, gd \in Fds}]]
      BY DEF Desc
    <3> QED
      BY <2>3, <2>9, <2>11, <3>1, Zenon
  <2>13. /\ Desc[p][fd].kind \in Embedded
         /\ ret' <= FileLen[Desc[p][fd].kind] - Desc[p][fd].offset
    <3>1. FileLen[files[id].kind] \in Nat /\ files[id].offset \in Nat
      BY <2>3, <2>5, FileLenAssumption, Zenon DEF OpenFile
    <3>2. Desc[p][fd].kind = files[id].kind /\ Desc[p][fd].offset = files[id].offset
      BY <2>10
    <3> QED
      BY <2>1, <2>3, <3>1, <3>2
  <2>14. ret' \in 0 .. MaxLen /\ ret' # 0
    BY <1>4, MaxLenAssumption
  <2>15. D!Read(p, fd)
    BY <1>1, <2>12, <2>13, <2>14, Zenon DEF D!Read
  <2> QED
    BY <2>3, <2>15, SameNumbers DEF D!Next
<1> QED
  BY <1>2, <1>3, <1>4

\* One turn of new_with_stdio that finds room: slot id is taken.
Installed(st, fd, kind, access, id, after) ==
  /\ ~after.failed
  /\ id \in FreeFiles(st.files)
  /\ after.files = [st.files EXCEPT ![id] = NewFile(kind, access)]
  /\ after.table = [st.table EXCEPT ![fd] = id]
  /\ FreeFiles(after.files) = FreeFiles(st.files) \ {id}

FileTable(fs) == fs \in [FileIds -> OpenFile \cup {Closed}]

\* It finds room when there is a free slot, and only then.
LEMMA InstallEffect ==
  ASSUME NEW st, ~st.failed, FileTable(st.files), NEW fd \in Fds,
         NEW kind \in Console \cup {"NullInput"},
         NEW access \in {"ReadOnly", "WriteOnly"},
         NEW after, after = InstallStdio(st, fd, kind, access)
  PROVE  IF FreeFiles(st.files) = {} THEN after.failed
         ELSE /\ \E id \in FileIds : Installed(st, fd, kind, access, id, after)
              /\ FileTable(after.files)
<1>1. CASE FreeFiles(st.files) = {}
  BY <1>1 DEF InstallStdio
<1>2. CASE FreeFiles(st.files) # {}
  <2>1. PICK id \in FileIds : id = Min(FreeFiles(st.files)) /\ st.files[id] = Closed
    BY <1>2, FreeSlot
  <2>2. /\ ~after.failed
        /\ after.files = [st.files EXCEPT ![id] = NewFile(kind, access)]
        /\ after.table = [st.table EXCEPT ![fd] = id]
    BY <1>2, <2>1 DEF InstallStdio, Alloc, NewFile
  <2>3. NewFile(kind, access) \in OpenFile /\ NewFile(kind, access) # Closed
    BY ClosedIsNone DEF NewFile, OpenFile
  <2>4. FileTable(after.files)
    BY <2>2, <2>3, Zenon DEF FileTable
  <2>5. FreeFiles(after.files) = FreeFiles(st.files) \ {id}
    <3>1. \A i \in FileIds : after.files[i] = IF i = id THEN NewFile(kind, access)
                                              ELSE st.files[i]
      BY <2>2, Zenon DEF FileTable
    <3> QED
      BY <2>3, <3>1, Zenon DEF FreeFiles
  <2>6. id \in FreeFiles(st.files)
    BY <2>1, Zenon DEF FreeFiles
  <2> QED
    BY <1>2, <2>2, <2>4, <2>5, <2>6, Zenon DEF Installed
<1> QED
  BY <1>1, <1>2, Zenon

\* The tables of a process that has started: three slots that were free.
Started(stdio, i, j, k) ==
  /\ {i, j, k} \subseteq FreeFiles(files) /\ i # j /\ i # k /\ j # k
  /\ stdio.files[i] = NewFile("NullInput", "ReadOnly")
  /\ stdio.files[j] = NewFile("ConsoleStdout", "WriteOnly")
  /\ stdio.files[k] = NewFile("ConsoleStderr", "WriteOnly")
  /\ \A x \in FileIds \ {i, j, k} : stdio.files[x] = files[x]
  /\ \A fd \in Fds : stdio.table[fd] = CASE fd = 0 -> i [] fd = 1 -> j [] fd = 2 -> k
                                         [] OTHER -> NoFile

\* A spawn succeeds when three slots are free, and only then.
LEMMA NewWithStdioCounts ==
  ASSUME FilesInv
  PROVE  LET stdio == NewWithStdio(files)
         IN  IF stdio.failed THEN Room < 3
             ELSE Room >= 3 /\ \E i, j, k \in FileIds : Started(stdio, i, j, k)
<1> DEFINE start == [files |-> files, table |-> EmptyTable, failed |-> FALSE]
           input == InstallStdio(start, STDIN, "NullInput", "ReadOnly")
           out == InstallStdio(input, STDOUT, "ConsoleStdout", "WriteOnly")
           stdio == InstallStdio(out, STDERR, "ConsoleStderr", "WriteOnly")
<1>1. {0, 1, 2} \subseteq Fds /\ STDIN = 0 /\ STDOUT = 1 /\ STDERR = 2
  BY MaxFdsAssumption DEF STDIN, STDOUT, STDERR, Fds
<1>2. "ConsoleStdout" \in Console /\ "ConsoleStderr" \in Console
  BY Zenon DEF Console
<1>3. /\ ~start.failed /\ start.files = files /\ FileTable(start.files)
      /\ start.table = EmptyTable
  BY Zenon DEF FilesInv, Fit, FileTable
<1>4. NewWithStdio(files) = stdio
  BY Zenon DEF NewWithStdio
<1>5. \A st, fd, kind, access : st.failed => InstallStdio(st, fd, kind, access).failed
  BY Zenon DEF InstallStdio
<1>6. IsFiniteSet(FreeFiles(files)) /\ Room \in Nat
  BY RoomIsCounted
<1> HIDE DEF start
<1>7. CASE FreeFiles(files) = {}
  <2>1. input.failed
    BY <1>1, <1>3, <1>7, InstallEffect, Zenon
  <2> HIDE DEF input
  <2>2. stdio.failed
    BY <1>5, <2>1, Zenon
  <2>3. Room = 0
    BY <1>7, FS_EmptySet, Zenon DEF Room
  <2> QED
    BY <1>4, <2>2, <2>3
<1>8. CASE FreeFiles(files) # {}
  <2>1. PICK i \in FileIds : Installed(start, STDIN, "NullInput", "ReadOnly", i, input)
    BY <1>1, <1>3, <1>8, InstallEffect, Zenon
  <2>2. FileTable(input.files) /\ ~input.failed
    BY <1>1, <1>3, <1>8, <2>1, InstallEffect, Zenon DEF Installed
  <2> HIDE DEF input
  <2>3. Cardinality(FreeFiles(input.files)) = Room - 1 /\ IsFiniteSet(FreeFiles(input.files))
    <3>1. i \in FreeFiles(files) /\ FreeFiles(input.files) = FreeFiles(files) \ {i}
      BY <1>3, <2>1, Zenon DEF Installed
    <3> QED
      BY <1>6, <3>1, FS_RemoveElement DEF Room
  <2>4. CASE FreeFiles(input.files) = {}
    <3>1. out.failed
      BY <1>1, <1>2, <2>2, <2>4, InstallEffect, Zenon
    <3> HIDE DEF out
    <3>2. stdio.failed
      BY <1>5, <3>1, Zenon
    <3>3. Room = 1
      BY <1>6, <2>3, <2>4, FS_EmptySet
    <3> QED
      BY <1>4, <3>2, <3>3
  <2>5. CASE FreeFiles(input.files) # {}
    <3>1. PICK j \in FileIds :
            Installed(input, STDOUT, "ConsoleStdout", "WriteOnly", j, out)
      BY <1>1, <1>2, <2>2, <2>5, InstallEffect, Zenon
    <3>2. FileTable(out.files) /\ ~out.failed
      BY <1>1, <1>2, <2>2, <2>5, <3>1, InstallEffect, Zenon DEF Installed
    <3> HIDE DEF out
    <3>3. Cardinality(FreeFiles(out.files)) = Room - 2 /\ IsFiniteSet(FreeFiles(out.files))
      <4>1. /\ j \in FreeFiles(input.files)
            /\ FreeFiles(out.files) = FreeFiles(input.files) \ {j}
        BY <3>1, Zenon DEF Installed
      <4>2. Cardinality(FreeFiles(out.files)) = Cardinality(FreeFiles(input.files)) - 1
        BY <2>3, <4>1, FS_RemoveElement, Zenon
      <4> QED
        BY <1>6, <2>3, <4>1, <4>2, FS_RemoveElement
    <3>4. CASE FreeFiles(out.files) = {}
      <4>1. stdio.failed
        BY <1>1, <1>2, <3>2, <3>4, InstallEffect, Zenon
      <4>2. Room = 2
        BY <1>6, <3>3, <3>4, FS_EmptySet
      <4> QED
        BY <1>4, <4>1, <4>2
    <3>5. CASE FreeFiles(out.files) # {}
      <4>1. PICK k \in FileIds :
              Installed(out, STDERR, "ConsoleStderr", "WriteOnly", k, stdio)
        BY <1>1, <1>2, <3>2, <3>5, InstallEffect, Zenon
      <4> HIDE DEF stdio
      <4>2. Room >= 3
        <5>1. Cardinality(FreeFiles(out.files)) # 0
          BY <3>3, <3>5, FS_EmptySet, Zenon
        <5>2. Cardinality(FreeFiles(out.files)) \in Nat
          BY <3>3, FS_CardinalityType, Zenon
        <5> QED
          BY <1>6, <3>3, <5>1, <5>2
      <4>3. {i, j, k} \subseteq FreeFiles(files) /\ i # j /\ i # k /\ j # k
        BY <1>3, <2>1, <3>1, <4>1, Zenon DEF Installed
      <4>4. \A x \in FileIds :
              stdio.files[x] = CASE x = i -> NewFile("NullInput", "ReadOnly")
                                 [] x = j -> NewFile("ConsoleStdout", "WriteOnly")
                                 [] x = k -> NewFile("ConsoleStderr", "WriteOnly")
                                 [] OTHER -> files[x]
        BY <1>3, <2>1, <2>2, <3>1, <3>2, <4>1, <4>3 DEF Installed, FileTable
      <4>5. \A fd \in Fds :
              stdio.table[fd] = CASE fd = 0 -> i [] fd = 1 -> j [] fd = 2 -> k
                                  [] OTHER -> NoFile
        BY <1>1, <1>3, <2>1, <3>1, <4>1 DEF Installed, EmptyTable
      <4>6. Started(stdio, i, j, k)
        BY <4>3, <4>4, <4>5, Zenon DEF Started
      <4> QED
        BY <1>4, <4>1, <4>2, <4>6, Zenon DEF Installed
    <3> QED
      BY <3>4, <3>5, Zenon
  <2> QED
    BY <2>4, <2>5, Zenon
<1> QED
  BY <1>7, <1>8, Zenon
\* A new process, or -ENFILE because fewer than three slots were free.
LEMMA SpawnRefines ==
  ASSUME FilesInv, NEW p \in Pids, Spawn(p)
  PROVE  D!Next
<1> DEFINE stdio == NewWithStdio(files)
<1>1. life[p] = "Unborn" /\ files' = stdio.files
  BY Zenon DEF Spawn
<1>2. /\ files \in [FileIds -> OpenFile \cup {Closed}] /\ fds \in [Pids -> Tables]
      /\ fds[p] = EmptyTable
  BY <1>1, Zenon DEF FilesInv, Fit
<1>3. CASE stdio.failed
  <2>1. ret' = -23 /\ ret' < 0
    BY <1>3 DEF Spawn, ENFILE
  <2>2. UNCHANGED <<files, fds, life>>
    BY <2>1, SpawnKeepsInv, Zenon DEF StepOK
  <2>3. D!InUse + 3 > MaxOpenFiles
    BY <1>3, NewWithStdioCounts, RoomIsCounted, MaxOpenFilesAssumption
  <2>4. D!Refuse(p, 23)
    BY <1>1, <2>1, <2>2, <2>3, SameDescriptors DEF D!Refuse
  <2> QED
    BY <2>4, Zenon DEF D!Next
<1>4. CASE ~stdio.failed
  <2>1. PICK i \in FileIds, j \in FileIds, k \in FileIds : Started(stdio, i, j, k)
    BY <1>4, NewWithStdioCounts, Zenon
  <2>2. D!InUse + 3 <= MaxOpenFiles
    BY <1>4, NewWithStdioCounts, RoomIsCounted, MaxOpenFilesAssumption
  <2>3. /\ fds' = [fds EXCEPT ![p] = stdio.table]
        /\ life' = [life EXCEPT ![p] = "Running"] /\ ret' = 0
    BY <1>4, Zenon DEF Spawn
  <2> HIDE DEF stdio
  <2>4. fds'[p] = stdio.table /\ \A q \in Pids : q # p => fds'[q] = fds[q]
    BY <1>2, <2>3, Zenon
  <2>5. \A q \in Pids, gd \in Fds : q # p => Untouched(q, gd)
    <3> SUFFICES ASSUME NEW q \in Pids, NEW gd \in Fds, q # p
                 PROVE  Untouched(q, gd)
      BY Zenon
    <3>1. ASSUME fds[q][gd] # NoFile PROVE files'[fds[q][gd]] = files[fds[q][gd]]
      <4>1. fds[q][gd] \in FileIds /\ files[fds[q][gd]] # Closed
        BY <1>2, <3>1 DEF FilesInv, Fit, Tables
      <4>2. fds[q][gd] \notin {i, j, k}
        BY <2>1, <4>1, Zenon DEF Started, FreeFiles
      <4> QED
        BY <1>1, <2>1, <4>1, <4>2, Zenon DEF Started
    <3> QED
      BY <2>4, <3>1 DEF Untouched
  <2>6. Desc' = [Desc EXCEPT ![p] = [gd \in Fds |-> View(p, gd)']]
    BY <2>5, OneTable, Zenon
  <2>7. \A gd \in Fds :
          View(p, gd)' = CASE gd = 0 -> D!Fresh("NullInput")
                           [] gd = 1 -> D!Fresh("ConsoleStdout")
                           [] gd = 2 -> D!Fresh("ConsoleStderr")
                           [] OTHER -> D!NoDesc
    <3>1. i # NoFile /\ j # NoFile /\ k # NoFile
      BY DEF FileIds, NoFile
    <3>2. /\ Seen(NewFile("NullInput", "ReadOnly")) = D!Fresh("NullInput")
          /\ Seen(NewFile("ConsoleStdout", "WriteOnly")) = D!Fresh("ConsoleStdout")
          /\ Seen(NewFile("ConsoleStderr", "WriteOnly")) = D!Fresh("ConsoleStderr")
          /\ Seen(Closed) = D!NoDesc
      BY Zenon DEF Seen, NewFile, Closed, D!Fresh, D!NoDesc
    <3>3. \A gd \in Fds :
            View(p, gd)' = IF stdio.table[gd] = NoFile THEN Seen(Closed)
                           ELSE Seen(stdio.files[stdio.table[gd]])
      BY <1>1, <2>4, Zenon DEF View
    <3> QED
      BY <2>1, <3>1, <3>2, <3>3 DEF Started
  <2>8. [gd \in Fds |-> View(p, gd)'] = D!Stdio
    <3>1. D!Fds = Fds
      BY SameNumbers, Zenon
    <3>2. {0, 1, 2} \subseteq Fds
      BY MaxFdsAssumption DEF Fds
    <3> QED
      BY <2>7, <3>1, <3>2 DEF D!Stdio, D!Empty
  <2>9. D!Start(p)
    BY <1>1, <2>2, <2>3, <2>6, <2>8, Zenon DEF D!Start
  <2> QED
    BY <2>9, Zenon DEF D!Next
<1> QED
  BY <1>3, <1>4, Zenon

-----------------------------------------------------------------------------
\* Initially there is no descriptor.
LEMMA InitRefines == Init => D!Init
<1> SUFFICES ASSUME Init PROVE D!Init
  OBVIOUS
<1>1. D!Fds = Fds /\ Seen(Closed) = D!NoDesc
  BY Zenon DEF D!Fds, Fds, Seen, Closed, D!NoDesc
<1>2. \A p \in Pids, fd \in Fds : fds[p][fd] = NoFile
  BY Zenon DEF Init, EmptyTable
<1>3. Desc = [p \in Pids |-> D!Empty]
  BY <1>1, <1>2 DEF Desc, D!Empty
<1> QED
  BY <1>3, Zenon DEF Init, D!Init

\* Every step is a step of the descriptors, or changes none.
LEMMA NextRefines == FilesInv /\ [Next]_vars => [D!Next]_(D!vars)
<1> SUFFICES ASSUME FilesInv, [Next]_vars PROVE [D!Next]_(D!vars)
  BY Zenon
<1>1. CASE UNCHANGED vars
  <2>1. UNCHANGED D!vars
    BY <1>1, SameDescriptors DEF vars, D!vars
  <2> QED
    BY <2>1
<1>2. CASE Next
  <2>1. PICK p \in Pids :
          \/ Spawn(p)
          \/ Exit(p)
          \/ OpenFails(p)
          \/ \E path \in Embedded : Open(p, path)
          \/ \E fd \in 0 .. MaxFds : Read(p, fd) \/ Write(p, fd) \/ Close(p, fd)
    BY <1>2 DEF Next
  <2> QED
    BY <2>1, SpawnRefines, ExitRefines, OpenFailsRefines, OpenRefines, ReadRefines,
       WriteRefines, CloseRefines, Zenon
<1> QED
  BY <1>1, <1>2, Zenon

\* The two tables implement the descriptors that a process is promised, for
\* every number of processes, slots and descriptors: sharing and reuse of slots,
\* rollback and cleanup never show, and a call is refused for want of room only
\* when there is none.
THEOREM FilesImplementDescriptors == Spec => ImplementsDescriptors
<1> QED
  BY InitRefines, NextRefines, FilesSafe, PTL DEF Spec, ImplementsDescriptors, D!Spec
==============================================================================
