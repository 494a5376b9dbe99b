------------------------------ MODULE ElfLoader ------------------------------
(***************************************************************************)
(* Loading a program: src/src/elf.rs, with map_user_region, copy_to_user   *)
(* and zero_user_range of src/src/address_space.rs, heap_for_loaded_image  *)
(* and map_user_stack of src/src/user.rs, and the writer of the test       *)
(* programs, elf() of src/build.rs.                                        *)
(*                                                                         *)
(* A file is a record: its length, whether each fixed field of the header  *)
(* has the one value that is accepted, the fields that vary, the program   *)
(* headers read at phoff, and its bytes.  64 bit arithmetic is arithmetic  *)
(* below Word.  Addresses are counted from USER_BASE.                      *)
(***************************************************************************)
EXTENDS Integers, Sequences, FiniteSets, FiniteSetsExt

CONSTANTS PageSize,
          Word,        \* 2^64
          HeaderSize,  \* ELF_HEADER_SIZE
          PhSize,      \* PROGRAM_HEADER_SIZE
          LoadStart,   \* USER_ELF_LOAD_START
          LoadEnd,     \* USER_ELF_LOAD_END = USER_HEAP_LIMIT
          StackTop,    \* USER_STACK_TOP
          StackPages,  \* USER_STACK_PAGES
          Files,       \* files of any origin
          Programs     \* what build.rs makes files of: an entry and segments

ASSUME ElfLayoutAssumption ==
  /\ PageSize \in Nat \ {0} /\ StackPages \in Nat
  /\ HeaderSize \in Nat \ {0} /\ PhSize \in Nat
  /\ \A a \in {LoadStart, LoadEnd, StackTop, Word} : a \in Nat /\ a % PageSize = 0
  /\ 0 < LoadStart /\ LoadStart < LoadEnd
  /\ LoadEnd + PageSize <= StackTop - StackPages * PageSize
  /\ StackTop < Word

VARIABLES program,  \* what the file was built from, or NoProgram
          file,
          phase,    \* the next thing load_user_elf does
          error,    \* "Ok" or the ElfLoadError
          index,    \* the segment it is at
          done,     \* bytes of it copied, or zeroed
          perm,     \* page -> "none", "r" or "rw"
          mem       \* address -> byte, where the page is mapped

vars == <<program, file, phase, error, index, done, perm, mem>>

Addresses == 0 .. StackTop - 1
Pages == 0 .. StackTop \div PageSize - 1
PageOf(a) == a \div PageSize

PF_X(flags) == flags % 2 = 1
PF_W(flags) == (flags \div 2) % 2 = 1
KnownFlags(flags) == flags < 8

-----------------------------------------------------------------------------
(* Checked arithmetic.  Overflow is Word, which no u64 is. *)

WrappingAdd(a, b) == (a + b) % Word

CheckedAdd(a, b) == Min({a + b, Word})

AlignDown(a) == (a \div PageSize) * PageSize

AlignUp(a) ==
  IF CheckedAdd(a, PageSize - 1) = Word THEN Word ELSE AlignDown(a + PageSize - 1)

-----------------------------------------------------------------------------
(* Parsing.  A check is a pair: the condition of an early return, and the  *)
(* error it returns.                                                       *)

FirstError(checks) ==
  LET failing == {i \in DOMAIN checks : checks[i][1]}
  IN  IF failing = {} THEN "Ok" ELSE checks[Min(failing)][2]

HeaderError(f) ==
  LET size == PhSize * Len(f.ph)
      end == CheckedAdd(f.phoff, size)
  IN  FirstError(<<
        <<f.len < 1,           "MalformedHeader">>,   \* too short for the magic
        <<~f.magic,            "BadMagic">>,
        <<f.len < HeaderSize,  "MalformedHeader">>,
        <<~f.class,            "UnsupportedClass">>,
        <<~f.data,             "UnsupportedEndian">>,
        <<~f.version,          "MalformedHeader">>,
        <<~f.type,             "UnsupportedType">>,
        <<~f.machine,          "UnsupportedMachine">>,
        <<~f.ehsize,           "MalformedHeader">>,
        <<~f.phentsize,        "MalformedProgramHeader">>,
        <<Len(f.ph) = 0,       "MalformedHeader">>,
        <<end = Word,          "MalformedProgramHeader">>,
        <<end > f.len,         "MalformedProgramHeader">> >>)

MapStart(h) == AlignDown(h.vaddr)

MapEnd(h) == AlignUp(CheckedAdd(h.vaddr, h.memsz))

ProgramHeaderError(f, h) ==
  LET dataEnd == CheckedAdd(h.offset, h.filesz)
      segmentEnd == CheckedAdd(h.vaddr, h.memsz)
  IN  FirstError(<<
        <<~h.load,                 "MalformedProgramHeader">>,
        <<~KnownFlags(h.flags),    "MalformedProgramHeader">>,
        <<h.memsz < h.filesz,      "SegmentMemSizeLessThanFileSize">>,
        <<h.memsz = 0,             "MalformedProgramHeader">>,
        << \/ h.align # PageSize
           \/ h.vaddr % PageSize # 0
           \/ h.offset % PageSize # 0, "UnalignedSegment">>,
        <<dataEnd = Word,          "MalformedProgramHeader">>,
        <<dataEnd > f.len,         "MalformedProgramHeader">>,
        <<segmentEnd = Word,       "MalformedProgramHeader">>,
        <<AlignUp(segmentEnd) = Word, "MalformedProgramHeader">>,
        << \/ MapStart(h) < LoadStart
           \/ MapEnd(h) > LoadEnd
           \/ MapStart(h) >= MapEnd(h), "SegmentOutsideUserRange">> >>)

Overlaps(new, old) == MapStart(new) < MapEnd(old) /\ MapStart(old) < MapEnd(new)

SegmentError(f, i) ==
  FirstError(<<
    <<ProgramHeaderError(f, f.ph[i]) # "Ok", ProgramHeaderError(f, f.ph[i])>>,
    <<\E j \in 1 .. i - 1 : Overlaps(f.ph[i], f.ph[j]), "SegmentOverlap">> >>)

ContainsEntry(h, entry) ==
  PF_X(h.flags) /\ entry >= h.vaddr /\ entry < h.vaddr + h.memsz

ParseElf(f) ==
  IF HeaderError(f) # "Ok" THEN HeaderError(f)
  ELSE LET bad == {i \in DOMAIN f.ph : SegmentError(f, i) # "Ok"}
       IN  IF bad # {} THEN SegmentError(f, Min(bad))
           ELSE IF \E i \in DOMAIN f.ph : ContainsEntry(f.ph[i], f.entry) THEN "Ok"
           ELSE "EntryNotExecutable"

\* MaxSegmentEnd with a mistake: the segments are taken to be in order.
LastSegmentEnd(f) == f.ph[Len(f.ph)].vaddr + f.ph[Len(f.ph)].memsz

MaxSegmentEnd(f) == Max({f.ph[i].vaddr + f.ph[i].memsz : i \in DOMAIN f.ph})

HeapStart(f) == AlignUp(MaxSegmentEnd(f))

\* heap_for_loaded_image and UserHeap::new.
HasHeapRange(f) == HeapStart(f) >= LoadStart /\ HeapStart(f) < LoadEnd

-----------------------------------------------------------------------------
(* elf() of build.rs.  A segment without data keeps offset 0. *)

RoundUp(n) == AlignDown(n + PageSize - 1)

\* FileEnd with a mistake: the data of the segments follow each other unaligned.
FileEndPacked(segments) ==
  LET end[i \in 0 .. Len(segments)] ==
        IF i = 0 THEN RoundUp(HeaderSize + PhSize * Len(segments))
        ELSE end[i - 1] + Len(segments[i].data)
  IN  end

\* file_len after the first i segments.
FileEnd(segments) ==
  LET end[i \in 0 .. Len(segments)] ==
        IF i = 0 THEN RoundUp(HeaderSize + PhSize * Len(segments))
        ELSE IF segments[i].data = <<>> THEN end[i - 1]
        ELSE RoundUp(end[i - 1]) + Len(segments[i].data)
  IN  end

Offset(segments, i) ==
  IF segments[i].data = <<>> THEN 0 ELSE FileEnd(segments)[i] - Len(segments[i].data)

Elf(entry, segments) ==
  LET len == FileEnd(segments)[Len(segments)]
      at(i) == Offset(segments, i) .. Offset(segments, i) + Len(segments[i].data) - 1
  IN  [len |-> len, magic |-> TRUE, class |-> TRUE, data |-> TRUE,
       version |-> TRUE, type |-> TRUE, machine |-> TRUE, ehsize |-> TRUE,
       phentsize |-> TRUE, entry |-> entry, phoff |-> HeaderSize,
       ph |-> [i \in DOMAIN segments |->
                 [load |-> TRUE, flags |-> segments[i].flags,
                  offset |-> Offset(segments, i), vaddr |-> segments[i].vaddr,
                  filesz |-> Len(segments[i].data), memsz |-> segments[i].memsz,
                  align |-> PageSize]],
       bytes |-> [o \in 0 .. len - 1 |->
                    LET owner == {i \in DOMAIN segments : o \in at(i)}
                    IN  IF owner = {} THEN 0
                        ELSE LET i == Min(owner)
                             IN  segments[i].data[o - Offset(segments, i) + 1]]]

\* What the fields of a file can be: flags, and numbers of at most 64 bits.
U64 == 0 .. Word - 1

ProgramHeader ==
  [load : BOOLEAN, flags : U64, offset : U64, vaddr : U64, filesz : U64,
   memsz : U64, align : U64]

IsFile(f) ==
  /\ {f.magic, f.class, f.data, f.version, f.type, f.machine, f.ehsize, f.phentsize}
       \subseteq BOOLEAN
  /\ {f.len, f.entry, f.phoff} \subseteq U64
  /\ f.ph \in Seq(ProgramHeader)

ASSUME ElfFileAssumption ==
  \A f \in Files \cup {Elf(p.entry, p.segments) : p \in Programs} : IsFile(f)

\* The struct Segment of build.rs, and what the segments of its programs have in
\* common: each is page aligned and lies in the load window with room for a heap
\* above it, no two share a page, and the entry is in one that is executable.
BuiltSegment == [vaddr : U64, flags : U64, memsz : U64, data : Seq(0 .. 255)]

ASSUME ProgramAssumption ==
  \A p \in Programs :
    /\ p.segments \in Seq(BuiltSegment)
    /\ \A i \in DOMAIN p.segments :
         LET s == p.segments[i] IN
         /\ KnownFlags(s.flags) /\ s.vaddr % PageSize = 0
         /\ 0 < s.memsz /\ Len(s.data) <= s.memsz
         /\ LoadStart <= s.vaddr /\ s.vaddr + s.memsz + PageSize <= LoadEnd
    /\ \A i, j \in DOMAIN p.segments : i # j =>
         LET s == p.segments[i]
             t == p.segments[j]
         IN  s.vaddr + s.memsz <= t.vaddr \/ t.vaddr + t.memsz <= s.vaddr
    /\ \E i \in DOMAIN p.segments :
         LET s == p.segments[i] IN
         PF_X(s.flags) /\ s.vaddr <= p.entry /\ p.entry < s.vaddr + s.memsz

-----------------------------------------------------------------------------
(* load_user_elf.  Frames may run out whenever pages are mapped; what the  *)
(* frames are is the subject of UserHeap.                                  *)

Translates(a) == perm[PageOf(a)] # "none"

UserFlags(h) == IF PF_W(h.flags) THEN "rw" ELSE "r"

Fail(reason) ==
  /\ phase' = "failed"
  /\ error' = reason
  /\ UNCHANGED <<program, file, index, done, perm, mem>>

\* parse_elf, heap_for_loaded_image, AddressSpace::new_user.
Parse ==
  LET verdict == ParseElf(file) IN
  /\ phase = "parse"
  /\ \/ verdict # "Ok" /\ Fail(verdict)
     \/ verdict = "Ok" /\ ~HasHeapRange(file) /\ Fail("NoHeapRange")
     \/ verdict = "Ok" /\ HasHeapRange(file) /\ Fail("OutOfFrames")
     \/ /\ verdict = "Ok" /\ HasHeapRange(file)
        /\ phase' = "map"
        /\ index' = 1
        /\ UNCHANGED <<program, file, error, done, perm, mem>>

\* map_user_region for zeroed pages; map_to refuses a page that is mapped.
MapPages(region, flags, next) ==
  \/ Fail("OutOfFrames")
  \/ IF \E q \in region : perm[q] # "none"
     THEN Fail("MapFailed")
     ELSE /\ perm' = [q \in Pages |-> IF q \in region THEN flags ELSE perm[q]]
          /\ mem' = [a \in Addresses |-> IF PageOf(a) \in region THEN 0 ELSE mem[a]]
          /\ phase' = next
          /\ UNCHANGED <<program, file, error, index, done>>

Segment == file.ph[index]

\* MapUserRegion with a mistake: the last page is not mapped.
MapsOnePageLess ==
  /\ phase = "map"
  /\ MapPages(PageOf(MapStart(Segment)) .. PageOf(MapEnd(Segment)) - 2,
              UserFlags(Segment), "copy")

MapUserRegion ==
  /\ phase = "map"
  /\ MapPages(PageOf(MapStart(Segment)) .. PageOf(MapEnd(Segment)) - 1,
              UserFlags(Segment), "copy")

\* The bytes from address on that one turn of a copy loop moves.
Chunk(address, left) == Min({left, PageSize - (address % PageSize)})

\* One turn of copy_to_user; at the end, zero_user_range follows when memsz is
\* larger.
CopyToUser ==
  LET address == Segment.vaddr + done
      count == Chunk(address, Segment.filesz - done)
  IN  /\ phase = "copy"
      /\ \/ /\ done < Segment.filesz
            /\ IF ~Translates(address) THEN Fail("UserCopyFailed")
               ELSE /\ mem' = [a \in Addresses |->
                                 IF a \in address .. address + count - 1
                                 THEN file.bytes[Segment.offset + a - Segment.vaddr]
                                 ELSE mem[a]]
                    /\ done' = done + count
                    /\ UNCHANGED <<program, file, phase, error, index, perm>>
         \/ /\ done = Segment.filesz
            /\ phase' = "zero"
            /\ done' = 0
            /\ UNCHANGED <<program, file, error, index, perm, mem>>

\* ZeroFrom with a mistake: the range starts where the segment starts.
ZeroFromStart(h) == h.vaddr

ZeroFrom(h) == h.vaddr + h.filesz

\* One turn of zero_user_range, or on to the next segment.
ZeroUserRange ==
  LET size == Segment.memsz - Segment.filesz
      address == ZeroFrom(Segment) + done
      count == Chunk(address, size - done)
  IN  /\ phase = "zero"
      /\ \/ /\ done < size
            /\ IF ~Translates(address) THEN Fail("UserCopyFailed")
               ELSE /\ mem' = [a \in Addresses |->
                                 IF a \in address .. address + count - 1 THEN 0 ELSE mem[a]]
                    /\ done' = done + count
                    /\ UNCHANGED <<program, file, phase, error, index, perm>>
         \/ /\ done = size
            /\ done' = 0
            /\ IF index < Len(file.ph)
               THEN index' = index + 1 /\ phase' = "map"
               ELSE phase' = "stack" /\ UNCHANGED index
            /\ UNCHANGED <<program, file, error, perm, mem>>

StackRegion == PageOf(StackTop) - StackPages .. PageOf(StackTop) - 1

MapUserStack == phase = "stack" /\ MapPages(StackRegion, "rw", "loaded")

NoProgram == [entry |-> 0, segments |-> <<>>]

Init ==
  /\ \/ program = NoProgram /\ file \in Files
     \/ program \in Programs /\ file = Elf(program.entry, program.segments)
  /\ phase = "parse"
  /\ error = "Ok"
  /\ index = 0
  /\ done = 0
  /\ perm = [q \in Pages |-> "none"]
  /\ mem = [a \in Addresses |-> 0]

Next == Parse \/ MapUserRegion \/ CopyToUser \/ ZeroUserRange \/ MapUserStack

Spec == Init /\ [][Next]_vars

-----------------------------------------------------------------------------
(* Properties                                                              *)

ParseErrors ==
  {"BadMagic", "UnsupportedClass", "UnsupportedEndian", "UnsupportedType",
   "UnsupportedMachine", "MalformedHeader", "MalformedProgramHeader",
   "SegmentOutsideUserRange", "SegmentMemSizeLessThanFileSize",
   "SegmentOverlap", "UnalignedSegment", "EntryNotExecutable"}

LoadErrors == {"NoHeapRange", "OutOfFrames", "MapFailed", "UserCopyFailed"}

\* The type of every variable; a load has failed exactly when it has an error.
TypeOK ==
  /\ phase \in {"parse", "map", "copy", "zero", "stack", "loaded", "failed"}
  /\ error \in {"Ok"} \cup ParseErrors \cup LoadErrors
  /\ error # "Ok" <=> phase = "failed"
  /\ index \in 0 .. Len(file.ph)
  /\ done \in Nat
  /\ perm \in [Pages -> {"none", "r", "rw"}]
  /\ DOMAIN mem = Addresses

\* What an acceptable file is, said without an order of checks, without
\* rounding and in unbounded arithmetic.
Bytes(h) == h.vaddr .. h.vaddr + h.memsz - 1

Touched(h) == {q \in Pages : \E a \in Bytes(h) : PageOf(a) = q}

WellFormed(f) ==
  /\ f.len >= HeaderSize
  /\ f.magic /\ f.class /\ f.data /\ f.version /\ f.type /\ f.machine
  /\ f.ehsize /\ f.phentsize
  /\ Len(f.ph) > 0 /\ f.phoff + PhSize * Len(f.ph) <= f.len
  /\ \A i \in DOMAIN f.ph :
       LET h == f.ph[i] IN
       /\ h.load /\ KnownFlags(h.flags) /\ h.align = PageSize
       /\ h.vaddr % PageSize = 0 /\ h.offset % PageSize = 0
       /\ 0 < h.memsz /\ h.filesz <= h.memsz
       /\ h.offset + h.filesz <= f.len
       /\ LoadStart <= h.vaddr /\ h.vaddr + h.memsz <= LoadEnd
       /\ \A j \in DOMAIN f.ph : i # j => Touched(h) \cap Touched(f.ph[j]) = {}
  /\ \E i \in DOMAIN f.ph : PF_X(f.ph[i].flags) /\ f.entry \in Bytes(f.ph[i])

\* parse_elf accepts exactly the well formed files: no sum of a vaddr, an
\* offset or a size that wraps around is taken for a small number, and no
\* file that could be loaded is refused.
ParserIsExact == phase = "parse" => (ParseElf(file) = "Ok" <=> WellFormed(file))

\* The variables have their types, and what parse_elf accepts can be loaded: no
\* page is mapped twice and every byte that is copied or zeroed lies in a
\* mapped page, so that running out of frames is the only reason for
\* load_user_elf to fail after that.
AcceptedFilesLoad == TypeOK /\ error \notin {"MapFailed", "UserCopyFailed"}

InFile(h, a) == a \in h.vaddr .. h.vaddr + h.filesz - 1

\* After load_user_elf the user half holds the image and nothing else: exactly
\* the pages that a segment or the stack touches are mapped, writable when it
\* asked for it, with the bytes of the file and zeros in the rest, although
\* segments are loaded one after the other through copies cut at pages.
ImageIsExact ==
  phase = "loaded" =>
    /\ \A q \in Pages :
         perm[q] = IF q \in StackRegion THEN "rw"
                   ELSE IF \E i \in DOMAIN file.ph : q \in Touched(file.ph[i])
                   THEN UserFlags(file.ph[CHOOSE i \in DOMAIN file.ph :
                                            q \in Touched(file.ph[i])])
                   ELSE "none"
    /\ \A a \in Addresses :
         LET from == {i \in DOMAIN file.ph : InFile(file.ph[i], a)} IN
         IF from = {} THEN mem[a] = 0
         ELSE \A i \in from :
                mem[a] = file.bytes[file.ph[i].offset + a - file.ph[i].vaddr]

\* What the rest of the kernel relies on (ImageAssumption of UserHeap): the
\* image lies in the load window, the heap starts above all of it with room to
\* grow, the page below the heap belongs to the image, and the entry point is
\* in a mapped page.
HeapFollowsImage ==
  LET image == {q \in Pages \ StackRegion : perm[q] # "none"} IN
  phase = "loaded" =>
    /\ image \subseteq PageOf(LoadStart) .. PageOf(HeapStart(file)) - 1
    /\ PageOf(HeapStart(file)) - 1 \in image
    /\ HeapStart(file) < LoadEnd
    /\ PageOf(file.entry) \in image

\* elf() of build.rs and the loader agree: a file built from page aligned
\* segments in the load window, with or without data, is accepted, and every
\* byte of every segment arrives at its address.
BuiltProgramsLoad ==
  program # NoProgram =>
    /\ error \in {"Ok", "OutOfFrames"}
    /\ phase = "loaded" =>
         \A i \in DOMAIN program.segments :
           LET s == program.segments[i] IN
           \A k \in 1 .. s.memsz :
             mem[s.vaddr + k - 1] = IF k <= Len(s.data) THEN s.data[k] ELSE 0

=============================================================================
