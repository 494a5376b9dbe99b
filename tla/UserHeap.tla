------------------------------ MODULE UserHeap ------------------------------
(***************************************************************************)
(* User address spaces, the program break and the physical frame           *)
(* allocator: src/src/address_space.rs, the UserHeap of                    *)
(* src/src/process.rs, sys_brk_current of src/src/scheduler.rs, the        *)
(* layout of src/src/user.rs and BootInfoFrameAllocator of                 *)
(* src/src/memory.rs.                                                      *)
(*                                                                         *)
(* An image is loaded with interrupts enabled, by main or by a kernel      *)
(* task, and every use of the memory state is a critical section of its    *)
(* own.  So a load is many steps, and the steps of other loads and the     *)
(* brk calls of running processes come between them.  brk runs in the      *)
(* syscall gate with interrupts off and is one step.                       *)
(*                                                                         *)
(* Addresses are bytes counted from USER_BASE.  What the pages contain and *)
(* their writable bit are left out.                                        *)
(***************************************************************************)
EXTENDS Integers, FiniteSets, FiniteSetsExt

CONSTANTS Procs,       \* the address spaces ever made, one per process
          PageSize,
          TableSpan,   \* pages under one level 1 table (512)
          LoadStart,   \* USER_ELF_LOAD_START
          Limit,       \* USER_HEAP_LIMIT = USER_ELF_LOAD_END = USER_TEST_PAGE_BASE
          StackTop,    \* USER_STACK_TOP
          StackPages,  \* USER_STACK_PAGES
          Frames,      \* usable frames left when the first image is loaded
          Images       \* the programs: pages to load, end of the last segment,
                       \* and the test page where the program has one

ASSUME LayoutAssumption ==
  /\ PageSize \in Nat \ {0} /\ TableSpan \in Nat \ {0} /\ Frames \in Nat
  /\ \A a \in {LoadStart, Limit, StackTop} : a \in Nat /\ a % PageSize = 0
  /\ StackPages \in Nat \ {0}
  /\ 0 < LoadStart /\ LoadStart < Limit
  /\ Limit + PageSize <= StackTop - StackPages * PageSize

\* Between LoadStart and Limit there are pages of two level 1 tables at most,
\* that of LoadStart and that of the stack.
ASSUME SpanAssumption ==
  \A q \in LoadStart \div PageSize .. Limit \div PageSize - 1 :
    q \div TableSpan \in {(LoadStart \div PageSize) \div TableSpan,
                         (StackTop \div PageSize - 1) \div TableSpan}

\* What parsing an image guarantees: its segments lie between LoadStart and
\* Limit, and maxSegmentEnd is in the last page of the last one.
ASSUME ImageAssumption ==
  \A image \in Images :
    LET end == image.maxSegmentEnd IN
    /\ end \in Nat /\ LoadStart < end /\ end <= Limit
    /\ image.pages \subseteq LoadStart \div PageSize .. (end - 1) \div PageSize
    /\ (end - 1) \div PageSize \in image.pages
    /\ image.testPage \in {{}, {Limit \div PageSize}}

VARIABLES phase,   \* where each process is in its life
          tables,  \* the frames of its page tables
          pages,   \* its leaf mappings: page -> frame
          todo,    \* pages the loader has still to map
          held,    \* the frame the loader has allocated and not yet mapped
          heap,    \* UserHeap
          next,    \* BootInfoFrameAllocator::next
          error    \* the error a brk returned in the last step, or 0

vars == <<phase, tables, pages, todo, held, heap, next, error>>

NoFrame == -1
EINVAL == 22
ENOMEM == 12

Pages == 0 .. StackTop \div PageSize - 1
HeapLimitPage == Limit \div PageSize
StackRegion == (StackTop \div PageSize - StackPages) .. (StackTop \div PageSize - 1)

\* The level 4 table is 0, the level 3 and level 2 tables of the user slot are
\* 1 and 2, and 3 + r is the level 1 table of the r-th span of pages.
Tables == 0 .. 3 + (StackTop \div PageSize - 1) \div TableSpan

AlignsPastBoundary(value) == (value \div PageSize + 1) * PageSize

AlignUp(value) == ((value + PageSize - 1) \div PageSize) * PageSize

PageRange(from, to) == {q \in Pages : from <= q * PageSize /\ q * PageSize < to}

-----------------------------------------------------------------------------
(* Frames and page tables                                                  *)

CountsOneFrame(count) == Min({next + 1, Frames})

\* allocate_frame after `count` calls.  The code goes on counting once the
\* usable frames are used up, and every later call fails whatever the count,
\* so the count stops at Frames here.
Allocated(count) == Min({next + count, Frames})

TablesFor(q) == {1, 2, 3 + q \div TableSpan}

\* The tables map_to has to create on the way to the pages of S.
Missing(p, S) == {t \in UNION {TablesFor(q) : q \in S} : tables[p][t] = NoFrame}

\* The first page of S that needs the table t.
FirstUse(t, S) == Min({q \in S : t \in TablesFor(q)})

\* map_zeroed_user_page for the pages of S in ascending order.  Each takes a
\* data frame and then a frame for every table that is still missing.
PageFrame(p, S, q) ==
  next + Cardinality({r \in S : r < q})
       + Cardinality({t \in Missing(p, S) : FirstUse(t, S) < q})

TableFrame(p, S, t) ==
  next + Cardinality({r \in S : r <= FirstUse(t, S)})
       + Cardinality({u \in Missing(p, S) : u < t})

\* The pages the loop of map_user_heap_pages comes to: map_to refuses a page
\* that is mapped already, after its data frame was taken.
Attempted(p, S) == {q \in S : \A r \in S : r < q => pages[p][r] = NoFrame}

FramesFor(p, S) == Cardinality(S) + Cardinality(Missing(p, S))

MapSucceeds(p, S) ==
  /\ \A q \in S : pages[p][q] = NoFrame
  /\ next + FramesFor(p, S) <= Frames

\* A failure unmaps what the loop had mapped.  Tables created by then stay and
\* frames taken by then are not given back.
MapUserHeapPages(p, S) ==
  [q \in Pages |-> IF q \in S /\ MapSucceeds(p, S)
                   THEN PageFrame(p, S, q) ELSE pages[p][q]]

TablesAfterMap(p, S) ==
  [t \in Tables |-> IF t \in Missing(p, S) /\ TableFrame(p, S, t) < Frames
                    THEN TableFrame(p, S, t) ELSE tables[p][t]]

\* unmap_user_heap_pages stops at the first page that is not mapped.
Unmapped(p, S) == {q \in S : \A r \in S : r <= q => pages[p][r] # NoFrame}

-----------------------------------------------------------------------------
(* Loading an image                                                        *)

NoHeap == [start |-> 0, brk |-> 0, mappedEnd |-> 0]

NewHeap(start) == [start |-> start, brk |-> start, mappedEnd |-> start]

\* heap_for_loaded_image, which refuses an image that leaves the heap no room,
\* and then AddressSpace::new_user.
NewUser(p, image) ==
  LET start == AlignUp(image.maxSegmentEnd) IN
  /\ phase[p] = "none"
  /\ LoadStart <= start /\ start < Limit
  /\ next' = Allocated(1)
  /\ IF next < Frames
     THEN /\ phase' = [phase EXCEPT ![p] = "loading"]
          /\ tables' = [tables EXCEPT ![p][0] = next]
          /\ todo' = [todo EXCEPT ![p] = 
                      image.pages \union image.testPage \union StackRegion]
          /\ heap' = [heap EXCEPT ![p] = NewHeap(start)]
     ELSE /\ phase' = [phase EXCEPT ![p] = "failed"]
          /\ UNCHANGED <<tables, todo, heap>>
  /\ error' = 0
  /\ UNCHANGED <<pages, held>>

\* First critical section of map_zeroed_user_page.
AllocatePage(p) ==
  /\ phase[p] = "loading" /\ todo[p] # {} /\ held[p] = NoFrame
  /\ next' = Allocated(1)
  /\ IF next < Frames
     THEN held' = [held EXCEPT ![p] = next] /\ UNCHANGED phase
     ELSE phase' = [phase EXCEPT ![p] = "failed"] /\ UNCHANGED held
  /\ error' = 0
  /\ UNCHANGED <<tables, pages, todo, heap>>

\* Segments are mapped in file order, which may be any; the pages above the
\* heap limit follow in ascending order.
NextPages(p) ==
  LET image == {q \in todo[p] : q < HeapLimitPage}
  IN  IF image # {} THEN image ELSE {Min(todo[p])}

\* Second critical section: map_frame.
MapFrame(p, q) ==
  LET missing == Missing(p, {q})
      frame(t) == next + Cardinality({u \in missing : u < t})
      ok == /\ next + Cardinality(missing) <= Frames
            /\ pages[p][q] = NoFrame
  IN  /\ phase[p] = "loading" /\ held[p] # NoFrame /\ q \in NextPages(p)
      /\ next' = Allocated(Cardinality(missing))
      /\ tables' = [tables EXCEPT ![p] =
                      [t \in Tables |-> IF t \in missing /\ frame(t) < Frames
                                        THEN frame(t) ELSE tables[p][t]]]
      /\ held' = [held EXCEPT ![p] = NoFrame]
      /\ IF ok
         THEN /\ pages' = [pages EXCEPT ![p][q] = held[p]]
              /\ todo' = [todo EXCEPT ![p] = @ \ {q}]
              /\ UNCHANGED phase
         ELSE /\ phase' = [phase EXCEPT ![p] = "failed"]
              /\ UNCHANGED <<pages, todo>>
      /\ error' = 0
      /\ UNCHANGED heap

\* spawn_user_process takes the finished address space, or refuses it and
\* drops it: nothing of it is given back.
Spawn(p) ==
  /\ phase[p] = "loading" /\ todo[p] = {}
  /\ \E after \in {"running", "failed"} : phase' = [phase EXCEPT ![p] = after]
  /\ error' = 0
  /\ UNCHANGED <<tables, pages, todo, held, heap, next>>

\* The process exits and is reaped: AddressSpace has no destructor, and its
\* frames never return to the allocator.
End(p) ==
  /\ phase[p] = "running"
  /\ phase' = [phase EXCEPT ![p] = "ended"]
  /\ error' = 0
  /\ UNCHANGED <<tables, pages, todo, held, heap, next>>

-----------------------------------------------------------------------------
(* brk                                                                     *)

\* The requests that get past the checks against the start and the limit.
InHeap(p, requested) == heap[p].start <= requested /\ requested <= Limit

GrowsFromStart(p, requested) ==
  IF InHeap(p, requested) /\ requested > heap[p].brk
  THEN PageRange(heap[p].start, AlignUp(requested)) ELSE {}

GrowPages(p, requested) ==
  IF InHeap(p, requested) /\ requested > heap[p].brk
  THEN PageRange(heap[p].mappedEnd, AlignUp(requested)) ELSE {}

ShrinksTooFar(p, requested) ==
  IF InHeap(p, requested) /\ requested < heap[p].brk
  THEN PageRange(AlignUp(requested) - PageSize, heap[p].mappedEnd) ELSE {}

ShrinkPages(p, requested) ==
  IF InHeap(p, requested) /\ requested < heap[p].brk
  THEN PageRange(AlignUp(requested), heap[p].mappedEnd) ELSE {}

BrkError(p, requested) ==
  LET shrink == ShrinkPages(p, requested) IN
  CASE requested = 0 -> 0
    [] requested # 0 /\ ~ InHeap(p, requested) ->
         IF requested < heap[p].start THEN EINVAL ELSE ENOMEM
    [] requested # 0 /\ InHeap(p, requested) ->
         IF ~ MapSucceeds(p, GrowPages(p, requested)) THEN ENOMEM
         ELSE IF Unmapped(p, shrink) # shrink THEN EINVAL ELSE 0

SetBreak(h, requested) ==
  [h EXCEPT !.brk = requested, !.mappedEnd = AlignUp(requested)]

\* SysBrk with a mistake: growth that fails half way stays as far as it got.
GrowsAsFarAsItGets(p, requested) ==
  LET grow == GrowPages(p, requested)
      got == {q \in Attempted(p, grow) : PageFrame(p, grow, q) < Frames}
      gone == Unmapped(p, ShrinkPages(p, requested))
  IN  /\ phase[p] = "running"
      /\ pages' = [pages EXCEPT ![p] =
                     [q \in Pages |-> IF q \in gone THEN NoFrame
                                      ELSE IF q \in got THEN PageFrame(p, grow, q)
                                      ELSE pages[p][q]]]
      /\ next' = Allocated(FramesFor(p, Attempted(p, grow)))
      /\ error' = BrkError(p, requested)
      /\ heap' = [heap EXCEPT ![p] =
                    IF error' = 0 /\ requested # 0 THEN SetBreak(@, requested)
                    ELSE IF got # {} THEN SetBreak(@, (Max(got) + 1) * PageSize) ELSE @]
      /\ UNCHANGED <<phase, tables, todo, held>>

SysBrk(p, requested) ==
  LET grow == GrowPages(p, requested)
      tried == Attempted(p, grow)
      gone == Unmapped(p, ShrinkPages(p, requested))
  IN  /\ phase[p] = "running"
      /\ pages' = [pages EXCEPT ![p] =
                     [q \in Pages |-> IF q \in gone THEN NoFrame
                                      ELSE MapUserHeapPages(p, grow)[q]]]
      /\ tables' = [tables EXCEPT ![p] = TablesAfterMap(p, tried)]
      /\ next' = Allocated(FramesFor(p, tried))
      /\ error' = BrkError(p, requested)
      /\ IF error' = 0 /\ requested \notin {0, heap[p].brk}
         THEN heap' = [heap EXCEPT ![p] = SetBreak(@, requested)]
         ELSE UNCHANGED heap
      /\ UNCHANGED <<phase, todo, held>>

Init ==
  /\ phase = [p \in Procs |-> "none"]
  /\ tables = [p \in Procs |-> [t \in Tables |-> NoFrame]]
  /\ pages = [p \in Procs |-> [q \in Pages |-> NoFrame]]
  /\ todo = [p \in Procs |-> {}]
  /\ held = [p \in Procs |-> NoFrame]
  /\ heap = [p \in Procs |-> NoHeap]
  /\ next = 0
  /\ error = 0

Next ==
  \E p \in Procs :
    \/ \E image \in Images : NewUser(p, image)
    \/ AllocatePage(p)
    \/ \E q \in Pages : MapFrame(p, q)
    \/ Spawn(p)
    \/ End(p)
    \/ \E requested \in 0 .. Limit + 1 : SysBrk(p, requested)

Spec == Init /\ [][Next]_vars

-----------------------------------------------------------------------------
(* Properties                                                              *)

\* Every variable has its type.
TypeOK ==
  /\ phase \in [Procs -> {"none", "loading", "running", "ended", "failed"}]
  /\ tables \in [Procs -> [Tables -> {NoFrame} \union 0 .. Frames - 1]]
  /\ pages \in [Procs -> [Pages -> {NoFrame} \union 0 .. Frames - 1]]
  /\ todo \in [Procs -> SUBSET Pages]
  /\ held \in [Procs -> {NoFrame} \union 0 .. Frames - 1]
  /\ heap \in [Procs -> [start : 0 .. Limit, brk : 0 .. Limit, mappedEnd : 0 .. Limit]]
  /\ next \in 0 .. Frames
  /\ error \in {0, EINVAL, ENOMEM}

\* The variables have their types, and
\* sys_brk_current and map_user_heap_pages keep the metadata and the page
\* tables in step: between the start and the limit of a running process's heap
\* exactly the pages that hold a byte below the break are mapped, however many
\* calls failed half way for want of frames.
HeapIsMapped ==
  /\ TypeOK
  /\ \A p \in Procs : phase[p] = "running" =>
       /\ heap[p].start <= heap[p].brk /\ heap[p].brk <= Limit
       /\ heap[p].mappedEnd = AlignUp(heap[p].brk)
       /\ \A q \in PageRange(heap[p].start, Limit) :
            pages[p][q] # NoFrame <=> q * PageSize < heap[p].brk

\* The places a frame can be: a page table, a mapped page, or the hands of a
\* loader between allocation and mapping.
FrameAt(x) ==
  CASE x[2][1] = "table" -> tables[x[1]][x[2][2]]
    [] x[2][1] = "page" -> pages[x[1]][x[2][2]]
    [] x[2][1] = "held" -> held[x[1]]

FramePlaces ==
  LET places == Procs \X ({"table"} \X Tables \union {"page"} \X Pages
                            \union {<<"held", 0>>})
  IN  {x \in places : FrameAt(x) # NoFrame}

\* The memory state gives a frame to one caller only, whatever the order of the
\* loaders' critical sections and the brk calls: no frame is in two places, of
\* one process or of two, and none that is still to be handed out is in any.
FramesArePrivate ==
  LET used == {FrameAt(x) : x \in FramePlaces} IN
  /\ Cardinality(used) = Cardinality(FramePlaces)
  /\ \A f \in used : f < next

\* The error of sys_brk_current says what happened.  -EINVAL is only given to a
\* request below the heap, never for a range that could not be unmapped.
\* -ENOMEM is only given above the limit or when fewer frames are left than
\* the heap has pages to add: growing needs no page table and meets no page
\* that is mapped already.
BrkErrorsAreTrue ==
  \A p \in Procs : phase[p] = "running" =>
    \A requested \in 0 .. Limit + 1 :
      LET added == (AlignUp(requested) - AlignUp(heap[p].brk)) \div PageSize IN
      /\ BrkError(p, requested) = EINVAL => requested < heap[p].start
      /\ BrkError(p, requested) = ENOMEM =>
           requested > Limit \/ next + added > Frames

\* A brk that returns an error has changed neither the break nor a mapping,
\* also when frames ran out after some of the pages had been mapped.
FailedBrkKeepsHeap ==
  [][error' # 0 => UNCHANGED <<heap, pages>>]_vars

\* What a process has stored stays: a mapped page keeps its frame until a brk
\* to a break at or below the page takes it away, and pages outside the heap
\* (the image, the test page, the stack) keep theirs for good.  A page that
\* becomes mapped, also one that was given up and is asked for again, gets a
\* frame that was not in use before.
MappedPagesSurvive ==
  [][\A p \in Procs, q \in Pages :
       LET address == q * PageSize IN
       /\ pages[p][q] \notin {NoFrame, pages'[p][q]} =>
            /\ pages'[p][q] = NoFrame
            /\ heap[p].start <= address /\ address < Limit
            /\ heap'[p].brk <= address
       /\ pages'[p][q] \notin {NoFrame, pages[p][q]} =>
            pages'[p][q] >= next \/ pages'[p][q] = held[p]]_vars

=============================================================================
