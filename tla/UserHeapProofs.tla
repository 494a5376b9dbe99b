--------------------------- MODULE UserHeapProofs ---------------------------
(***************************************************************************)
(* A frame is in one place only, the page tables of a process agree with   *)
(* its heap metadata, and what brk may do to mapped pages.  The first part *)
(* is about the numbers that PageFrame and TableFrame give to the pages    *)
(* and page tables of one run of map_user_heap_pages: each counts what the *)
(* loop took before it, so they are all different and all new.             *)
(***************************************************************************)
EXTENDS UserHeap, FiniteSetTheorems, FunctionTheorems, WellFoundedInduction,
        NaturalsInduction, TLAPS

\* A set of numbers that is not empty has a least one.
LEMMA LeastOf ==
  ASSUME NEW S \in SUBSET Nat, S # {}
  PROVE  Min(S) \in S /\ \A y \in S : Min(S) <= y
<1>1. PICK x \in S : \A y \in S : ~(<<y, x>> \in OpToRel(<, Nat))
  BY WFMin, NatLessThanWellFounded, Zenon
<1>2. \A y \in S : x <= y
  <2>1. \A y \in S : ~(y < x)
    BY <1>1, Zenon DEF OpToRel
  <2> QED
    BY <2>1
<1> QED
  BY <1>2, Zenon DEF Min

\* The parts of the layout assumption that are about single constants.
LEMMA Constants ==
  /\ PageSize \in Nat \ {0} /\ TableSpan \in Nat \ {0} /\ StackPages \in Nat \ {0}
  /\ Frames \in Nat /\ LoadStart \in Nat /\ Limit \in Nat /\ StackTop \in Nat
  /\ LoadStart % PageSize = 0 /\ Limit % PageSize = 0 /\ StackTop % PageSize = 0
  /\ 0 < LoadStart /\ LoadStart < Limit
BY LayoutAssumption, Zenon

\* Rounding down keeps the order of two numbers.
LEMMA DivMonotone ==
  ASSUME NEW a \in Nat, NEW b \in Nat, a <= b, NEW d \in Nat \ {0}
  PROVE  a \div d \in Nat /\ b \div d \in Nat /\ a \div d <= b \div d
OBVIOUS

\* A finite set is larger than each of its proper parts.
LEMMA ProperPart ==
  ASSUME NEW T, IsFiniteSet(T), NEW S \in SUBSET T
  PROVE  /\ IsFiniteSet(S)
         /\ Cardinality(S) \in Nat
         /\ Cardinality(T) \in Nat
         /\ Cardinality(S) <= Cardinality(T)
         /\ S # T => Cardinality(S) < Cardinality(T)
<1>1. /\ IsFiniteSet(S)
      /\ Cardinality(S) <= Cardinality(T)
      /\ Cardinality(T) = Cardinality(S) => T = S
  BY FS_Subset, Zenon
<1>2. Cardinality(S) \in Nat /\ Cardinality(T) \in Nat
  BY <1>1, FS_CardinalityType, Zenon
<1> QED
  BY <1>1, <1>2

-----------------------------------------------------------------------------
(***************************************************************************)
(* The numbers of the frames that one run of the loop takes.               *)
(***************************************************************************)
\* The sets of pages a loop can have.
LEMMA PagesAreFinite ==
  ASSUME NEW S \in SUBSET Pages
  PROVE  IsFiniteSet(S) /\ S \in SUBSET Nat
<1>1. StackTop \div PageSize \in Nat
  BY Constants
<1>2. IsFiniteSet(Pages) /\ Pages \in SUBSET Nat
  BY <1>1, FS_Interval DEF Pages
<1> QED
  BY <1>2, FS_Subset, Zenon

\* The tables missing on the way to pages are finitely many, each needed by one.
LEMMA MissingTables ==
  ASSUME NEW p, NEW S \in SUBSET Pages
  PROVE  /\ IsFiniteSet(Missing(p, S))
         /\ Missing(p, S) \in SUBSET Nat
         /\ \A t \in Missing(p, S) : \E q \in S : t \in TablesFor(q)
<1> DEFINE level1 == {3 + q \div TableSpan : q \in S}
           f == [q \in S |-> 3 + q \div TableSpan]
<1>1. IsFiniteSet(S) /\ S \in SUBSET Nat
  BY PagesAreFinite, Zenon
<1>2. IsFiniteSet(level1)
  <2>1. f \in Surjection(S, level1)
    BY Zenon DEF Surjection
  <2> QED
    BY <1>1, <2>1, FS_Surjection, Zenon
<1>3. level1 \in SUBSET Nat
  <2>1. \A q \in S : q \div TableSpan \in Nat
    BY <1>1, Constants
  <2> QED
    BY <2>1
<1>4. IsFiniteSet({1, 2} \cup level1)
  <2>1. IsFiniteSet({1, 2})
    <3>1. IsFiniteSet({1}) /\ {1, 2} = {1} \cup {2}
      BY FS_Singleton, Zenon
    <3> QED
      BY <3>1, FS_AddElement
  <2> QED
    BY <1>2, <2>1, FS_Union, Zenon
<1>5. Missing(p, S) \subseteq {1, 2} \cup level1
  BY Zenon DEF Missing, TablesFor
<1>6. \A t \in Missing(p, S) : \E q \in S : t \in TablesFor(q)
  BY Zenon DEF Missing
<1> HIDE DEF level1
<1>7. IsFiniteSet(Missing(p, S))
  BY <1>4, <1>5, FS_Subset, Zenon
<1>8. Missing(p, S) \in SUBSET Nat
  <2>1. {1, 2} \cup level1 \subseteq Nat
    BY <1>3
  <2> QED
    BY <1>5, <2>1, Zenon
<1> QED
  BY <1>6, <1>7, <1>8, Zenon

\* The loop comes to the tables in the order of their numbers.
LEMMA FirstUseInOrder ==
  ASSUME NEW p, NEW S \in SUBSET Pages, NEW t \in Missing(p, S)
  PROVE  /\ FirstUse(t, S) \in S
         /\ FirstUse(t, S) \in Nat
         /\ \A u \in Missing(p, S) : u <= t => FirstUse(u, S) <= FirstUse(t, S)
<1> DEFINE uses(u) == {q \in S : u \in TablesFor(q)}
<1>1. S \in SUBSET Nat /\ Missing(p, S) \in SUBSET Nat
  BY PagesAreFinite, MissingTables, Zenon
<1>2. \A u \in Missing(p, S) : uses(u) \in SUBSET Nat /\ uses(u) # {}
  BY <1>1, MissingTables, Zenon
<1>3. \A u \in Missing(p, S) : /\ FirstUse(u, S) \in uses(u)
                               /\ \A q \in uses(u) : FirstUse(u, S) <= q
  BY <1>2, LeastOf, Zenon DEF FirstUse
<1>4. ASSUME NEW u \in Missing(p, S), u <= t
      PROVE  FirstUse(u, S) <= FirstUse(t, S)
  <2> DEFINE a == FirstUse(u, S)
             b == FirstUse(t, S)
  <2>1. /\ a \in S /\ a \in Nat /\ u \in TablesFor(a)
        /\ b \in S /\ b \in Nat /\ t \in TablesFor(b)
        /\ \A q \in S : u \in TablesFor(q) => a <= q
    BY <1>1, <1>3, Zenon
  <2> SUFFICES a <= b
    BY Zenon
  <2> HIDE DEF a, b
  <2>2. /\ a \div TableSpan \in Nat /\ b \div TableSpan \in Nat
        /\ b <= a => b \div TableSpan <= a \div TableSpan
    BY <2>1, DivMonotone, Constants
  <2>3. CASE u \in {1, 2}
    BY <2>1, <2>3, Zenon DEF TablesFor
  <2>4. CASE u \notin {1, 2}
    <3>1. u = 3 + a \div TableSpan /\ t = 3 + b \div TableSpan
      BY <1>4, <2>1, <2>2, <2>4 DEF TablesFor
    <3>2. CASE u = t
      BY <2>1, <3>1, <3>2, Zenon DEF TablesFor
    <3>3. CASE u # t
      BY <1>1, <1>4, <2>1, <2>2, <3>1, <3>3
    <3> QED
      BY <3>2, <3>3, Zenon
  <2> QED
    BY <2>3, <2>4, Zenon
<1> QED
  BY <1>1, <1>3, <1>4, Zenon

\* What the loop has taken when it comes to page q, and to table t.
PagesBefore(S, q) == {r \in S : r < q}
TablesBefore(p, S, q) == {t \in Missing(p, S) : FirstUse(t, S) < q}
PagesUpTo(S, t) == {r \in S : r <= FirstUse(t, S)}
LowerTables(p, S, t) == {u \in Missing(p, S) : u < t}

\* These parts of S and of Missing(p, S) have a size.
LEMMA PartSizes ==
  ASSUME NEW p, NEW S \in SUBSET Pages
  PROVE  /\ Cardinality(S) \in Nat
         /\ Cardinality(Missing(p, S)) \in Nat
         /\ \A A \in SUBSET S : Cardinality(A) \in Nat
         /\ \A A \in SUBSET Missing(p, S) : Cardinality(A) \in Nat
         /\ \A A, B \in SUBSET S : A \subseteq B =>
              /\ Cardinality(A) <= Cardinality(B)
              /\ A # B => Cardinality(A) < Cardinality(B)
         /\ \A A, B \in SUBSET Missing(p, S) : A \subseteq B =>
              /\ Cardinality(A) <= Cardinality(B)
              /\ A # B => Cardinality(A) < Cardinality(B)
<1>1. IsFiniteSet(S) /\ IsFiniteSet(Missing(p, S))
  BY PagesAreFinite, MissingTables, Zenon
<1>2. ASSUME NEW U, IsFiniteSet(U)
      PROVE  /\ Cardinality(U) \in Nat
             /\ \A A \in SUBSET U : Cardinality(A) \in Nat
             /\ \A A, B \in SUBSET U : A \subseteq B =>
                  /\ Cardinality(A) <= Cardinality(B)
                  /\ A # B => Cardinality(A) < Cardinality(B)
  <2>1. \A A \in SUBSET U : IsFiniteSet(A)
    BY <1>2, FS_Subset, Zenon
  <2>2. \A A \in SUBSET U : Cardinality(A) \in Nat
    BY <2>1, FS_CardinalityType, Zenon
  <2>3. \A A, B \in SUBSET U : A \subseteq B =>
          /\ Cardinality(A) <= Cardinality(B)
          /\ A # B => Cardinality(A) < Cardinality(B)
    BY <2>1, ProperPart, Zenon
  <2>4. Cardinality(U) \in Nat
    BY <1>2, FS_CardinalityType, Zenon
  <2> QED
    BY <2>2, <2>3, <2>4, Zenon
<1> QED
  BY <1>1, <1>2, Zenon

\* The frame numbers in terms of these parts.
LEMMA FrameNumbers ==
  ASSUME NEW p, NEW S
  PROVE  /\ \A q : PageFrame(p, S, q) = next + Cardinality(PagesBefore(S, q))
                                             + Cardinality(TablesBefore(p, S, q))
         /\ \A t : TableFrame(p, S, t) = next + Cardinality(PagesUpTo(S, t))
                                              + Cardinality(LowerTables(p, S, t))
BY Zenon
DEF PageFrame, TableFrame, PagesBefore, TablesBefore, PagesUpTo, LowerTables

\* The frames of the pages of S grow with the pages.
LEMMA PageFramesDiffer ==
  ASSUME NEW p, NEW S \in SUBSET Pages, next \in Nat, NEW q \in S, NEW r \in S, q < r
  PROVE  PageFrame(p, S, q) < PageFrame(p, S, r)
<1>1. S \in SUBSET Nat
  BY PagesAreFinite, Zenon
<1>2. \A t \in Missing(p, S) : FirstUse(t, S) \in Nat
  BY FirstUseInOrder, Zenon
<1>3. /\ PagesBefore(S, q) \in SUBSET S /\ PagesBefore(S, r) \in SUBSET S
      /\ PagesBefore(S, q) \subseteq PagesBefore(S, r)
      /\ PagesBefore(S, q) # PagesBefore(S, r)
  <2>1. q \in PagesBefore(S, r) /\ q \notin PagesBefore(S, q)
    BY <1>1 DEF PagesBefore
  <2>2. PagesBefore(S, q) \subseteq PagesBefore(S, r)
    <3>1. \A x \in S : x < q => x < r
      BY <1>1
    <3> QED
      BY <3>1, Zenon DEF PagesBefore
  <2>3. PagesBefore(S, q) \in SUBSET S /\ PagesBefore(S, r) \in SUBSET S
    BY Zenon DEF PagesBefore
  <2> QED
    BY <2>1, <2>2, <2>3, Zenon
<1>4. /\ TablesBefore(p, S, q) \in SUBSET Missing(p, S)
      /\ TablesBefore(p, S, r) \in SUBSET Missing(p, S)
      /\ TablesBefore(p, S, q) \subseteq TablesBefore(p, S, r)
  BY <1>1, <1>2 DEF TablesBefore
<1>5. /\ Cardinality(PagesBefore(S, q)) \in Nat
      /\ Cardinality(PagesBefore(S, r)) \in Nat
      /\ Cardinality(PagesBefore(S, q)) < Cardinality(PagesBefore(S, r))
  BY <1>3, PartSizes, Zenon
<1>6. /\ Cardinality(TablesBefore(p, S, q)) \in Nat
      /\ Cardinality(TablesBefore(p, S, r)) \in Nat
      /\ Cardinality(TablesBefore(p, S, q)) <= Cardinality(TablesBefore(p, S, r))
  BY <1>4, PartSizes, Zenon
<1> QED
  BY <1>5, <1>6, FrameNumbers

\* The frames of the tables grow with the tables.
LEMMA TableFramesDiffer ==
  ASSUME NEW p, NEW S \in SUBSET Pages, next \in Nat,
         NEW t \in Missing(p, S), NEW u \in Missing(p, S), t < u
  PROVE  TableFrame(p, S, t) < TableFrame(p, S, u)
<1>1. S \in SUBSET Nat /\ Missing(p, S) \in SUBSET Nat
  BY PagesAreFinite, MissingTables, Zenon
<1>2. /\ FirstUse(t, S) \in Nat /\ FirstUse(u, S) \in Nat
      /\ FirstUse(t, S) <= FirstUse(u, S)
  BY <1>1, FirstUseInOrder
<1>3. /\ PagesUpTo(S, t) \in SUBSET S /\ PagesUpTo(S, u) \in SUBSET S
      /\ PagesUpTo(S, t) \subseteq PagesUpTo(S, u)
  <2>1. \A r \in S : r <= FirstUse(t, S) => r <= FirstUse(u, S)
    BY <1>1, <1>2
  <2> QED
    BY <2>1, Zenon DEF PagesUpTo
<1>4. /\ LowerTables(p, S, t) \in SUBSET Missing(p, S)
      /\ LowerTables(p, S, u) \in SUBSET Missing(p, S)
      /\ LowerTables(p, S, t) \subseteq LowerTables(p, S, u)
      /\ LowerTables(p, S, t) # LowerTables(p, S, u)
  <2>1. t \in LowerTables(p, S, u) /\ t \notin LowerTables(p, S, t)
    BY <1>1 DEF LowerTables
  <2>2. LowerTables(p, S, t) \subseteq LowerTables(p, S, u)
    BY <1>1 DEF LowerTables
  <2> QED
    BY <2>1, <2>2, Zenon DEF LowerTables
<1>5. /\ Cardinality(PagesUpTo(S, t)) \in Nat /\ Cardinality(PagesUpTo(S, u)) \in Nat
      /\ Cardinality(PagesUpTo(S, t)) <= Cardinality(PagesUpTo(S, u))
  BY <1>3, PartSizes, Zenon
<1>6. /\ Cardinality(LowerTables(p, S, t)) \in Nat
      /\ Cardinality(LowerTables(p, S, u)) \in Nat
      /\ Cardinality(LowerTables(p, S, t)) < Cardinality(LowerTables(p, S, u))
  BY <1>4, PartSizes, Zenon
<1> QED
  BY <1>5, <1>6, FrameNumbers

\* A page and a table never get the same frame.
LEMMA PageAndTableFramesDiffer ==
  ASSUME NEW p, NEW S \in SUBSET Pages, next \in Nat,
         NEW q \in S, NEW t \in Missing(p, S)
  PROVE  PageFrame(p, S, q) # TableFrame(p, S, t)
<1> DEFINE first == FirstUse(t, S)
<1>1. S \in SUBSET Nat /\ Missing(p, S) \in SUBSET Nat
  BY PagesAreFinite, MissingTables, Zenon
<1>2. /\ first \in S
      /\ \A u \in Missing(p, S) : /\ FirstUse(u, S) \in Nat
                                  /\ u <= t => FirstUse(u, S) <= first
                                  /\ t <= u => first <= FirstUse(u, S)
  BY FirstUseInOrder, Zenon
<1>3. /\ PagesBefore(S, q) \in SUBSET S
      /\ PagesUpTo(S, t) \in SUBSET S
      /\ TablesBefore(p, S, q) \in SUBSET Missing(p, S)
      /\ LowerTables(p, S, t) \in SUBSET Missing(p, S)
  BY Zenon DEF PagesBefore, PagesUpTo, TablesBefore, LowerTables
<1>4. /\ Cardinality(PagesBefore(S, q)) \in Nat
      /\ Cardinality(PagesUpTo(S, t)) \in Nat
      /\ Cardinality(TablesBefore(p, S, q)) \in Nat
      /\ Cardinality(LowerTables(p, S, t)) \in Nat
  BY <1>3, PartSizes, Zenon
<1>5. CASE q <= first
  <2>1. PagesBefore(S, q) \subseteq PagesUpTo(S, t)
    <3>1. \A r \in S : r < q => r <= first
      BY <1>1, <1>2, <1>5
    <3> QED
      BY <3>1, Zenon DEF PagesBefore, PagesUpTo
  <2>2. q \in PagesUpTo(S, t) /\ q \notin PagesBefore(S, q)
    BY <1>1, <1>5 DEF PagesBefore, PagesUpTo
  <2>3. TablesBefore(p, S, q) \subseteq LowerTables(p, S, t)
    <3>1. \A u \in Missing(p, S) : FirstUse(u, S) < q => u < t
      BY <1>1, <1>2, <1>5
    <3> QED
      BY <3>1, Zenon DEF TablesBefore, LowerTables
  <2>4. Cardinality(PagesBefore(S, q)) < Cardinality(PagesUpTo(S, t))
    BY <1>3, <2>1, <2>2, PartSizes, Zenon
  <2>5. Cardinality(TablesBefore(p, S, q)) <= Cardinality(LowerTables(p, S, t))
    BY <1>3, <2>3, PartSizes, Zenon
  <2> QED
    BY <1>4, <2>4, <2>5, FrameNumbers
<1>6. CASE first < q
  <2>1. PagesUpTo(S, t) \subseteq PagesBefore(S, q)
    <3>1. \A r \in S : r <= first => r < q
      BY <1>1, <1>2, <1>6
    <3> QED
      BY <3>1, Zenon DEF PagesBefore, PagesUpTo
  <2>2. t \in TablesBefore(p, S, q) /\ t \notin LowerTables(p, S, t)
    BY <1>1, <1>6 DEF TablesBefore, LowerTables
  <2>3. LowerTables(p, S, t) \subseteq TablesBefore(p, S, q)
    <3>1. \A u \in Missing(p, S) : u < t => FirstUse(u, S) < q
      BY <1>1, <1>2, <1>6
    <3> QED
      BY <3>1, Zenon DEF TablesBefore, LowerTables
  <2>4. Cardinality(PagesUpTo(S, t)) <= Cardinality(PagesBefore(S, q))
    BY <1>3, <2>1, PartSizes, Zenon
  <2>5. Cardinality(LowerTables(p, S, t)) < Cardinality(TablesBefore(p, S, q))
    BY <1>3, <2>2, <2>3, PartSizes, Zenon
  <2> QED
    BY <1>4, <2>4, <2>5, FrameNumbers
<1> QED
  BY <1>1, <1>2, <1>5, <1>6

\* All of them are new, and the count of the allocator passes them.
LEMMA FramesAreNew ==
  ASSUME NEW p, NEW S \in SUBSET Pages, next \in Nat
  PROVE  /\ FramesFor(p, S) \in Nat
         /\ \A q \in S : /\ PageFrame(p, S, q) \in Nat
                         /\ next <= PageFrame(p, S, q)
                         /\ PageFrame(p, S, q) < next + FramesFor(p, S)
         /\ \A t \in Missing(p, S) : /\ TableFrame(p, S, t) \in Nat
                                     /\ next <= TableFrame(p, S, t)
                                     /\ TableFrame(p, S, t) < next + FramesFor(p, S)
<1>1. S \in SUBSET Nat /\ Missing(p, S) \in SUBSET Nat
  BY PagesAreFinite, MissingTables, Zenon
<1>2. /\ Cardinality(S) \in Nat
      /\ Cardinality(Missing(p, S)) \in Nat
      /\ FramesFor(p, S) = Cardinality(S) + Cardinality(Missing(p, S))
  BY PartSizes, Zenon DEF FramesFor
<1>3. ASSUME NEW q \in S
      PROVE  /\ PageFrame(p, S, q) \in Nat
             /\ next <= PageFrame(p, S, q)
             /\ PageFrame(p, S, q) < next + FramesFor(p, S)
  <2>1. PagesBefore(S, q) \in SUBSET S /\ PagesBefore(S, q) # S
    BY <1>1 DEF PagesBefore
  <2>2. TablesBefore(p, S, q) \in SUBSET Missing(p, S)
    BY Zenon DEF TablesBefore
  <2>3. /\ Cardinality(PagesBefore(S, q)) \in Nat
        /\ Cardinality(PagesBefore(S, q)) < Cardinality(S)
    BY <2>1, PartSizes, Zenon
  <2>4. /\ Cardinality(TablesBefore(p, S, q)) \in Nat
        /\ Cardinality(TablesBefore(p, S, q)) <= Cardinality(Missing(p, S))
    BY <2>2, PartSizes, Zenon
  <2> QED
    BY <1>2, <2>3, <2>4, FrameNumbers
<1>4. ASSUME NEW t \in Missing(p, S)
      PROVE  /\ TableFrame(p, S, t) \in Nat
             /\ next <= TableFrame(p, S, t)
             /\ TableFrame(p, S, t) < next + FramesFor(p, S)
  <2>1. LowerTables(p, S, t) \in SUBSET Missing(p, S) /\ LowerTables(p, S, t) # Missing(p, S)
    BY <1>1 DEF LowerTables
  <2>2. PagesUpTo(S, t) \in SUBSET S
    BY Zenon DEF PagesUpTo
  <2>3. /\ Cardinality(LowerTables(p, S, t)) \in Nat
        /\ Cardinality(LowerTables(p, S, t)) < Cardinality(Missing(p, S))
    BY <2>1, PartSizes, Zenon
  <2>4. /\ Cardinality(PagesUpTo(S, t)) \in Nat
        /\ Cardinality(PagesUpTo(S, t)) <= Cardinality(S)
    BY <2>2, PartSizes, Zenon
  <2> QED
    BY <1>2, <2>3, <2>4, FrameNumbers
<1> QED
  BY <1>2, <1>3, <1>4

-----------------------------------------------------------------------------
(***************************************************************************)
(* The invariant.                                                          *)
(***************************************************************************)
FrameOrNone == {NoFrame} \cup 0 .. Frames - 1

FrameTypes ==
  /\ tables \in [Procs -> [Tables -> FrameOrNone]]
  /\ pages \in [Procs -> [Pages -> FrameOrNone]]
  /\ held \in [Procs -> FrameOrNone]
  /\ next \in 0 .. Frames

\* No frame is twice in one address space with tables tb, pages pg and the
\* frame h in its loader's hands.
UsedOnce(tb, pg, h) ==
  /\ \A s, t \in Tables : tb[s] # NoFrame /\ tb[s] = tb[t] => s = t
  /\ \A q, r \in Pages : pg[q] # NoFrame /\ pg[q] = pg[r] => q = r
  /\ \A t \in Tables, q \in Pages : tb[t] # NoFrame => tb[t] # pg[q]
  /\ h # NoFrame => (\A t \in Tables : tb[t] # h) /\ (\A q \in Pages : pg[q] # h)

Has(tb, pg, h, f) ==
  /\ f # NoFrame
  /\ \/ \E t \in Tables : tb[t] = f
     \/ \E q \in Pages : pg[q] = f
     \/ h = f

Owns(p, f) == Has(tables[p], pages[p], held[p], f)

FrameInv ==
  /\ FrameTypes
  /\ \A p \in Procs : UsedOnce(tables[p], pages[p], held[p])
  /\ \A p, r \in Procs, f \in FrameOrNone : Owns(p, f) /\ Owns(r, f) => p = r
  /\ \A p \in Procs, f \in FrameOrNone : Owns(p, f) => f < next

\* allocate_frame hands out what is left and no more.
LEMMA AllocatedCount ==
  ASSUME next \in 0 .. Frames, NEW n \in Nat
  PROVE  /\ Allocated(n) \in 0 .. Frames
         /\ next <= Allocated(n)
         /\ \A f \in 0 .. Frames - 1 : f < next + n => f < Allocated(n)
<1> DEFINE A == {next + n, Frames}
<1>1. Frames \in Nat /\ next \in Nat
  BY Constants
<1>2. A \in SUBSET Nat /\ A # {}
  BY <1>1
<1>3. Min(A) \in A /\ \A y \in A : Min(A) <= y
  BY <1>2, LeastOf, Zenon
<1>4. Allocated(n) = Min(A)
  BY Zenon DEF Allocated
<1> QED
  BY <1>1, <1>3, <1>4

\* A step that changes one address space, which gets new frames only, keeps the
\* invariant when no frame is twice in it.
LEMMA OneSpaceChanges ==
  ASSUME FrameInv, NEW p \in Procs,
         NEW tb \in [Tables -> FrameOrNone], NEW pg \in [Pages -> FrameOrNone],
         NEW h \in FrameOrNone,
         tables' = [tables EXCEPT ![p] = tb],
         pages' = [pages EXCEPT ![p] = pg],
         held' = [held EXCEPT ![p] = h],
         next' \in 0 .. Frames, next <= next',
         UsedOnce(tb, pg, h),
         \A f \in FrameOrNone : Has(tb, pg, h, f) =>
           f < next' /\ (Owns(p, f) \/ next <= f)
  PROVE  FrameInv'
<1>1. FrameTypes
  BY Zenon DEF FrameInv
<1>2. FrameTypes'
  BY <1>1, Zenon DEF FrameTypes
<1>3. /\ tables'[p] = tb /\ pages'[p] = pg /\ held'[p] = h
      /\ \A r \in Procs : r # p => /\ tables'[r] = tables[r]
                                   /\ pages'[r] = pages[r]
                                   /\ held'[r] = held[r]
  BY <1>1, Zenon DEF FrameTypes
<1>4. \A r \in Procs : UsedOnce(tables'[r], pages'[r], held'[r])
  BY <1>3, Zenon DEF FrameInv
<1>5. /\ \A f \in FrameOrNone : Owns(p, f)' => Has(tb, pg, h, f)
      /\ \A r \in Procs, f \in FrameOrNone : r # p /\ Owns(r, f)' => Owns(r, f)
  BY <1>3, Zenon DEF Owns
<1>6. \A r \in Procs, f \in FrameOrNone : Owns(r, f) => f < next
  BY Zenon DEF FrameInv
<1>7. next \in Int /\ next' \in Int /\ \A f \in FrameOrNone : f \in Int
  BY <1>1, Constants DEF FrameTypes, FrameOrNone, NoFrame
<1>8. \A r \in Procs, f \in FrameOrNone : Owns(r, f)' => f < next'
  BY <1>5, <1>6, <1>7
<1>9. \A r, s \in Procs, f \in FrameOrNone : Owns(r, f)' /\ Owns(s, f)' => r = s
  <2> SUFFICES ASSUME NEW r \in Procs, NEW s \in Procs, NEW f \in FrameOrNone,
                      Owns(r, f)', Owns(s, f)', r # s
               PROVE  FALSE
    BY Zenon
  <2>1. \A u, v \in Procs : Owns(u, f) /\ Owns(v, f) => u = v
    BY Zenon DEF FrameInv
  <2>2. CASE r # p /\ s # p
    BY <1>5, <2>1, <2>2, Zenon
  <2>3. CASE r = p
    BY <1>5, <1>6, <1>7, <2>1, <2>3
  <2>4. CASE s = p
    BY <1>5, <1>6, <1>7, <2>1, <2>4
  <2> QED
    BY <2>2, <2>3, <2>4, Zenon
<1> QED
  BY <1>2, <1>4, <1>8, <1>9, Zenon DEF FrameInv

\* What the invariant says of one address space.
LEMMA OneSpace ==
  ASSUME FrameInv, NEW p \in Procs
  PROVE  /\ tables[p] \in [Tables -> FrameOrNone]
         /\ pages[p] \in [Pages -> FrameOrNone]
         /\ held[p] \in FrameOrNone
         /\ next \in 0 .. Frames /\ next \in Nat /\ Frames \in Nat
         /\ UsedOnce(tables[p], pages[p], held[p])
         /\ \A t \in Tables : tables[p][t] < next
         /\ \A q \in Pages : pages[p][q] < next
         /\ held[p] < next
<1>1. /\ tables[p] \in [Tables -> FrameOrNone]
      /\ pages[p] \in [Pages -> FrameOrNone]
      /\ held[p] \in FrameOrNone
      /\ next \in 0 .. Frames /\ next \in Nat /\ Frames \in Nat
      /\ UsedOnce(tables[p], pages[p], held[p])
  BY Constants DEF FrameInv, FrameTypes
<1>2. \A f \in FrameOrNone : f = NoFrame \/ ~Owns(p, f) \/ f < next
  BY Zenon DEF FrameInv
<1>3. NoFrame < next
  BY <1>1 DEF NoFrame
<1>4. \A t \in Tables : tables[p][t] < next
  BY <1>1, <1>2, <1>3, Zenon DEF Owns, Has
<1>5. \A q \in Pages : pages[p][q] < next
  BY <1>1, <1>2, <1>3, Zenon DEF Owns, Has
<1>6. held[p] < next
  BY <1>1, <1>2, <1>3, Zenon DEF Owns, Has
<1> QED
  BY <1>1, <1>4, <1>5, <1>6, Zenon

\* A frame number at or above next is in no place yet.
LEMMA NewIsUnused ==
  ASSUME FrameInv, NEW p \in Procs, NEW f \in Int, next <= f
  PROVE  /\ \A t \in Tables : tables[p][t] # f
         /\ \A q \in Pages : pages[p][q] # f
         /\ held[p] # f
         /\ f # NoFrame
<1>1. /\ \A t \in Tables : tables[p][t] < next /\ tables[p][t] \in Int
      /\ \A q \in Pages : pages[p][q] < next /\ pages[p][q] \in Int
      /\ held[p] < next /\ held[p] \in Int
      /\ next \in Nat
  BY OneSpace DEF FrameOrNone, NoFrame
<1> QED
  BY <1>1 DEF NoFrame

\* AddressSpace::new_user
LEMMA NewUserFrames ==
  ASSUME FrameInv, NEW p \in Procs, NEW image, NewUser(p, image)
  PROVE  FrameInv'
<1>1. next' = Allocated(1) /\ UNCHANGED <<pages, held>>
  BY Zenon DEF NewUser
<1>2. /\ tables[p] \in [Tables -> FrameOrNone]
      /\ pages[p] \in [Pages -> FrameOrNone]
      /\ held[p] \in FrameOrNone
      /\ next \in 0 .. Frames /\ next \in Nat /\ Frames \in Nat
      /\ UsedOnce(tables[p], pages[p], held[p])
      /\ FrameTypes
  BY OneSpace, Zenon DEF FrameInv
<1>3. /\ Allocated(1) \in 0 .. Frames
      /\ next <= Allocated(1)
      /\ \A f \in 0 .. Frames - 1 : f < next + 1 => f < Allocated(1)
  BY <1>2, AllocatedCount, Zenon
<1> DEFINE tb == IF next < Frames THEN [tables[p] EXCEPT ![0] = next] ELSE tables[p]
<1>4. tables' = [tables EXCEPT ![p] = tb]
  <2>1. CASE next < Frames
    BY <2>1, Zenon DEF NewUser
  <2>2. CASE ~(next < Frames)
    <3>1. UNCHANGED tables
      BY <2>2, Zenon DEF NewUser
    <3> QED
      BY <1>2, <2>2, <3>1, Zenon DEF FrameTypes
  <2> QED
    BY <2>1, <2>2, Zenon
<1>5. tb \in [Tables -> FrameOrNone]
  <2>1. next < Frames => next \in FrameOrNone
    BY <1>2 DEF FrameOrNone
  <2> QED
    BY <1>2, <2>1, Zenon
<1>6. \A t \in Tables : tb[t] = tables[p][t] \/ (t = 0 /\ tb[t] = next /\ next < Frames)
  BY <1>2, Zenon
<1> HIDE DEF tb
<1>7. /\ \A t \in Tables : tables[p][t] # next
      /\ \A q \in Pages : pages[p][q] # next
      /\ held[p] # next
  BY <1>2, NewIsUnused
<1>8. UsedOnce(tb, pages[p], held[p])
  BY <1>2, <1>6, <1>7, Zenon DEF UsedOnce
<1>9. \A f \in FrameOrNone : Has(tb, pages[p], held[p], f) =>
        f < next' /\ (Owns(p, f) \/ next <= f)
  <2> SUFFICES ASSUME NEW f \in FrameOrNone, Has(tb, pages[p], held[p], f)
               PROVE  f < next' /\ (Owns(p, f) \/ next <= f)
    BY Zenon
  <2>1. Owns(p, f) \/ (f = next /\ next < Frames)
    BY <1>6, Zenon DEF Has, Owns
  <2>2. Owns(p, f) => f < next
    BY Zenon DEF FrameInv
  <2> QED
    BY <1>1, <1>2, <1>3, <2>1, <2>2 DEF FrameOrNone, NoFrame
<1>10. pages' = [pages EXCEPT ![p] = pages[p]] /\ held' = [held EXCEPT ![p] = held[p]]
  BY <1>1, <1>2, Zenon DEF FrameTypes
<1> QED
  BY <1>1, <1>2, <1>3, <1>4, <1>5, <1>8, <1>9, <1>10, OneSpaceChanges, Zenon

\* The first critical section of map_zeroed_user_page.
LEMMA AllocatePageFrames ==
  ASSUME FrameInv, NEW p \in Procs, AllocatePage(p)
  PROVE  FrameInv'
<1>1. /\ next' = Allocated(1)
      /\ UNCHANGED <<tables, pages>>
      /\ held[p] = NoFrame
  BY Zenon DEF AllocatePage
<1>2. /\ tables[p] \in [Tables -> FrameOrNone]
      /\ pages[p] \in [Pages -> FrameOrNone]
      /\ held[p] \in FrameOrNone
      /\ next \in 0 .. Frames /\ next \in Nat /\ Frames \in Nat
      /\ UsedOnce(tables[p], pages[p], held[p])
      /\ FrameTypes
  BY OneSpace, Zenon DEF FrameInv
<1>3. /\ Allocated(1) \in 0 .. Frames
      /\ next <= Allocated(1)
      /\ \A f \in 0 .. Frames - 1 : f < next + 1 => f < Allocated(1)
  BY <1>2, AllocatedCount, Zenon
<1> DEFINE h == IF next < Frames THEN next ELSE held[p]
<1>4. held' = [held EXCEPT ![p] = h]
  <2>1. CASE next < Frames
    BY <2>1, Zenon DEF AllocatePage
  <2>2. CASE ~(next < Frames)
    <3>1. UNCHANGED held
      BY <2>2, Zenon DEF AllocatePage
    <3> QED
      BY <1>2, <2>2, <3>1, Zenon DEF FrameTypes
  <2> QED
    BY <2>1, <2>2, Zenon
<1>5. h \in FrameOrNone /\ (h = NoFrame \/ (h = next /\ next < Frames))
  BY <1>1, <1>2 DEF FrameOrNone
<1> HIDE DEF h
<1>6. /\ \A t \in Tables : tables[p][t] # next
      /\ \A q \in Pages : pages[p][q] # next
  BY <1>2, NewIsUnused
<1>7. UsedOnce(tables[p], pages[p], h)
  BY <1>2, <1>5, <1>6, Zenon DEF UsedOnce
<1>8. \A f \in FrameOrNone : Has(tables[p], pages[p], h, f) =>
        f < next' /\ (Owns(p, f) \/ next <= f)
  <2> SUFFICES ASSUME NEW f \in FrameOrNone, Has(tables[p], pages[p], h, f)
               PROVE  f < next' /\ (Owns(p, f) \/ next <= f)
    BY Zenon
  <2>1. Owns(p, f) \/ (f = next /\ next < Frames)
    BY <1>5, Zenon DEF Has, Owns
  <2>2. Owns(p, f) => f < next
    BY Zenon DEF FrameInv
  <2> QED
    BY <1>1, <1>2, <1>3, <2>1, <2>2 DEF FrameOrNone, NoFrame
<1>9. tables' = [tables EXCEPT ![p] = tables[p]] /\ pages' = [pages EXCEPT ![p] = pages[p]]
  BY <1>1, <1>2, Zenon DEF FrameTypes
<1> QED
  BY <1>1, <1>2, <1>3, <1>4, <1>5, <1>7, <1>8, <1>9, OneSpaceChanges, Zenon

\* The frame map_frame finds for table t of the missing ones: they are made in
\* the order of their numbers.
Numbered(M, t) == next + Cardinality({u \in M : u < t})

\* The frames of the tables that map_frame makes for one page.
LEMMA LoaderTableFrames ==
  ASSUME NEW p, NEW q \in Pages, next \in Nat,
         NEW M, M = Missing(p, {q})
  PROVE  /\ Cardinality(M) \in Nat
         /\ \A t \in M : /\ Numbered(M, t) \in Nat
                         /\ next <= Numbered(M, t)
                         /\ Numbered(M, t) < next + Cardinality(M)
         /\ \A t, v \in M : Numbered(M, t) = Numbered(M, v) => t = v
<1> DEFINE lower(t) == {u \in M : u < t}
<1>1. {q} \in SUBSET Pages
  BY Zenon
<1>2. M \in SUBSET Nat
  BY <1>1, MissingTables, Zenon
<1>3. /\ Cardinality(M) \in Nat
      /\ \A A \in SUBSET M : Cardinality(A) \in Nat
      /\ \A A, B \in SUBSET M : A \subseteq B =>
           /\ Cardinality(A) <= Cardinality(B)
           /\ A # B => Cardinality(A) < Cardinality(B)
  BY <1>1, PartSizes
<1>4. \A t \in M : lower(t) \in SUBSET M /\ lower(t) # M
  BY <1>2
<1>5. \A t, v \in M : t < v => lower(t) \subseteq lower(v) /\ lower(t) # lower(v)
  <2> SUFFICES ASSUME NEW t \in M, NEW v \in M, t < v
               PROVE  lower(t) \subseteq lower(v) /\ lower(t) # lower(v)
    BY Zenon
  <2>1. \A u \in M : u < t => u < v
    BY <1>2
  <2>2. t \in lower(v) /\ t \notin lower(t)
    BY <1>2
  <2> QED
    BY <2>1, <2>2, Zenon
<1> HIDE DEF lower
<1>6. \A t \in M : /\ Cardinality(lower(t)) \in Nat
                   /\ Cardinality(lower(t)) < Cardinality(M)
  BY <1>3, <1>4, Zenon
<1>7. \A t, v \in M : t < v => Cardinality(lower(t)) < Cardinality(lower(v))
  BY <1>3, <1>4, <1>5, Zenon
<1>8. \A t, v \in M : t < v \/ t = v \/ v < t
  BY <1>2
<1>9. \A t \in M : Numbered(M, t) = next + Cardinality(lower(t))
  BY Zenon DEF Numbered, lower
<1>10. \A t, v \in M : Numbered(M, t) = Numbered(M, v) => t = v
  <2> SUFFICES ASSUME NEW t \in M, NEW v \in M, Numbered(M, t) = Numbered(M, v)
               PROVE  t = v
    BY Zenon
  <2>1. /\ Cardinality(lower(t)) \in Nat /\ Cardinality(lower(v)) \in Nat
        /\ next + Cardinality(lower(t)) = next + Cardinality(lower(v))
    BY <1>6, <1>9, Zenon
  <2>2. Cardinality(lower(t)) = Cardinality(lower(v))
    BY <2>1
  <2>3. ~(t < v) /\ ~(v < t)
    BY <1>7, <2>1, <2>2
  <2> QED
    BY <1>8, <2>3, Zenon
<1>11. \A t \in M : /\ Numbered(M, t) \in Nat
                    /\ next <= Numbered(M, t)
                    /\ Numbered(M, t) < next + Cardinality(M)
  <2> SUFFICES ASSUME NEW t \in M
               PROVE  /\ Numbered(M, t) \in Nat
                      /\ next <= Numbered(M, t)
                      /\ Numbered(M, t) < next + Cardinality(M)
    BY Zenon
  <2> DEFINE c == Cardinality(lower(t))
             m == Cardinality(M)
  <2>1. c \in Nat /\ m \in Nat /\ c < m /\ Numbered(M, t) = next + c
    BY <1>3, <1>6, <1>9, Zenon
  <2> HIDE DEF c, m
  <2>2. next + c \in Nat /\ next <= next + c /\ next + c < next + m
    BY <2>1
  <2> QED
    BY <2>1, <2>2, Zenon DEF m
<1> QED
  BY <1>3, <1>10, <1>11, Zenon

\* The second critical section: map_frame moves the held frame to its page and
\* takes new frames for the tables on the way.
LEMMA MapFrameFrames ==
  ASSUME FrameInv, NEW p \in Procs, NEW q \in Pages, MapFrame(p, q)
  PROVE  FrameInv'
<1> DEFINE M == Missing(p, {q})
           frame(t) == Numbered(M, t)
           ok == next + Cardinality(M) <= Frames /\ pages[p][q] = NoFrame
           tb == [t \in Tables |-> IF t \in M /\ frame(t) < Frames
                                   THEN frame(t) ELSE tables[p][t]]
           pg == IF ok THEN [pages[p] EXCEPT ![q] = held[p]] ELSE pages[p]
<1>1. /\ next' = Allocated(Cardinality(M))
      /\ tables' = [tables EXCEPT ![p] = tb]
      /\ held' = [held EXCEPT ![p] = NoFrame]
      /\ held[p] # NoFrame
      /\ IF ok THEN pages' = [pages EXCEPT ![p][q] = held[p]] ELSE UNCHANGED pages
  BY Zenon DEF MapFrame, Numbered
<1>2. /\ tables[p] \in [Tables -> FrameOrNone]
      /\ pages[p] \in [Pages -> FrameOrNone]
      /\ held[p] \in FrameOrNone
      /\ next \in 0 .. Frames /\ next \in Nat /\ Frames \in Nat
      /\ UsedOnce(tables[p], pages[p], held[p])
      /\ FrameTypes
  BY OneSpace, Zenon DEF FrameInv
<1>3. /\ Cardinality(M) \in Nat
      /\ \A t \in M : /\ frame(t) \in Nat
                      /\ next <= frame(t)
                      /\ frame(t) < next + Cardinality(M)
      /\ \A t, v \in M : frame(t) = frame(v) => t = v
  BY <1>2, LoaderTableFrames, Zenon
<1>4. pages' = [pages EXCEPT ![p] = pg]
  BY <1>1, <1>2, Zenon DEF FrameTypes
<1>5. pg \in [Pages -> FrameOrNone]
      /\ \A r \in Pages : pg[r] = pages[p][r] \/ (r = q /\ pg[r] = held[p])
  BY <1>2, Zenon
<1> HIDE DEF frame, M
<1>6. \A t \in Tables : \/ tb[t] = tables[p][t]
                        \/ t \in M /\ tb[t] = frame(t) /\ frame(t) < Frames
  BY Zenon
<1>7. tb \in [Tables -> FrameOrNone]
  <2>1. \A t \in M : frame(t) < Frames => frame(t) \in FrameOrNone
    BY <1>2, <1>3 DEF FrameOrNone
  <2> QED
    BY <1>2, <2>1, Zenon
<1> HIDE DEF tb, pg
<1>8. \A t \in M : /\ \A s \in Tables : tables[p][s] # frame(t)
                   /\ \A r \in Pages : pages[p][r] # frame(t)
                   /\ held[p] # frame(t)
                   /\ frame(t) # NoFrame
  BY <1>3, NewIsUnused
<1>9. UsedOnce(tb, pg, NoFrame)
  <2>1. \A s, t \in Tables : tb[s] # NoFrame /\ tb[s] = tb[t] => s = t
    BY <1>2, <1>3, <1>6, <1>8 DEF UsedOnce
  <2>2. \A r, s \in Pages : pg[r] # NoFrame /\ pg[r] = pg[s] => r = s
    BY <1>1, <1>2, <1>5 DEF UsedOnce
  <2>3. \A t \in Tables, r \in Pages : tb[t] # NoFrame => tb[t] # pg[r]
    BY <1>1, <1>2, <1>5, <1>6, <1>8 DEF UsedOnce
  <2> QED
    BY <2>1, <2>2, <2>3, Zenon DEF UsedOnce
<1>10. /\ Allocated(Cardinality(M)) \in 0 .. Frames
       /\ next <= Allocated(Cardinality(M))
       /\ \A f \in 0 .. Frames - 1 :
            f < next + Cardinality(M) => f < Allocated(Cardinality(M))
  BY <1>2, <1>3, AllocatedCount, Zenon
<1>11. \A f \in FrameOrNone : Has(tb, pg, NoFrame, f) =>
         f < next' /\ (Owns(p, f) \/ next <= f)
  <2> SUFFICES ASSUME NEW f \in FrameOrNone, Has(tb, pg, NoFrame, f)
               PROVE  f < next' /\ (Owns(p, f) \/ next <= f)
    BY Zenon
  <2>1. Owns(p, f) \/ \E t \in M : f = frame(t)
    BY <1>5, <1>6, Zenon DEF Has, Owns
  <2>2. Owns(p, f) => f < next
    BY Zenon DEF FrameInv
  <2>3. f # NoFrame
    BY Zenon DEF Has
  <2> QED
    BY <1>1, <1>2, <1>3, <1>10, <2>1, <2>2, <2>3 DEF FrameOrNone
<1>12. NoFrame \in FrameOrNone
  BY Zenon DEF FrameOrNone
<1> QED
  BY <1>1, <1>4, <1>5, <1>7, <1>9, <1>10, <1>11, <1>12, OneSpaceChanges, Zenon

\* What sys_brk_current leaves in the page tables: every page is as it was, is
\* unmapped, or has the frame it got on the way to a growth that succeeds.
LEMMA BrkPages ==
  ASSUME NEW p \in Procs, NEW requested, SysBrk(p, requested),
         NEW grow, grow = GrowPages(p, requested),
         NEW tried, tried = Attempted(p, grow),
         FrameTypes
  PROVE  /\ tried \in SUBSET Pages
         /\ \E pg \in [Pages -> Int] :
              /\ pages' = [pages EXCEPT ![p] = pg]
              /\ \A q \in Pages :
                   \/ pg[q] = NoFrame
                   \/ pg[q] = pages[p][q]
                   \/ /\ q \in tried
                      /\ pg[q] = PageFrame(p, tried, q)
                      /\ next + FramesFor(p, tried) <= Frames
<1> DEFINE gone == Unmapped(p, ShrinkPages(p, requested))
           mapped == MapUserHeapPages(p, grow)
           pg == [q \in Pages |-> IF q \in gone THEN NoFrame ELSE mapped[q]]
<1>1. pages' = [pages EXCEPT ![p] = pg]
  BY Zenon DEF SysBrk
<1>2. grow \in SUBSET Pages /\ tried \in SUBSET Pages
  BY Zenon DEF GrowPages, PageRange, Attempted
<1>3. MapSucceeds(p, grow) => tried = grow /\ next + FramesFor(p, grow) <= Frames
  BY Zenon DEF MapSucceeds, Attempted
<1>4. \A q \in Pages : mapped[q] = IF q \in grow /\ MapSucceeds(p, grow)
                                   THEN PageFrame(p, grow, q) ELSE pages[p][q]
  BY Zenon DEF MapUserHeapPages
<1> HIDE DEF gone, mapped
<1>5. \A q \in Pages :
        \/ pg[q] = NoFrame
        \/ pg[q] = pages[p][q]
        \/ /\ q \in tried
           /\ pg[q] = PageFrame(p, tried, q)
           /\ next + FramesFor(p, tried) <= Frames
  BY <1>3, <1>4, Zenon
<1>6. pages[p] \in [Pages -> Int] /\ next \in Nat
  BY Constants DEF FrameTypes, FrameOrNone, NoFrame
<1>7. \A q \in tried : PageFrame(p, tried, q) \in Int
  BY <1>2, <1>6, FramesAreNew
<1>8. \A q \in Pages : pg[q] \in Int
  BY <1>5, <1>6, <1>7 DEF NoFrame
<1>9. pg \in [Pages -> Int]
  BY <1>8, Zenon
<1> QED
  BY <1>1, <1>2, <1>5, <1>9, Zenon

\* sys_brk_current
LEMMA SysBrkFrames ==
  ASSUME FrameInv, NEW p \in Procs, NEW requested, SysBrk(p, requested)
  PROVE  FrameInv'
<1> DEFINE grow == GrowPages(p, requested)
           S == Attempted(p, grow)
           M == Missing(p, S)
           frame(t) == TableFrame(p, S, t)
           new(q) == PageFrame(p, S, q)
           n == FramesFor(p, S)
           tb == TablesAfterMap(p, S)
<1>1. /\ next' = Allocated(n)
      /\ tables' = [tables EXCEPT ![p] = tb]
      /\ held' = held
  BY Zenon DEF SysBrk
<1>2. /\ tables[p] \in [Tables -> FrameOrNone]
      /\ pages[p] \in [Pages -> FrameOrNone]
      /\ held[p] \in FrameOrNone
      /\ next \in 0 .. Frames /\ next \in Nat /\ Frames \in Nat
      /\ UsedOnce(tables[p], pages[p], held[p])
      /\ FrameTypes
  BY OneSpace DEF FrameInv
<1>3. S \in SUBSET Pages
  BY <1>2, BrkPages
<1>4. PICK pg \in [Pages -> Int] :
        /\ pages' = [pages EXCEPT ![p] = pg]
        /\ \A q \in Pages : \/ pg[q] = NoFrame
                            \/ pg[q] = pages[p][q]
                            \/ q \in S /\ pg[q] = new(q) /\ next + n <= Frames
  BY <1>2, BrkPages
<1>5. \A t \in Tables : \/ tb[t] = tables[p][t]
                        \/ t \in M /\ tb[t] = frame(t) /\ frame(t) < Frames
  BY Zenon DEF TablesAfterMap
<1>6. tb = [t \in Tables |-> tb[t]]
  BY Zenon DEF TablesAfterMap
<1>7. /\ n \in Nat
      /\ \A q \in S : new(q) \in Nat /\ next <= new(q) /\ new(q) < next + n
      /\ \A t \in M : frame(t) \in Nat /\ next <= frame(t) /\ frame(t) < next + n
  BY <1>2, <1>3, FramesAreNew, Zenon
<1>8. \A q \in S, t \in M : new(q) # frame(t)
  BY <1>2, <1>3, PageAndTableFramesDiffer, Zenon
<1>9. \A q, r \in S : new(q) = new(r) => q = r
  <2>1. \A q, r \in S : q < r => new(q) < new(r)
    BY <1>2, <1>3, PageFramesDiffer, Zenon
  <2>2. S \in SUBSET Nat
    BY <1>3, PagesAreFinite, Zenon
  <2> HIDE DEF new, S
  <2>3. \A q, r \in S : q < r \/ q = r \/ r < q
    BY <2>2
  <2> QED
    BY <1>7, <2>1, <2>3
<1>10. \A t, u \in M : frame(t) = frame(u) => t = u
  <2>1. \A t, u \in M : t < u => frame(t) < frame(u)
    BY <1>2, <1>3, TableFramesDiffer, Zenon
  <2>2. M \in SUBSET Nat
    BY <1>3, MissingTables, Zenon
  <2> HIDE DEF frame, M
  <2>3. \A t, u \in M : t < u \/ t = u \/ u < t
    BY <2>2
  <2> QED
    BY <1>7, <2>1, <2>3
<1> HIDE DEF S, M, frame, new, n, tb
<1>11. tb \in [Tables -> FrameOrNone]
  <2>1. \A t \in M : frame(t) < Frames => frame(t) \in FrameOrNone
    BY <1>2, <1>7 DEF FrameOrNone
  <2>2. \A t \in Tables : tb[t] \in FrameOrNone
    BY <1>2, <1>5, <2>1, Zenon
  <2> QED
    BY <1>6, <2>2, Zenon
<1>12. pg \in [Pages -> FrameOrNone]
  <2>1. \A q \in S : next + n <= Frames => new(q) \in FrameOrNone
    BY <1>2, <1>7 DEF FrameOrNone
  <2>2. NoFrame \in FrameOrNone
    BY Zenon DEF FrameOrNone
  <2>3. \A q \in Pages : pg[q] \in FrameOrNone
    BY <1>2, <1>4, <2>1, <2>2, Zenon
  <2> QED
    BY <2>3, Zenon
<1>13. /\ \A t \in M : /\ \A s \in Tables : tables[p][s] # frame(t)
                       /\ \A r \in Pages : pages[p][r] # frame(t)
                       /\ held[p] # frame(t)
                       /\ frame(t) # NoFrame
       /\ \A q \in S : /\ \A s \in Tables : tables[p][s] # new(q)
                       /\ \A r \in Pages : pages[p][r] # new(q)
                       /\ held[p] # new(q)
                       /\ new(q) # NoFrame
  BY <1>7, NewIsUnused
<1>14. UsedOnce(tb, pg, held[p])
  <2>1. \A s, t \in Tables : tb[s] # NoFrame /\ tb[s] = tb[t] => s = t
    BY <1>2, <1>5, <1>10, <1>13, SMTT(60) DEF UsedOnce
  <2>2. \A q, r \in Pages : pg[q] # NoFrame /\ pg[q] = pg[r] => q = r
    BY <1>2, <1>4, <1>9, <1>13, SMTT(60) DEF UsedOnce
  <2>3. \A t \in Tables, q \in Pages : tb[t] # NoFrame => tb[t] # pg[q]
    BY <1>2, <1>4, <1>5, <1>8, <1>13, SMTT(60) DEF UsedOnce
  <2>4. held[p] # NoFrame => /\ \A t \in Tables : tb[t] # held[p]
                             /\ \A q \in Pages : pg[q] # held[p]
    BY <1>2, <1>4, <1>5, <1>13, Zenon DEF UsedOnce
  <2> QED
    BY <2>1, <2>2, <2>3, <2>4, Zenon DEF UsedOnce
<1>15. /\ Allocated(n) \in 0 .. Frames
       /\ next <= Allocated(n)
       /\ \A f \in 0 .. Frames - 1 : f < next + n => f < Allocated(n)
  BY <1>2, <1>7, AllocatedCount, Zenon
<1>16. \A f \in FrameOrNone : Has(tb, pg, held[p], f) =>
         f < next' /\ (Owns(p, f) \/ next <= f)
  <2> SUFFICES ASSUME NEW f \in FrameOrNone, Has(tb, pg, held[p], f)
               PROVE  f < next' /\ (Owns(p, f) \/ next <= f)
    BY Zenon
  <2>1. Owns(p, f) \/ (\E t \in M : f = frame(t)) \/ (\E q \in S : f = new(q))
    BY <1>4, <1>5, Zenon DEF Has, Owns
  <2>2. Owns(p, f) => f < next
    BY Zenon DEF FrameInv
  <2>3. f # NoFrame
    BY Zenon DEF Has
  <2> QED
    BY <1>1, <1>2, <1>7, <1>15, <2>1, <2>2, <2>3, SMTT(60) DEF FrameOrNone
<1>17. held' = [held EXCEPT ![p] = held[p]]
  BY <1>1, <1>2, Zenon DEF FrameTypes
<1> QED
  BY <1>1, <1>2, <1>4, <1>11, <1>12, <1>14, <1>15, <1>16, <1>17, OneSpaceChanges, Zenon

-----------------------------------------------------------------------------
(***************************************************************************)
(* The theorem.                                                            *)
(***************************************************************************)

\* Nothing is handed out before the first loader runs.
LEMMA InitFrames == Init => FrameInv
<1> SUFFICES ASSUME Init PROVE FrameInv
  BY Zenon
<1>1. NoFrame \in FrameOrNone
  BY Zenon DEF FrameOrNone
<1>2. FrameTypes
  BY <1>1, Constants DEF Init, FrameTypes
<1>3. \A p \in Procs : /\ \A t \in Tables : tables[p][t] = NoFrame
                       /\ \A q \in Pages : pages[p][q] = NoFrame
                       /\ held[p] = NoFrame
  BY Zenon DEF Init
<1>4. \A p \in Procs : UsedOnce(tables[p], pages[p], held[p])
  BY <1>3, Zenon DEF UsedOnce
<1>5. \A p \in Procs, f \in FrameOrNone : ~ Owns(p, f)
  BY <1>3 DEF Owns, Has
<1> QED
  BY <1>2, <1>4, <1>5, Zenon DEF FrameInv

\* Every step keeps the invariant.
LEMMA NextFrames == FrameInv /\ [Next]_vars => FrameInv'
<1> SUFFICES ASSUME FrameInv, [Next]_vars PROVE FrameInv'
  BY Zenon
<1>1. ASSUME UNCHANGED <<tables, pages, held, next>> PROVE FrameInv'
  BY <1>1, Zenon DEF FrameInv, FrameTypes, Owns
<1>2. CASE UNCHANGED vars
  BY <1>1, <1>2, Zenon DEF vars
<1>3. CASE Next
  <2>1. PICK p \in Procs :
          \/ \E image \in Images : NewUser(p, image)
          \/ AllocatePage(p)
          \/ \E q \in Pages : MapFrame(p, q)
          \/ Spawn(p)
          \/ End(p)
          \/ \E requested \in 0 .. Limit + 1 : SysBrk(p, requested)
    BY <1>3, Zenon DEF Next
  <2>2. CASE \E image \in Images : NewUser(p, image)
    BY <2>2, NewUserFrames, Zenon
  <2>3. CASE AllocatePage(p)
    BY <2>3, AllocatePageFrames, Zenon
  <2>4. CASE \E q \in Pages : MapFrame(p, q)
    BY <2>4, MapFrameFrames, Zenon
  <2>5. CASE Spawn(p)
    BY <1>1, <2>5, Zenon DEF Spawn
  <2>6. CASE End(p)
    BY <1>1, <2>6 DEF End
  <2>7. CASE \E requested \in 0 .. Limit + 1 : SysBrk(p, requested)
    BY <2>7, SysBrkFrames, Zenon
  <2> QED
    BY <2>1, <2>2, <2>3, <2>4, <2>5, <2>6, <2>7
<1> QED
  BY <1>2, <1>3, Zenon

\* A place is a table, a page or a loader's hands, and holds what is there.
LEMMA PlaceKinds ==
  ASSUME NEW x \in FramePlaces
  PROVE  /\ x[1] \in Procs
         /\ FrameAt(x) # NoFrame
         /\ \/ \E t \in Tables : /\ x = <<x[1], <<"table", t>>>>
                                 /\ FrameAt(x) = tables[x[1]][t]
            \/ \E q \in Pages : /\ x = <<x[1], <<"page", q>>>>
                                /\ FrameAt(x) = pages[x[1]][q]
            \/ /\ x = <<x[1], <<"held", 0>>>>
               /\ FrameAt(x) = held[x[1]]
<1>1. /\ x \in Procs \X ({"table"} \X Tables \union {"page"} \X Pages
                           \union {<<"held", 0>>})
      /\ FrameAt(x) # NoFrame
  BY Zenon DEF FramePlaces
<1>2. /\ x = <<x[1], x[2]>> /\ x[1] \in Procs
      /\ \/ x[2] \in {"table"} \X Tables
         \/ x[2] \in {"page"} \X Pages
         \/ x[2] = <<"held", 0>>
  BY <1>1
<1>3. CASE x[2] \in {"table"} \X Tables
  <2>1. PICK t \in Tables : x[2] = <<"table", t>>
    BY <1>3
  <2>2. x[2][1] = "table" /\ x[2][2] = t
    BY <2>1
  <2> QED
    BY <1>1, <1>2, <2>1, <2>2, Zenon DEF FrameAt
<1>4. CASE x[2] \in {"page"} \X Pages
  <2>1. PICK q \in Pages : x[2] = <<"page", q>>
    BY <1>4
  <2>2. x[2][1] = "page" /\ x[2][2] = q
    BY <2>1
  <2> QED
    BY <1>1, <1>2, <2>1, <2>2, Zenon DEF FrameAt
<1>5. CASE x[2] = <<"held", 0>>
  <2>1. x[2][1] = "held"
    BY <1>5
  <2> QED
    BY <1>1, <1>2, <1>5, <2>1, Zenon DEF FrameAt
<1> QED
  BY <1>2, <1>3, <1>4, <1>5, Zenon

\* The invariant says what FramesArePrivate says by counting.
LEMMA FramesCounted == FrameInv => FramesArePrivate
<1> SUFFICES ASSUME FrameInv PROVE FramesArePrivate
  BY Zenon
<1> DEFINE used == {FrameAt(x) : x \in FramePlaces}
           at == [x \in FramePlaces |-> FrameAt(x)]
<1>1. \A x \in FramePlaces : FrameAt(x) \in FrameOrNone /\ Owns(x[1], FrameAt(x))
  <2> SUFFICES ASSUME NEW x \in FramePlaces
               PROVE  FrameAt(x) \in FrameOrNone /\ Owns(x[1], FrameAt(x))
    BY Zenon
  <2>1. x[1] \in Procs
    BY PlaceKinds, Zenon
  <2>2. /\ tables[x[1]] \in [Tables -> FrameOrNone]
        /\ pages[x[1]] \in [Pages -> FrameOrNone]
        /\ held[x[1]] \in FrameOrNone
    BY <2>1, OneSpace, Zenon
  <2> QED
    BY <2>2, PlaceKinds, Zenon DEF Owns, Has
<1>2. \A x, y \in FramePlaces : FrameAt(x) = FrameAt(y) => x = y
  <2> SUFFICES ASSUME NEW x \in FramePlaces, NEW y \in FramePlaces,
                      FrameAt(x) = FrameAt(y)
               PROVE  x = y
    BY Zenon
  <2>1. x[1] \in Procs /\ y[1] \in Procs /\ FrameAt(x) # NoFrame
    BY PlaceKinds, Zenon
  <2>2. x[1] = y[1]
    BY <1>1, <2>1, Zenon DEF FrameInv
  <2>3. UsedOnce(tables[x[1]], pages[x[1]], held[x[1]])
    BY <2>1, Zenon DEF FrameInv
  <2> DEFINE place(kind, i) == <<x[1], <<kind, i>>>>
             tb == tables[x[1]]
             pg == pages[x[1]]
             h == held[x[1]]
             f == FrameAt(x)
             Is(z) == \/ \E t \in Tables : z = place("table", t) /\ f = tb[t]
                      \/ \E q \in Pages : z = place("page", q) /\ f = pg[q]
                      \/ z = place("held", 0) /\ f = h
  <2>4. Is(x) /\ Is(y)
    BY <2>2, PlaceKinds, Zenon
  <2>5. UsedOnce(tb, pg, h) /\ f # NoFrame
    BY <2>1, <2>3, Zenon
  <2> HIDE DEF place, tb, pg, h, f
  <2> QED
    BY <2>4, <2>5 DEF UsedOnce
<1>3. at \in Bijection(FramePlaces, used)
  <2>1. at \in [FramePlaces -> used] /\ \A x, y \in FramePlaces : at[x] = at[y] => x = y
    BY <1>2, Zenon
  <2>2. \A f \in used : \E x \in FramePlaces : at[x] = f
    BY Zenon
  <2> HIDE DEF at, used
  <2> QED
    BY <2>1, <2>2, Fun_IsBij, Zenon
<1>4. IsFiniteSet(used)
  <2>1. used \in SUBSET (0 .. Frames - 1)
    BY <1>1, PlaceKinds, Zenon DEF FrameOrNone
  <2>2. IsFiniteSet(0 .. Frames - 1)
    BY Constants, FS_Interval
  <2> QED
    BY <2>1, <2>2, FS_Subset, Zenon
<1>5. Cardinality(used) = Cardinality(FramePlaces)
  <2> HIDE DEF used, at
  <2>1. ExistsBijection(used, FramePlaces)
    BY <1>3, Fun_ExistsBijSymmetric, Zenon DEF ExistsBijection
  <2> QED
    BY <1>4, <2>1, FS_Bijection, Zenon
<1>6. \A f \in used : f < next
  BY <1>1, PlaceKinds, Zenon DEF FrameInv
<1> QED
  BY <1>5, <1>6, Zenon DEF FramesArePrivate

\* The memory state gives a frame to one caller only, for any number of
\* processes, frames and pages: whatever the order of the loaders' critical
\* sections and the brk calls, no frame is in two places, and none that is
\* still to be handed out is in any.
THEOREM FramesStayPrivate == Spec => []FramesArePrivate
<1>1. Init => FrameInv
  BY InitFrames, Zenon
<1>2. FrameInv /\ [Next]_vars => FrameInv'
  BY NextFrames, Zenon
<1>3. FrameInv => FramesArePrivate
  BY FramesCounted, Zenon
<1> QED
  BY <1>1, <1>2, <1>3, PTL DEF Spec

-----------------------------------------------------------------------------
(* The page tables and the heap metadata. *)

\* A number lies between a multiple of d and the next one.
LEMMA Quotient ==
  ASSUME NEW n \in Nat, NEW d \in Nat \ {0}
  PROVE  n \div d \in Nat /\ (n \div d) * d <= n /\ n < (n \div d) * d + d
OBVIOUS

\* Multiples of d are at least d apart.
LEMMA NextMultiple ==
  ASSUME NEW a \in Nat, NEW b \in Nat, NEW d \in Nat \ {0}
  PROVE  /\ a * d \in Nat /\ b * d \in Nat
         /\ a < b => a * d + d <= b * d
         /\ a <= b => a * d <= b * d
OBVIOUS

\* A multiple of d is its quotient times d.
LEMMA Multiple ==
  ASSUME NEW n \in Nat, NEW d \in Nat \ {0}, n % d = 0
  PROVE  n \div d \in Nat /\ (n \div d) * d = n
OBVIOUS

\* A page number is below another when its address is.
LEMMA BelowInPages ==
  ASSUME NEW a \in Nat, NEW b \in Nat, a * PageSize < b * PageSize
  PROVE  a < b
<1>1. PageSize \in Nat \ {0}
  BY Constants, Zenon
<1>2. a * PageSize \in Nat /\ b * PageSize \in Nat /\ (b <= a => b * PageSize <= a * PageSize)
  BY <1>1, NextMultiple, Zenon
<1> QED
  BY <1>2

\* AlignUp rounds up to a page boundary: the pages below the rounded address
\* are the pages below the address.
LEMMA AlignUpRounds ==
  ASSUME NEW v \in Nat
  PROVE  /\ AlignUp(v) \in Nat
         /\ v <= AlignUp(v)
         /\ \A q \in Nat : q * PageSize < AlignUp(v) <=> q * PageSize < v
         /\ \E k \in Nat : AlignUp(v) = k * PageSize
<1> DEFINE k == (v + PageSize - 1) \div PageSize
           n == v + PageSize - 1
<1>1. PageSize \in Nat \ {0} /\ n \in Nat
  BY Constants
<1>2. k \in Nat /\ k * PageSize <= n /\ n < k * PageSize + PageSize
  BY <1>1, Quotient, Zenon
<1>3. AlignUp(v) = k * PageSize
  BY Zenon DEF AlignUp
<1> HIDE DEF k
<1>4. k * PageSize \in Nat
  BY <1>1, <1>2, NextMultiple, Zenon
<1>5. v <= k * PageSize
  BY <1>1, <1>2, <1>4
<1>6. ASSUME NEW q \in Nat PROVE q * PageSize < k * PageSize <=> q * PageSize < v
  <2>1. q * PageSize \in Nat
    BY <1>1, NextMultiple, Zenon
  <2>2. q * PageSize < k * PageSize => q * PageSize + PageSize <= k * PageSize
    BY <1>1, <1>2, BelowInPages, NextMultiple, Zenon
  <2> QED
    BY <1>1, <1>2, <1>4, <1>5, <2>1, <2>2
<1> QED
  BY <1>2, <1>3, <1>4, <1>5, <1>6, Zenon

\* An address on a page boundary is its own rounding.
LEMMA AlignedStays ==
  ASSUME NEW k \in Nat
  PROVE  AlignUp(k * PageSize) = k * PageSize
<1>1. k * PageSize \in Nat
  BY Constants, NextMultiple, Zenon
<1>2. PICK j \in Nat : AlignUp(k * PageSize) = j * PageSize
  BY <1>1, AlignUpRounds, Zenon
<1>3. /\ j * PageSize \in Nat
      /\ k * PageSize <= j * PageSize
      /\ k * PageSize < j * PageSize => k * PageSize < k * PageSize
  BY <1>1, <1>2, AlignUpRounds
<1> QED
  BY <1>1, <1>2, <1>3

\* Rounding keeps an address within the heap limit.
LEMMA AlignUpInLimit ==
  ASSUME NEW v \in Nat, v <= Limit
  PROVE  AlignUp(v) <= Limit
<1> DEFINE m == Limit \div PageSize
<1>1. m \in Nat /\ m * PageSize = Limit /\ Limit \in Nat
  BY Constants, Multiple, Zenon
<1> HIDE DEF m
<1>2. /\ AlignUp(v) \in Nat
      /\ m * PageSize < AlignUp(v) => m * PageSize < v
  BY <1>1, AlignUpRounds, Zenon
<1> QED
  BY <1>1, <1>2

-----------------------------------------------------------------------------
(***************************************************************************)
(* The invariant.                                                          *)
(***************************************************************************)
Phases == {"none", "loading", "running", "ended", "failed"}
Heaps == [start : 0 .. Limit, brk : 0 .. Limit, mappedEnd : 0 .. Limit]

\* Where a heap may start: on a page boundary, above the lowest image.
GoodStart(start) == LoadStart <= start /\ start < Limit /\ AlignUp(start) = start

\* What holds of one process with phase ph, pages pg, pages td still to map,
\* frame h in its loader's hands and heap hp.  While the image is loaded no
\* page of the heap is mapped or waits to be; a frame in hand has a page to go
\* to; and a running process has exactly the pages below its break.
Unstarted(pg, h) == h = NoFrame /\ \A q \in Pages : pg[q] = NoFrame

Loading(pg, td, h, hp) ==
  /\ GoodStart(hp.start) /\ hp.brk = hp.start /\ hp.mappedEnd = hp.start
  /\ \A q \in PageRange(hp.start, Limit) : pg[q] = NoFrame /\ q \notin td
  /\ h # NoFrame => td # {}

Running(pg, hp) ==
  /\ GoodStart(hp.start)
  /\ hp.start <= hp.brk /\ hp.brk <= Limit
  /\ hp.mappedEnd = AlignUp(hp.brk)
  /\ \A q \in PageRange(hp.start, Limit) :
       pg[q] # NoFrame <=> q * PageSize < hp.brk

SpaceInv(ph, pg, td, h, hp) ==
  /\ ph = "none" => Unstarted(pg, h)
  /\ ph = "loading" => Loading(pg, td, h, hp)
  /\ ph = "running" => Running(pg, hp)

HeapTypes ==
  /\ phase \in [Procs -> Phases]
  /\ todo \in [Procs -> SUBSET Pages]
  /\ heap \in [Procs -> Heaps]
  /\ error \in {0, EINVAL, ENOMEM}

HeapInv ==
  /\ FrameInv
  /\ HeapTypes
  /\ \A p \in Procs : SpaceInv(phase[p], pages[p], todo[p], held[p], heap[p])

\* The invariant is stronger than the property.
LEMMA InvIsEnough == HeapInv => HeapIsMapped
<1> SUFFICES ASSUME HeapInv PROVE HeapIsMapped
  BY Zenon
<1>1. TypeOK
  BY Zenon DEF HeapInv, FrameInv, FrameTypes, FrameOrNone, HeapTypes, Phases, Heaps, TypeOK
<1>2. \A p \in Procs : phase[p] = "running" => Running(pages[p], heap[p])
  BY Zenon DEF HeapInv, SpaceInv
<1> QED
  BY <1>1, <1>2, Zenon DEF Running, HeapIsMapped

\* One process gets a new value of a variable.
Put(f, p, v) == [f EXCEPT ![p] = v]

\* A step of one process is judged by what it leaves of that process.
LEMMA OneProcess ==
  ASSUME HeapInv, FrameInv', NEW p \in Procs,
         NEW ph \in Phases, NEW td \in SUBSET Pages, NEW hp \in Heaps, NEW pg, NEW h,
         phase' = Put(phase, p, ph),
         todo' = Put(todo, p, td),
         heap' = Put(heap, p, hp),
         pages' = Put(pages, p, pg),
         held' = Put(held, p, h),
         error' \in {0, EINVAL, ENOMEM},
         SpaceInv(ph, pg, td, h, hp)
  PROVE  HeapInv'
<1>1. HeapTypes /\ FrameTypes
  BY Zenon DEF HeapInv, FrameInv
<1>2. HeapTypes'
  BY <1>1, Zenon DEF HeapTypes, Put
<1>3. /\ phase'[p] = ph /\ todo'[p] = td /\ heap'[p] = hp /\ pages'[p] = pg /\ held'[p] = h
      /\ \A r \in Procs : r # p =>
           /\ phase'[r] = phase[r] /\ todo'[r] = todo[r] /\ heap'[r] = heap[r]
           /\ pages'[r] = pages[r] /\ held'[r] = held[r]
  BY <1>1, Zenon DEF HeapTypes, FrameTypes, Put
<1>4. ASSUME NEW r \in Procs
      PROVE  SpaceInv(phase'[r], pages'[r], todo'[r], held'[r], heap'[r])
  <2>1. CASE r = p
    BY <1>3, <2>1, Zenon
  <2>2. CASE r # p
    <3>1. SpaceInv(phase[r], pages[r], todo[r], held[r], heap[r])
      BY Zenon DEF HeapInv
    <3> QED
      BY <1>3, <2>2, <3>1
  <2> QED
    BY <2>1, <2>2, Zenon
<1> QED
  BY <1>2, <1>4, Zenon DEF HeapInv

\* The variables of one process.
LEMMA OneHeap ==
  ASSUME HeapInv, NEW p \in Procs
  PROVE  /\ phase[p] \in Phases /\ todo[p] \in SUBSET Pages /\ heap[p] \in Heaps
         /\ phase = Put(phase, p, phase[p])
         /\ todo = Put(todo, p, todo[p])
         /\ heap = Put(heap, p, heap[p])
         /\ pages = Put(pages, p, pages[p])
         /\ held = Put(held, p, held[p])
         /\ SpaceInv(phase[p], pages[p], todo[p], held[p], heap[p])
<1>1. HeapTypes /\ FrameTypes
  BY Zenon DEF HeapInv, FrameInv
<1>2. SpaceInv(phase[p], pages[p], todo[p], held[p], heap[p])
  BY Zenon DEF HeapInv
<1> QED
  BY <1>1, <1>2, Zenon DEF HeapTypes, FrameTypes, Put

\* What the invariant says of a process in each of its phases.
LEMMA PhaseOf ==
  ASSUME HeapInv, NEW p \in Procs
  PROVE  /\ phase[p] = "none" => Unstarted(pages[p], held[p])
         /\ phase[p] = "loading" => Loading(pages[p], todo[p], held[p], heap[p])
         /\ phase[p] = "running" => Running(pages[p], heap[p])
  BY Zenon DEF HeapInv, SpaceInv

\* A process that loads, that runs, and one that has ended.
LEMMA SpaceOf ==
  ASSUME NEW pg, NEW td, NEW h, NEW hp
  PROVE  /\ Loading(pg, td, h, hp) => SpaceInv("loading", pg, td, h, hp)
         /\ Running(pg, hp) => SpaceInv("running", pg, td, h, hp)
         /\ SpaceInv("failed", pg, td, h, hp)
         /\ SpaceInv("ended", pg, td, h, hp)
  BY Zenon DEF SpaceInv

\* The phases by name.
LEMMA PhaseNames ==
  /\ "loading" \in Phases /\ "running" \in Phases
  /\ "failed" \in Phases /\ "ended" \in Phases
  BY Zenon DEF Phases

-----------------------------------------------------------------------------
(***************************************************************************)
(* Loading.                                                                *)
(***************************************************************************)

StartFor(image) == AlignUp(image.maxSegmentEnd)
ListFor(image) == image.pages \union image.testPage \union StackRegion

\* The layout keeps what a loader maps out of the heap.
LEMMA ImageLayout ==
  ASSUME NEW image \in Images, LoadStart <= StartFor(image), StartFor(image) < Limit
  PROVE  /\ GoodStart(StartFor(image)) /\ StartFor(image) \in 0 .. Limit
         /\ ListFor(image) \in SUBSET Pages /\ ListFor(image) # {}
         /\ \A q \in PageRange(StartFor(image), Limit) : q \notin ListFor(image)
<1> DEFINE start == StartFor(image)
           td == ListFor(image)
           end == image.maxSegmentEnd
           top == StackTop \div PageSize
           last == (end - 1) \div PageSize
           lim == Limit \div PageSize
           P == PageSize
<1>1. /\ end \in Nat /\ LoadStart < end
      /\ image.pages \subseteq LoadStart \div PageSize .. last
      /\ image.testPage \in {{}, {lim}}
  BY ImageAssumption, Zenon
<1>2. /\ PageSize \in Nat \ {0} /\ StackPages \in Nat \ {0}
      /\ LoadStart \in Nat /\ Limit \in Nat /\ StackTop \in Nat
  BY Constants, Zenon
<1>3. Limit + P <= StackTop - StackPages * P
  BY LayoutAssumption, Zenon
<1>4. /\ top \in Nat /\ top * P = StackTop
      /\ lim \in Nat /\ lim * P = Limit
  BY Constants, Multiple, Zenon
<1>5. /\ end <= start /\ start \in Nat
      /\ AlignUp(start) = start
  <2>1. PICK k \in Nat : start = k * PageSize
    BY <1>1, AlignUpRounds, Zenon DEF StartFor
  <2>2. end <= start /\ start \in Nat
    BY <1>1, AlignUpRounds, Zenon DEF StartFor
  <2> QED
    BY <2>1, <2>2, AlignedStays, Zenon
<1>6. end - 1 \in Nat /\ last \in Nat /\ last * P <= end - 1
  <2>1. end - 1 \in Nat
    BY <1>1, <1>2
  <2> QED
    BY <1>2, <2>1, Quotient, Zenon
<1>7. LoadStart \div PageSize \in Nat
  BY <1>2, Quotient, Zenon
<1>8. StackPages * P \in Nat /\ (top - StackPages) * P = top * P - StackPages * P
  <2> HIDE DEF top
  <2>1. top \in Int /\ StackPages \in Int /\ P \in Int
    BY <1>2, <1>4
  <2>2. (top - StackPages) * P = top * P - StackPages * P
    BY <2>1
  <2>3. StackPages * P \in Nat
    BY <1>2, NextMultiple, Zenon
  <2> QED
    BY <2>2, <2>3, Zenon
<1> HIDE DEF end, top, last, lim
<1>9. ASSUME NEW q \in Nat, q * P < StackTop PROVE q \in Pages
  <2>1. q < top
    BY <1>4, <1>9, BelowInPages, Zenon
  <2> QED
    BY <1>4, <2>1 DEF Pages, top
<1>10. ASSUME NEW q \in image.pages PROVE q \in Nat /\ q * P < start
  <2>1. q \in Nat /\ q <= last
    BY <1>1, <1>6, <1>7
  <2>2. q * P \in Nat /\ q * P <= last * P /\ last * P \in Nat
    BY <1>2, <1>6, <2>1, NextMultiple, Zenon
  <2> QED
    BY <1>1, <1>5, <1>6, <2>1, <2>2
<1>11. top - StackPages \in Nat
  <2>1. CASE top < StackPages
    <3>1. top * P <= StackPages * P
      BY <1>2, <1>4, <2>1, NextMultiple
    <3> QED
      BY <1>2, <1>3, <1>4, <1>8, <3>1
  <2> QED
    BY <1>2, <1>4, <2>1
<1>12. ASSUME NEW q \in StackRegion PROVE q \in Nat /\ q \in Pages /\ Limit <= q * P
  <2>1. q \in Nat /\ top - StackPages <= q /\ q \in Pages
    BY <1>4, <1>11 DEF StackRegion, Pages, top
  <2>2. q * P \in Nat /\ (top - StackPages) * P <= q * P
    BY <1>2, <1>11, <2>1, NextMultiple, Zenon
  <2> QED
    BY <1>2, <1>3, <1>4, <1>8, <2>1, <2>2
<1>13. Limit < StackTop
  BY <1>2, <1>3, <1>8
<1>14. image.pages \subseteq Pages
  <2>1. \A q \in image.pages : q * P \in Nat
    BY <1>2, <1>10, NextMultiple, Zenon
  <2> QED
    BY <1>2, <1>5, <1>9, <1>10, <1>13, <2>1
<1>15. lim \in Pages
  BY <1>4, <1>9, <1>13, Zenon
<1>16. td \in SUBSET Pages
  BY <1>1, <1>12, <1>14, <1>15 DEF ListFor
<1>17. td # {}
  <2>1. top - 1 \in StackRegion
    BY <1>2, <1>4, <1>11 DEF StackRegion, top
  <2> QED
    BY <2>1, Zenon DEF ListFor
<1>18. ASSUME NEW q \in PageRange(start, Limit) PROVE q \notin td
  <2>1. q \in Pages /\ start <= q * P /\ q * P < Limit
    BY Zenon DEF PageRange
  <2>2. q \in Nat /\ q * P \in Nat
    BY <1>2, <2>1, PagesAreFinite, NextMultiple, Zenon
  <2>3. q \notin image.pages
    BY <1>5, <1>10, <2>1, <2>2
  <2>4. q # lim
    BY <1>4, <2>1, <2>2
  <2>5. q \notin StackRegion
    BY <1>2, <1>12, <2>1, <2>2
  <2> QED
    BY <1>1, <2>3, <2>4, <2>5, Zenon DEF ListFor
<1> QED
  BY <1>2, <1>5, <1>16, <1>17, <1>18 DEF GoodStart

\* AddressSpace::new_user
LEMMA NewUserHeap ==
  ASSUME HeapInv, NEW p \in Procs, NEW image \in Images, NewUser(p, image)
  PROVE  HeapInv'
<1> DEFINE start == StartFor(image)
           td == ListFor(image)
<1>1. /\ FrameInv'
      /\ error' = 0 /\ UNCHANGED <<pages, held>>
      /\ phase[p] = "none" /\ LoadStart <= start /\ start < Limit
  <2>1. FrameInv'
    BY NewUserFrames, Zenon DEF HeapInv
  <2>2. /\ error' = 0 /\ UNCHANGED <<pages, held>> /\ phase[p] = "none"
        /\ LoadStart <= AlignUp(image.maxSegmentEnd)
        /\ AlignUp(image.maxSegmentEnd) < Limit
    BY Zenon DEF NewUser
  <2>3. start = AlignUp(image.maxSegmentEnd)
    BY Zenon DEF StartFor
  <2> QED
    BY <2>1, <2>2, <2>3, Zenon
<1>2. Unstarted(pages[p], held[p])
  BY <1>1, PhaseOf, Zenon
<1>3. CASE next < Frames
  <2>1. /\ phase' = Put(phase, p, "loading")
        /\ todo' = Put(todo, p, td)
        /\ heap' = Put(heap, p, NewHeap(start))
    BY <1>3, Zenon DEF NewUser, Put, StartFor, ListFor
  <2>2. /\ GoodStart(start) /\ start \in 0 .. Limit
        /\ td \in SUBSET Pages /\ td # {}
        /\ \A q \in PageRange(start, Limit) : q \notin td
    BY <1>1, ImageLayout, Zenon
  <2> HIDE DEF start, td
  <2>3. NewHeap(start) \in Heaps
    BY <2>2, Zenon DEF NewHeap, Heaps
  <2>4. Loading(pages[p], td, held[p], NewHeap(start))
    <3>1. /\ NewHeap(start).start = start
          /\ NewHeap(start).brk = start
          /\ NewHeap(start).mappedEnd = start
      BY Zenon DEF NewHeap
    <3>2. PageRange(start, Limit) \subseteq Pages
      BY Zenon DEF PageRange
    <3> QED
      BY <1>2, <2>2, <3>1, <3>2, Zenon DEF Loading, Unstarted
  <2>5. SpaceInv("loading", pages[p], td, held[p], NewHeap(start)) /\ "loading" \in Phases
    BY <2>4, SpaceOf, PhaseNames, Zenon
  <2>6. /\ pages' = Put(pages, p, pages[p]) /\ held' = Put(held, p, held[p])
        /\ error' \in {0, EINVAL, ENOMEM}
    BY <1>1, OneHeap, Zenon
  <2> QED
    BY <1>1, <2>1, <2>2, <2>3, <2>5, <2>6, OneProcess, Zenon
<1>4. CASE ~(next < Frames)
  <2>1. phase' = Put(phase, p, "failed") /\ UNCHANGED <<todo, heap>>
    BY <1>4, Zenon DEF NewUser, Put
  <2>2. SpaceInv("failed", pages[p], todo[p], held[p], heap[p]) /\ "failed" \in Phases
    BY SpaceOf, PhaseNames, Zenon
  <2>3. /\ todo' = Put(todo, p, todo[p]) /\ heap' = Put(heap, p, heap[p])
        /\ pages' = Put(pages, p, pages[p]) /\ held' = Put(held, p, held[p])
        /\ todo[p] \in SUBSET Pages /\ heap[p] \in Heaps
        /\ error' \in {0, EINVAL, ENOMEM}
    BY <1>1, <2>1, OneHeap, Zenon
  <2> QED
    BY <1>1, <2>1, <2>2, <2>3, OneProcess, Zenon
<1> QED
  BY <1>3, <1>4, Zenon

\* First critical section of map_zeroed_user_page.
LEMMA AllocatePageHeap ==
  ASSUME HeapInv, NEW p \in Procs, AllocatePage(p)
  PROVE  HeapInv'
<1>1. /\ FrameInv' /\ error' = 0 /\ UNCHANGED <<pages, todo, heap>>
      /\ phase[p] = "loading" /\ todo[p] # {}
  BY AllocatePageFrames, Zenon DEF HeapInv, AllocatePage
<1>2. Loading(pages[p], todo[p], held[p], heap[p])
  BY <1>1, PhaseOf, Zenon
<1>u. /\ todo' = Put(todo, p, todo[p]) /\ heap' = Put(heap, p, heap[p])
      /\ pages' = Put(pages, p, pages[p])
      /\ todo[p] \in SUBSET Pages /\ heap[p] \in Heaps /\ phase[p] \in Phases
      /\ error' \in {0, EINVAL, ENOMEM}
  BY <1>1, OneHeap, Zenon
<1>3. CASE next < Frames
  <2>1. held' = Put(held, p, next) /\ UNCHANGED phase
    BY <1>3, Zenon DEF AllocatePage, Put
  <2>2. phase' = Put(phase, p, phase[p])
    BY <2>1, OneHeap, Zenon
  <2>3. Loading(pages[p], todo[p], next, heap[p])
    BY <1>1, <1>2, Zenon DEF Loading
  <2>4. SpaceInv(phase[p], pages[p], todo[p], next, heap[p])
    BY <1>1, <2>3, SpaceOf, Zenon
  <2> QED
    BY <1>1, <1>u, <2>1, <2>2, <2>4, OneProcess, Zenon
<1>4. CASE ~(next < Frames)
  <2>1. phase' = Put(phase, p, "failed") /\ UNCHANGED held
    BY <1>4, Zenon DEF AllocatePage, Put
  <2>2. SpaceInv("failed", pages[p], todo[p], held[p], heap[p]) /\ "failed" \in Phases
    BY SpaceOf, PhaseNames, Zenon
  <2>3. held' = Put(held, p, held[p])
    BY <2>1, OneHeap, Zenon
  <2> QED
    BY <1>1, <1>u, <2>1, <2>2, <2>3, OneProcess, Zenon
<1> QED
  BY <1>3, <1>4, Zenon

\* A loader maps the pages of its list and no others.
LEMMA NextPagesAreListed ==
  ASSUME NEW p, todo[p] \in SUBSET Pages, todo[p] # {}
  PROVE  NextPages(p) \subseteq todo[p]
<1>1. todo[p] \in SUBSET Nat
  BY PagesAreFinite, Zenon
<1>2. Min(todo[p]) \in todo[p]
  BY <1>1, LeastOf, Zenon
<1> QED
  BY <1>2, Zenon DEF NextPages

\* Second critical section: map_frame.
LEMMA MapFrameHeap ==
  ASSUME HeapInv, NEW p \in Procs, NEW q \in Pages, MapFrame(p, q)
  PROVE  HeapInv'
<1> DEFINE ok == /\ next + Cardinality(Missing(p, {q})) <= Frames
                 /\ pages[p][q] = NoFrame
<1>1. /\ FrameInv' /\ error' = 0 /\ heap' = heap
      /\ phase[p] = "loading" /\ held[p] # NoFrame /\ q \in NextPages(p)
      /\ held' = Put(held, p, NoFrame)
  BY MapFrameFrames, Zenon DEF HeapInv, MapFrame, Put
<1>2. Loading(pages[p], todo[p], held[p], heap[p]) /\ pages[p] \in [Pages -> FrameOrNone]
  BY <1>1, PhaseOf, OneSpace, Zenon DEF HeapInv
<1>u. /\ heap' = Put(heap, p, heap[p])
      /\ todo[p] \in SUBSET Pages /\ heap[p] \in Heaps /\ phase[p] \in Phases
      /\ error' \in {0, EINVAL, ENOMEM}
  BY <1>1, OneHeap, Zenon
<1>3. q \in todo[p]
  <2>1. todo[p] # {}
    BY <1>1, <1>2, Zenon DEF Loading
  <2> QED
    BY <1>1, <1>u, <2>1, NextPagesAreListed, Zenon
<1>4. CASE ok
  <2> DEFINE pg == [pages[p] EXCEPT ![q] = held[p]]
             td == todo[p] \ {q}
  <2>1. /\ pages' = [pages EXCEPT ![p][q] = held[p]]
        /\ todo' = [todo EXCEPT ![p] = @ \ {q}]
        /\ UNCHANGED phase
    BY <1>4, Zenon DEF MapFrame, Put
  <2>2. pages' = Put(pages, p, pg) /\ todo' = Put(todo, p, td)
    BY <2>1, OneHeap, Zenon DEF Put
  <2>3. td \in SUBSET Pages /\ \A r : r \notin todo[p] => r \notin td
    BY <1>u, Zenon
  <2>4. \A r \in Pages : r # q => pg[r] = pages[p][r]
    BY <1>2, Zenon
  <2> HIDE DEF pg, td
  <2>5. Loading(pg, td, NoFrame, heap[p])
    <3>1. \A r \in PageRange(heap[p].start, Limit) :
            r \in Pages /\ r # q /\ pages[p][r] = NoFrame /\ r \notin todo[p]
      BY <1>2, <1>3, Zenon DEF Loading, PageRange
    <3>2. \A r \in PageRange(heap[p].start, Limit) : pg[r] = NoFrame /\ r \notin td
      BY <2>3, <2>4, <3>1, Zenon
    <3> QED
      BY <1>2, <3>2, Zenon DEF Loading
  <2>6. SpaceInv(phase[p], pg, td, NoFrame, heap[p])
    BY <1>1, <2>5, SpaceOf, Zenon
  <2>7. phase' = Put(phase, p, phase[p])
    BY <2>1, OneHeap, Zenon
  <2> QED
    BY <1>1, <1>u, <2>2, <2>3, <2>6, <2>7, OneProcess, Zenon
<1>5. CASE ~ok
  <2>1. phase' = Put(phase, p, "failed") /\ UNCHANGED <<pages, todo>>
    BY <1>5, Zenon DEF MapFrame, Put
  <2>2. SpaceInv("failed", pages[p], todo[p], NoFrame, heap[p]) /\ "failed" \in Phases
    BY SpaceOf, PhaseNames, Zenon
  <2>3. pages' = Put(pages, p, pages[p]) /\ todo' = Put(todo, p, todo[p])
    BY <2>1, OneHeap, Zenon
  <2> QED
    BY <1>1, <1>u, <2>1, <2>2, <2>3, OneProcess, Zenon
<1> QED
  BY <1>4, <1>5, Zenon

\* spawn_user_process, and the end of a process.
LEMMA SpawnAndEndHeap ==
  ASSUME HeapInv, NEW p \in Procs, Spawn(p) \/ End(p)
  PROVE  HeapInv'
<1>1. /\ error' = 0 /\ UNCHANGED <<tables, pages, todo, held, heap, next>>
      /\ FrameInv'
  BY Zenon DEF Spawn, End, HeapInv, FrameInv, FrameTypes, Owns
<1>2. PICK ph \in Phases :
        /\ phase' = Put(phase, p, ph)
        /\ \/ ph = "ended" \/ ph = "failed"
           \/ ph = "running" /\ phase[p] = "loading"
  BY PhaseNames, Zenon DEF Spawn, End, Put
<1>3. SpaceInv(ph, pages[p], todo[p], held[p], heap[p])
  <2>1. CASE ph = "running" /\ phase[p] = "loading"
    <3>1. Loading(pages[p], todo[p], held[p], heap[p]) /\ heap[p] \in Heaps
      BY <2>1, PhaseOf, OneHeap, Zenon
    <3> DEFINE start == heap[p].start
    <3>2. /\ GoodStart(start) /\ start = heap[p].brk /\ start = heap[p].mappedEnd
          /\ \A q \in PageRange(start, Limit) : pages[p][q] = NoFrame
          /\ start \in Nat /\ Limit \in Nat
      BY <3>1, Constants DEF Loading, Heaps
    <3>3. \A q \in PageRange(start, Limit) : ~(q * PageSize < start)
      <4>1. \A q \in PageRange(start, Limit) : q * PageSize \in Nat /\ start <= q * PageSize
        BY PagesAreFinite, Constants, NextMultiple, Zenon DEF PageRange
      <4> QED
        BY <3>2, <4>1
    <3> HIDE DEF start
    <3>4. Running(pages[p], heap[p])
      BY <3>2, <3>3 DEF Running, GoodStart, start
    <3> QED
      BY <2>1, <3>4, SpaceOf, Zenon
  <2>2. CASE ph = "ended" \/ ph = "failed"
    BY <2>2, SpaceOf, Zenon
  <2> QED
    BY <1>2, <2>1, <2>2, Zenon
<1>4. /\ todo' = Put(todo, p, todo[p]) /\ heap' = Put(heap, p, heap[p])
      /\ pages' = Put(pages, p, pages[p]) /\ held' = Put(held, p, held[p])
      /\ todo[p] \in SUBSET Pages /\ heap[p] \in Heaps
      /\ error' \in {0, EINVAL, ENOMEM}
  BY <1>1, OneHeap, Zenon
<1> QED
  BY <1>1, <1>2, <1>3, <1>4, OneProcess, Zenon

-----------------------------------------------------------------------------
(***************************************************************************)
(* brk.                                                                    *)
(***************************************************************************)

\* Growing by no page always succeeds.
LEMMA GrowByNothing ==
  ASSUME FrameInv, NEW p \in Procs
  PROVE  MapSucceeds(p, {}) /\ MapUserHeapPages(p, {}) = pages[p] /\ Unmapped(p, {}) = {}
<1>1. next \in 0 .. Frames /\ pages[p] \in [Pages -> FrameOrNone]
  BY OneSpace, Zenon
<1>2. Missing(p, {}) = {}
  BY Zenon DEF Missing
<1>3. FramesFor(p, {}) = 0
  BY <1>2, FS_EmptySet DEF FramesFor
<1>4. MapSucceeds(p, {})
  BY <1>1, <1>3, Constants DEF MapSucceeds
<1>5. MapUserHeapPages(p, {}) = pages[p]
  BY <1>1, Zenon DEF MapUserHeapPages
<1> QED
  BY <1>4, <1>5, Zenon DEF Unmapped

\* The pages a brk of a running process takes away lie in its heap at or above
\* the new break, and all of them are mapped.
LEMMA ShrinkIsMapped ==
  ASSUME NEW p, heap[p] \in Heaps, Running(pages[p], heap[p]),
         NEW requested \in Nat, NEW q \in ShrinkPages(p, requested)
  PROVE  /\ requested < heap[p].brk /\ heap[p].start <= requested
         /\ q \in PageRange(heap[p].start, Limit)
         /\ requested <= q * PageSize
         /\ q * PageSize < heap[p].brk
         /\ pages[p][q] # NoFrame
<1> DEFINE h == heap[p]
<1>1. /\ InHeap(p, requested) /\ requested < h.brk
      /\ q \in PageRange(AlignUp(requested), h.mappedEnd)
  BY Zenon DEF ShrinkPages
<1>2. /\ h.start \in Nat /\ h.brk \in Nat /\ h.brk <= Limit /\ Limit \in Nat
      /\ h.mappedEnd = AlignUp(h.brk) /\ h.start <= requested
  BY <1>1, Constants DEF Heaps, Running, InHeap
<1>3. q \in Pages /\ AlignUp(requested) <= q * PageSize /\ q * PageSize < AlignUp(h.brk)
  BY <1>1, <1>2, Zenon DEF PageRange
<1>4. q \in Nat /\ q * PageSize \in Nat
  BY <1>3, PagesAreFinite, Constants, NextMultiple, Zenon
<1>5. /\ q * PageSize < h.brk
      /\ AlignUp(requested) \in Nat /\ requested <= AlignUp(requested)
  BY <1>2, <1>3, <1>4, AlignUpRounds, Zenon
<1> HIDE DEF h
<1>6. requested <= q * PageSize /\ h.start <= q * PageSize /\ q * PageSize < Limit
  BY <1>2, <1>3, <1>4, <1>5
<1>7. q \in PageRange(h.start, Limit)
  BY <1>3, <1>6, Zenon DEF PageRange
<1> QED
  BY <1>1, <1>2, <1>5, <1>6, <1>7, Zenon DEF Running, h

\* What sys_brk_current returns.
LEMMA BrkErrorIs ==
  ASSUME NEW p, NEW requested
  PROVE  /\ requested = 0 => BrkError(p, requested) = 0
         /\ requested # 0 /\ ~ InHeap(p, requested) =>
              BrkError(p, requested) \in {EINVAL, ENOMEM}
         /\ requested # 0 /\ InHeap(p, requested) =>
              BrkError(p, requested) =
                IF ~ MapSucceeds(p, GrowPages(p, requested)) THEN ENOMEM
                ELSE IF Unmapped(p, ShrinkPages(p, requested)) # ShrinkPages(p, requested)
                THEN EINVAL ELSE 0
<1>1. CASE requested = 0
  BY <1>1, Zenon DEF BrkError
<1>2. CASE requested # 0 /\ ~ InHeap(p, requested)
  BY <1>2, Zenon DEF BrkError
<1>3. CASE requested # 0 /\ InHeap(p, requested)
  BY <1>3, Zenon DEF BrkError
<1> QED
  BY <1>1, <1>2, <1>3, Zenon

\* The three ways a brk of a running process ends.  It changes nothing, or
\* adds the pages up to the new break, or takes away those above it.
LEMMA BrkOutcomes ==
  ASSUME HeapInv, NEW p \in Procs, NEW requested \in Nat, SysBrk(p, requested)
  PROVE  LET grow == GrowPages(p, requested)
             shrink == ShrinkPages(p, requested)
         IN
         \/ /\ pages' = pages /\ heap' = heap
            /\ error' \in {0, EINVAL, ENOMEM}
         \/ /\ InHeap(p, requested) /\ requested > heap[p].brk
            /\ MapSucceeds(p, grow)
            /\ pages' = Put(pages, p, MapUserHeapPages(p, grow))
            /\ heap' = Put(heap, p, SetBreak(heap[p], requested))
            /\ error' = 0
         \/ /\ InHeap(p, requested) /\ requested < heap[p].brk
            /\ pages' = Put(pages, p, [q \in Pages |-> IF q \in shrink THEN NoFrame
                                                       ELSE pages[p][q]])
            /\ heap' = Put(heap, p, SetBreak(heap[p], requested))
            /\ error' = 0
<1> DEFINE grow == GrowPages(p, requested)
           shrink == ShrinkPages(p, requested)
           gone == Unmapped(p, shrink)
           mapped == MapUserHeapPages(p, grow)
           pg == [q \in Pages |-> IF q \in gone THEN NoFrame ELSE mapped[q]]
<1>1. /\ phase[p] = "running"
      /\ pages' = Put(pages, p, pg)
      /\ error' = BrkError(p, requested)
      /\ IF error' = 0 /\ requested \notin {0, heap[p].brk}
         THEN heap' = Put(heap, p, SetBreak(heap[p], requested))
         ELSE heap' = heap
  BY Zenon DEF SysBrk, Put
<1>2. /\ FrameInv
      /\ heap[p] \in Heaps /\ Running(pages[p], heap[p])
      /\ pages[p] \in [Pages -> FrameOrNone]
      /\ pages = Put(pages, p, pages[p])
  BY <1>1, OneHeap, PhaseOf, OneSpace, Zenon DEF HeapInv
<1>3. /\ 0 < heap[p].start /\ heap[p].start <= heap[p].brk
      /\ heap[p].start \in Nat /\ heap[p].brk \in Nat
  BY <1>2, Constants DEF Running, GoodStart, Heaps
<1>4. MapSucceeds(p, {}) /\ MapUserHeapPages(p, {}) = pages[p] /\ Unmapped(p, {}) = {}
  BY <1>2, GrowByNothing, Zenon
<1>5. gone = shrink
  BY <1>2, ShrinkIsMapped, Zenon DEF Unmapped
<1>6. shrink = {} => pg = mapped
  BY <1>5, Zenon DEF MapUserHeapPages
<1>e. 0 # EINVAL /\ 0 # ENOMEM
  BY DEF EINVAL, ENOMEM
<1>7. CASE requested = 0 \/ ~ InHeap(p, requested) \/ requested = heap[p].brk
  <2>1. grow = {} /\ shrink = {}
    <3>1. \A b \in Nat : ~(b > b) /\ ~(b < b)
      OBVIOUS
    <3>2. \A b \in Nat : 0 < b => ~(b <= 0)
      OBVIOUS
    <3>3. ~ InHeap(p, requested) \/ (~(requested > heap[p].brk) /\ ~(requested < heap[p].brk))
      BY <1>3, <1>7, <3>1, <3>2, Zenon DEF InHeap
    <3> QED
      BY <3>3, Zenon DEF GrowPages, ShrinkPages
  <2>2. pages' = pages
    BY <1>1, <1>2, <1>4, <1>6, <2>1, Zenon
  <2>3. /\ error' \in {0, EINVAL, ENOMEM}
        /\ (requested # 0 /\ ~ InHeap(p, requested)) => error' # 0
    BY <1>1, <1>e, BrkErrorIs, Zenon
  <2>4. heap' = heap
    BY <1>1, <1>7, <2>3, Zenon
  <2> QED
    BY <2>2, <2>3, <2>4, Zenon
<1>8. CASE requested # 0 /\ InHeap(p, requested) /\ requested # heap[p].brk
  <2>1. BrkError(p, requested) =
          IF ~ MapSucceeds(p, grow) THEN ENOMEM
          ELSE IF gone # shrink THEN EINVAL ELSE 0
    BY <1>8, BrkErrorIs, Zenon
  <2>2. error' = IF MapSucceeds(p, grow) THEN 0 ELSE ENOMEM
    BY <1>1, <1>5, <2>1, Zenon
  <2>3. CASE requested > heap[p].brk
    <3>0. ~(requested < heap[p].brk)
      BY <1>3, <2>3
    <3>1. shrink = {}
      BY <3>0, Zenon DEF ShrinkPages
    <3>2. pages' = Put(pages, p, mapped)
      BY <1>1, <1>6, <3>1, Zenon
    <3>3. ~ MapSucceeds(p, grow) => mapped = pages[p]
      BY <1>2, Zenon DEF MapUserHeapPages
    <3> HIDE DEF grow, shrink, gone, mapped, pg
    <3>4. CASE MapSucceeds(p, grow)
      <4>1. error' = 0 /\ heap' = Put(heap, p, SetBreak(heap[p], requested))
        BY <1>1, <1>8, <2>2, <3>4, Zenon
      <4> QED
        BY <1>8, <2>3, <3>2, <3>4, <4>1, Zenon DEF grow, mapped
    <3>5. CASE ~ MapSucceeds(p, grow)
      <4>1. error' = ENOMEM /\ pages' = pages
        BY <1>2, <2>2, <3>2, <3>3, <3>5, Zenon
      <4>2. heap' = heap
        BY <1>1, <1>e, <4>1, Zenon
      <4> QED
        BY <4>1, <4>2, Zenon
    <3> QED
      BY <3>4, <3>5, Zenon
  <2>4. CASE requested < heap[p].brk
    <3>0. ~(requested > heap[p].brk)
      BY <1>3, <2>4
    <3>1. grow = {}
      BY <3>0, Zenon DEF GrowPages
    <3>2. mapped = pages[p] /\ error' = 0
      BY <1>4, <2>2, <3>1, Zenon
    <3>3. pg = [q \in Pages |-> IF q \in shrink THEN NoFrame ELSE pages[p][q]]
      <4> HIDE DEF gone, mapped, shrink
      <4> QED
        BY <1>5, <3>2, Zenon
    <3> HIDE DEF grow, gone, mapped, pg
    <3> QED
      BY <1>1, <1>8, <2>4, <3>2, <3>3, Zenon
  <2>5. requested > heap[p].brk \/ requested < heap[p].brk
    BY <1>3, <1>8
  <2> QED
    BY <2>3, <2>4, <2>5, Zenon
<1> QED
  BY <1>7, <1>8, Zenon

\* The new metadata after a brk that succeeds.
LEMMA NewBreak ==
  ASSUME NEW h \in Heaps, NEW requested \in Nat, requested <= Limit
  PROVE  /\ SetBreak(h, requested) \in Heaps
         /\ SetBreak(h, requested).start = h.start
         /\ SetBreak(h, requested).brk = requested
         /\ SetBreak(h, requested).mappedEnd = AlignUp(requested)
<1>1. AlignUp(requested) \in 0 .. Limit /\ requested \in 0 .. Limit
  BY Constants, AlignUpRounds, AlignUpInLimit
<1> HIDE DEF AlignUp
<1> QED
  BY <1>1, Zenon DEF SetBreak, Heaps

\* sys_brk_current
LEMMA SysBrkHeap ==
  ASSUME HeapInv, NEW p \in Procs, NEW requested \in Nat, SysBrk(p, requested)
  PROVE  HeapInv'
<1> DEFINE h == heap[p]
           new == SetBreak(h, requested)
           grow == GrowPages(p, requested)
           shrink == ShrinkPages(p, requested)
           more == MapUserHeapPages(p, grow)
           less == [q \in Pages |-> IF q \in shrink THEN NoFrame ELSE pages[p][q]]
           P == PageSize
<1>1. /\ FrameInv' /\ FrameInv /\ UNCHANGED <<phase, todo, held>> /\ phase[p] = "running"
  BY SysBrkFrames, Zenon DEF SysBrk, HeapInv
<1>2. h \in Heaps /\ Running(pages[p], h) /\ pages[p] \in [Pages -> FrameOrNone]
  BY <1>1, OneHeap, PhaseOf, OneSpace, Zenon
<1>3. /\ h.start \in Nat /\ h.brk \in Nat /\ h.mappedEnd = AlignUp(h.brk)
      /\ Limit \in Nat /\ GoodStart(h.start)
      /\ \A q \in PageRange(h.start, Limit) : pages[p][q] # NoFrame <=> q * P < h.brk
  BY <1>2, Constants DEF Heaps, Running
<1>4. \A q \in Pages : q \in Nat /\ q * P \in Nat
  BY PagesAreFinite, Constants, NextMultiple, Zenon
<1>5. InHeap(p, requested) =>
        /\ h.start <= requested /\ requested <= Limit
        /\ new \in Heaps /\ new.start = h.start /\ new.brk = requested
        /\ new.mappedEnd = AlignUp(requested)
  BY <1>2, NewBreak, Zenon DEF InHeap
<1>6. ASSUME NEW q \in Pages
      PROVE  /\ q * P < AlignUp(requested) <=> q * P < requested
             /\ q * P < AlignUp(h.brk) <=> q * P < h.brk
             /\ AlignUp(requested) \in Nat /\ AlignUp(h.brk) \in Nat
  BY <1>3, <1>4, AlignUpRounds, Zenon
<1>u. /\ phase' = Put(phase, p, phase[p]) /\ todo' = Put(todo, p, todo[p])
      /\ held' = Put(held, p, held[p])
      /\ todo[p] \in SUBSET Pages /\ phase[p] \in Phases
  BY <1>1, OneHeap, Zenon
<1>7. CASE pages' = pages /\ heap' = heap /\ error' \in {0, EINVAL, ENOMEM}
  <2>1. /\ pages' = Put(pages, p, pages[p]) /\ heap' = Put(heap, p, heap[p])
        /\ SpaceInv(phase[p], pages[p], todo[p], held[p], heap[p])
    BY <1>7, OneHeap, Zenon
  <2> QED
    BY <1>1, <1>2, <1>7, <1>u, <2>1, OneProcess, Zenon
<1>8. CASE /\ InHeap(p, requested) /\ requested > h.brk
           /\ MapSucceeds(p, grow)
           /\ pages' = Put(pages, p, more)
           /\ heap' = Put(heap, p, new)
           /\ error' = 0
  <2>1. \A q \in Pages : q \in grow <=> ~(q * P < h.brk) /\ q * P < requested
    <3>1. grow = PageRange(AlignUp(h.brk), AlignUp(requested))
      BY <1>3, <1>8, Zenon DEF GrowPages
    <3>2. \A q \in Pages : AlignUp(h.brk) <= q * P <=> ~(q * P < AlignUp(h.brk))
      <4> HIDE DEF h, P
      <4> QED
        BY <1>4, <1>6
    <3> HIDE DEF grow
    <3> QED
      BY <1>6, <3>1, <3>2, Zenon DEF PageRange
  <2>2. \A q \in Pages : more[q] = IF q \in grow THEN PageFrame(p, grow, q) ELSE pages[p][q]
    BY <1>8, Zenon DEF MapUserHeapPages
  <2>3. \A q \in grow : PageFrame(p, grow, q) # NoFrame
    <3>1. grow \in SUBSET Pages
      BY DEF GrowPages, PageRange
    <3>2. next \in Nat
      BY <1>1, OneSpace, Zenon
    <3>3. \A q \in grow : PageFrame(p, grow, q) \in Nat
      BY <3>1, <3>2, FramesAreNew, Zenon
    <3> HIDE DEF grow
    <3> QED
      BY <3>3 DEF NoFrame
  <2> HIDE DEF grow, more, new
  <2>4. \A q \in PageRange(h.start, Limit) : more[q] # NoFrame <=> q * P < requested
    <3> SUFFICES ASSUME NEW q \in PageRange(h.start, Limit)
                 PROVE  more[q] # NoFrame <=> q * P < requested
      BY Zenon
    <3>1. q \in Pages /\ q * P \in Nat /\ (pages[p][q] # NoFrame <=> q * P < h.brk)
      BY <1>3, <1>4, Zenon DEF PageRange
    <3>2. q * P < h.brk => q * P < requested
      <4> HIDE DEF h, P
      <4> QED
        BY <1>3, <1>8, <3>1
    <3> QED
      BY <2>1, <2>2, <2>3, <3>1, <3>2, Zenon
  <2>5. Running(more, new)
    BY <1>3, <1>5, <1>8, <2>4, Zenon DEF Running
  <2>6. SpaceInv(phase[p], more, todo[p], held[p], new)
    BY <1>1, <2>5, SpaceOf, Zenon
  <2> HIDE DEF h
  <2>e. new \in Heaps /\ error' \in {0, EINVAL, ENOMEM}
    BY <1>5, <1>8, Zenon
  <2> QED
    BY <1>1, <1>u, <1>8, <2>6, <2>e, OneProcess, Zenon
<1>9. CASE /\ InHeap(p, requested) /\ requested < h.brk
           /\ pages' = Put(pages, p, less)
           /\ heap' = Put(heap, p, new)
           /\ error' = 0
  <2>1. \A q \in Pages : q \in shrink <=> ~(q * P < requested) /\ q * P < h.brk
    <3>1. shrink = PageRange(AlignUp(requested), AlignUp(h.brk))
      BY <1>3, <1>9, Zenon DEF ShrinkPages
    <3>2. \A q \in Pages : AlignUp(requested) <= q * P <=> ~(q * P < AlignUp(requested))
      <4> HIDE DEF h, P
      <4> QED
        BY <1>4, <1>6
    <3> HIDE DEF shrink
    <3> QED
      BY <1>6, <3>1, <3>2, Zenon DEF PageRange
  <2>2. \A q \in Pages : less[q] = IF q \in shrink THEN NoFrame ELSE pages[p][q]
    BY Zenon
  <2> HIDE DEF shrink, less, new
  <2>3. \A q \in PageRange(h.start, Limit) : less[q] # NoFrame <=> q * P < requested
    <3> SUFFICES ASSUME NEW q \in PageRange(h.start, Limit)
                 PROVE  less[q] # NoFrame <=> q * P < requested
      OBVIOUS
    <3>1. q \in Pages /\ q * P \in Nat /\ (pages[p][q] # NoFrame <=> q * P < h.brk)
      BY <1>3, <1>4, Zenon DEF PageRange
    <3>2. q * P < requested => q * P < h.brk
      <4> HIDE DEF h, P
      <4> QED
        BY <1>3, <1>9, <3>1
    <3> QED
      BY <2>1, <2>2, <3>1, <3>2, Zenon
  <2>4. Running(less, new)
    BY <1>3, <1>5, <1>9, <2>3, Zenon DEF Running
  <2>5. SpaceInv(phase[p], less, todo[p], held[p], new)
    BY <1>1, <2>4, SpaceOf, Zenon
  <2> HIDE DEF h
  <2>e. new \in Heaps /\ error' \in {0, EINVAL, ENOMEM}
    BY <1>5, <1>9, Zenon
  <2> QED
    BY <1>1, <1>u, <1>9, <2>5, <2>e, OneProcess, Zenon
<1> QED
  BY <1>7, <1>8, <1>9, BrkOutcomes, Zenon

-----------------------------------------------------------------------------
(***************************************************************************)
(* The theorems.                                                           *)
(***************************************************************************)

\* No process has started.
LEMMA InitHeap == Init => HeapInv
<1> SUFFICES ASSUME Init PROVE HeapInv
  OBVIOUS
<1>1. FrameInv
  BY InitFrames, Zenon
<1>2. NoHeap \in Heaps
  BY Constants DEF NoHeap, Heaps
<1>3. HeapTypes
  BY <1>2, Zenon DEF Init, HeapTypes, Phases
<1>4. \A p \in Procs : phase[p] = "none" /\ Unstarted(pages[p], held[p])
  BY Zenon DEF Init, Unstarted
<1>5. \A p \in Procs : SpaceInv(phase[p], pages[p], todo[p], held[p], heap[p])
  BY <1>4, Zenon DEF SpaceInv
<1> QED
  BY <1>1, <1>3, <1>5, Zenon DEF HeapInv

\* Every step keeps the invariant.
LEMMA NextHeap == HeapInv /\ [Next]_vars => HeapInv'
<1> SUFFICES ASSUME HeapInv, [Next]_vars PROVE HeapInv'
  OBVIOUS
<1>1. CASE UNCHANGED vars
  BY <1>1, Zenon DEF vars, HeapInv, HeapTypes, FrameInv, FrameTypes, Owns
<1>2. ASSUME NEW p \in Procs, NEW image \in Images, NewUser(p, image) PROVE HeapInv'
  BY <1>2, NewUserHeap
<1>3. ASSUME NEW p \in Procs, AllocatePage(p) PROVE HeapInv'
  BY <1>3, AllocatePageHeap
<1>4. ASSUME NEW p \in Procs, NEW q \in Pages, MapFrame(p, q) PROVE HeapInv'
  BY <1>4, MapFrameHeap, Zenon
<1>5. ASSUME NEW p \in Procs, Spawn(p) \/ End(p) PROVE HeapInv'
  BY <1>5, SpawnAndEndHeap, Zenon
<1>6. ASSUME NEW p \in Procs, NEW requested \in 0 .. Limit + 1, SysBrk(p, requested)
      PROVE  HeapInv'
  BY <1>6, SysBrkHeap
<1> QED
  BY <1>1, <1>2, <1>3, <1>4, <1>5, <1>6, Zenon DEF Next

\* sys_brk_current and map_user_heap_pages keep the metadata and the page
\* tables in step, for any layout, number of frames and image: between the
\* start and the limit of a running process's heap exactly the pages that hold
\* a byte below the break are mapped.
THEOREM HeapStaysMapped == Spec => []HeapIsMapped
<1>1. Init => HeapInv
  BY InitHeap, Zenon
<1>2. HeapInv /\ [Next]_vars => HeapInv'
  BY NextHeap, Zenon
<1>3. HeapInv => HeapIsMapped
  BY InvIsEnough
<1> QED
  BY <1>1, <1>2, <1>3, PTL DEF Spec

\* A brk that returns an error has changed neither the break nor a mapping.
THEOREM FailedBrkLeavesHeap == Spec => FailedBrkKeepsHeap
<1> DEFINE Kept == error' # 0 => UNCHANGED <<heap, pages>>
<1>1. Init => HeapInv
  BY InitHeap
<1>2. HeapInv /\ [Next]_vars => HeapInv'
  BY NextHeap
<1>3. HeapInv /\ [Next]_vars => [Kept]_vars
  <2> SUFFICES ASSUME HeapInv, Next, error' # 0 PROVE UNCHANGED <<heap, pages>>
    BY Zenon
  <2>1. \A p \in Procs :
          /\ \A image \in Images : ~ NewUser(p, image)
          /\ ~ AllocatePage(p)
          /\ \A q \in Pages : ~ MapFrame(p, q)
          /\ ~ Spawn(p) /\ ~ End(p)
    BY DEF NewUser, AllocatePage, MapFrame, Spawn, End
  <2>2. PICK p \in Procs, requested \in 0 .. Limit + 1 : SysBrk(p, requested)
    BY <2>1, Zenon DEF Next
  <2>3. requested \in Nat
    BY Constants
  <2>4. (pages' = pages /\ heap' = heap) \/ error' = 0
    BY <2>2, <2>3, BrkOutcomes, Zenon
  <2> QED
    BY <2>4, Zenon
<1> QED
  BY <1>1, <1>2, <1>3, PTL DEF Spec, FailedBrkKeepsHeap

\* What one step may do to page q of process p.
Survives(p, q) ==
  LET address == q * PageSize IN
  /\ pages[p][q] \notin {NoFrame, pages'[p][q]} =>
       /\ pages'[p][q] = NoFrame
       /\ heap[p].start <= address /\ address < Limit
       /\ heap'[p].brk <= address
  /\ pages'[p][q] \notin {NoFrame, pages[p][q]} =>
       pages'[p][q] >= next \/ pages'[p][q] = held[p]

\* A page keeps its frame through map_frame, which only fills empty entries.
LEMMA MapFrameSurvival ==
  ASSUME HeapInv, NEW r \in Procs, NEW s \in Pages, MapFrame(r, s),
         NEW p \in Procs, NEW q \in Pages
  PROVE  Survives(p, q)
<1>1. \/ pages' = pages
      \/ pages[r][s] = NoFrame /\ pages' = [pages EXCEPT ![r][s] = held[r]]
  BY Zenon DEF MapFrame
<1>2. pages \in [Procs -> [Pages -> FrameOrNone]]
  BY Zenon DEF HeapInv, FrameInv, FrameTypes
<1>3. \/ pages'[p][q] = pages[p][q]
      \/ pages[p][q] = NoFrame /\ pages'[p][q] = held[p]
  BY <1>1, <1>2
<1> QED
  BY <1>3, Zenon DEF Survives

\* brk takes pages away above the new break and gives new frames to others.
LEMMA SysBrkSurvival ==
  ASSUME HeapInv, NEW r \in Procs, NEW requested \in Nat, SysBrk(r, requested),
         NEW p \in Procs, NEW q \in Pages
  PROVE  Survives(p, q)
<1> DEFINE grow == GrowPages(r, requested)
           shrink == ShrinkPages(r, requested)
           more == MapUserHeapPages(r, grow)
           less == [x \in Pages |-> IF x \in shrink THEN NoFrame ELSE pages[r][x]]
           new == SetBreak(heap[r], requested)
<1>1. /\ pages \in [Procs -> [Pages -> FrameOrNone]] /\ next \in Nat
      /\ heap \in [Procs -> Heaps]
  BY OneSpace DEF HeapInv, FrameInv, FrameTypes, HeapTypes
<1>2. heap[r] \in Heaps /\ Running(pages[r], heap[r])
  <2>1. heap[r] \in Heaps /\ SpaceInv(phase[r], pages[r], todo[r], held[r], heap[r])
    BY OneHeap, Zenon
  <2>2. phase[r] = "running"
    BY Zenon DEF SysBrk
  <2> QED
    BY <2>1, <2>2, Zenon DEF SpaceInv
<1>3. CASE pages' = pages
  BY <1>3, Zenon DEF Survives
<1>4. CASE p # r /\ (pages' = Put(pages, r, more) \/ pages' = Put(pages, r, less))
  <2>1. pages'[p][q] = pages[p][q]
    BY <1>1, <1>4 DEF Put
  <2> QED
    BY <2>1, Zenon DEF Survives
<1>5. CASE p = r /\ MapSucceeds(r, grow) /\ pages' = Put(pages, r, more)
  <2>1. pages'[p][q] = more[q]
    BY <1>1, <1>5, Zenon DEF Put
  <2>2. \/ more[q] = pages[p][q]
        \/ q \in grow /\ more[q] = PageFrame(p, grow, q) /\ pages[p][q] = NoFrame
    BY <1>5 DEF MapUserHeapPages, MapSucceeds
  <2>3. q \in grow => PageFrame(p, grow, q) >= next
    <3>1. grow \in SUBSET Pages
      BY Zenon DEF GrowPages, PageRange
    <3>2. \A x \in grow : PageFrame(p, grow, x) \in Nat /\ next <= PageFrame(p, grow, x)
      BY <1>1, <3>1, FramesAreNew, Zenon
    <3> QED
      BY <1>1, <3>2, Zenon
  <2> HIDE DEF grow, more
  <2> QED
    BY <2>1, <2>2, <2>3, Zenon DEF Survives
<1>6. CASE /\ p = r /\ InHeap(r, requested) /\ pages' = Put(pages, r, less)
           /\ heap' = Put(heap, r, new)
  <2>1. pages'[p][q] = less[q]
    BY <1>1, <1>6, Zenon DEF Put
  <2>2. heap'[p].brk = requested
    <3>1. new.brk = requested /\ new \in Heaps
      BY <1>2, <1>6, NewBreak, Zenon DEF InHeap
    <3> HIDE DEF new
    <3> QED
      BY <1>1, <1>6, <3>1 DEF Put
  <2>3. q \in shrink => /\ heap[p].start <= q * PageSize /\ q * PageSize < Limit
                        /\ requested <= q * PageSize
    BY <1>2, <1>6, ShrinkIsMapped, Zenon DEF PageRange
  <2>4. (q \in shrink /\ less[q] = NoFrame) \/ less[q] = pages[p][q]
    BY <1>6, Zenon
  <2> HIDE DEF shrink, less
  <2> QED
    BY <2>1, <2>2, <2>3, <2>4, Zenon DEF Survives
<1> QED
  BY <1>3, <1>4, <1>5, <1>6, BrkOutcomes, Zenon

\* What a process has stored stays: a mapped page keeps its frame until a brk
\* to a break at or below the page takes it away, pages outside the heap keep
\* theirs for good, and a page that becomes mapped gets a frame that was not in
\* use before.
THEOREM PagesKeepTheirFrames == Spec => MappedPagesSurvive
<1> DEFINE Kept ==
      \A p \in Procs, q \in Pages :
        LET address == q * PageSize IN
        /\ pages[p][q] \notin {NoFrame, pages'[p][q]} =>
             /\ pages'[p][q] = NoFrame
             /\ heap[p].start <= address /\ address < Limit
             /\ heap'[p].brk <= address
        /\ pages'[p][q] \notin {NoFrame, pages[p][q]} =>
             pages'[p][q] >= next \/ pages'[p][q] = held[p]
<1>1. Init => HeapInv
  BY InitHeap
<1>2. HeapInv /\ [Next]_vars => HeapInv'
  BY NextHeap
<1>3. HeapInv /\ [Next]_vars => [Kept]_vars
  <2> SUFFICES ASSUME HeapInv, Next, NEW p \in Procs, NEW q \in Pages
               PROVE  Survives(p, q)
    BY Zenon DEF Survives
  <2>1. CASE UNCHANGED pages
    BY <2>1, Zenon DEF Survives
  <2>2. CASE \E r \in Procs, s \in Pages : MapFrame(r, s)
    BY <2>2, MapFrameSurvival
  <2>3. CASE \E r \in Procs, requested \in 0 .. Limit + 1 : SysBrk(r, requested)
    BY <2>3, SysBrkSurvival
  <2>4. \A r \in Procs :
          /\ \A image \in Images : NewUser(r, image) => UNCHANGED pages
          /\ AllocatePage(r) => UNCHANGED pages
          /\ Spawn(r) => UNCHANGED pages
          /\ End(r) => UNCHANGED pages
    BY Zenon DEF NewUser, AllocatePage, Spawn, End
  <2> QED
    BY <2>1, <2>2, <2>3, <2>4, Zenon DEF Next
<1> QED
  BY <1>1, <1>2, <1>3, PTL DEF Spec, MappedPagesSurvive

-----------------------------------------------------------------------------
(***************************************************************************)
(* The errors of brk.  The page just below a heap and the top page of the  *)
(* stack are mapped before the process runs, and so the page tables on the *)
(* way to them exist; the heap needs no others.                            *)
(***************************************************************************)
BelowHeap(hp) == hp.start \div PageSize - 1

TopOfStack == StackTop \div PageSize - 1

\* The tables on the way to page q are there, or the loader will make them.
Ready(tb, td, q) == q \in td \/ \A t \in TablesFor(q) : tb[t] # NoFrame

Anchored(ph, tb, td, hp) ==
  /\ ph \in {"loading", "running"} =>
       /\ LoadStart < hp.start
       /\ Ready(tb, td, BelowHeap(hp)) /\ Ready(tb, td, TopOfStack)
  /\ ph = "running" => td = {}

TableInv == \A p \in Procs : Anchored(phase[p], tables[p], todo[p], heap[p])

\* The tables a process has stay.
Keeps(tb, tb2) == \A t \in Tables : tb[t] # NoFrame => tb2[t] # NoFrame

\* The tables on the way to a page.
LEMMA TablesOfPages ==
  ASSUME NEW q \in Pages
  PROVE  TablesFor(q) \subseteq Tables
<1> DEFINE top == StackTop \div PageSize
<1>1. top \in Nat /\ TableSpan \in Nat \ {0} /\ q \in Nat /\ q <= top - 1
  BY Constants DEF Pages
<1> HIDE DEF top
<1>2. q \div TableSpan \in Nat /\ (top - 1) \div TableSpan \in Nat
      /\ q \div TableSpan <= (top - 1) \div TableSpan
  <2>1. top - 1 \in Nat
    BY <1>1
  <2> QED  BY <1>1, <2>1, DivMonotone
<1>3. Tables = 0 .. 3 + (top - 1) \div TableSpan
  BY Zenon DEF Tables, top
<1> DEFINE a == q \div TableSpan
           b == (top - 1) \div TableSpan
<1>4. TablesFor(q) = {1, 2, 3 + a} /\ Tables = 0 .. 3 + b
  BY <1>3, Zenon DEF TablesFor
<1> HIDE DEF a, b
<1> QED  BY <1>2, <1>4 DEF a, b

\* A page stays ready when no table goes and only ready pages leave the list.
LEMMA StaysReady ==
  ASSUME NEW tb, NEW tb2, Keeps(tb, tb2), NEW td, NEW q \in Pages, Ready(tb, td, q)
  PROVE  Ready(tb2, td, q)
BY TablesOfPages, Zenon DEF Ready, Keeps

\* The pages that hold the tables are pages.
LEMMA AnchorPages ==
  ASSUME NEW start \in Nat, NEW k \in Nat, start = k * PageSize,
         LoadStart < start, start <= Limit
  PROVE  /\ TopOfStack \in Pages /\ TopOfStack \in StackRegion
         /\ start \div PageSize = k /\ k - 1 \in Pages
         /\ LoadStart \div PageSize <= k - 1
<1> DEFINE P == PageSize
           top == StackTop \div P
           ld == LoadStart \div P
<1>1. /\ P \in Nat \ {0} /\ LoadStart \in Nat /\ Limit \in Nat /\ StackTop \in Nat
      /\ StackPages \in Nat \ {0}
  BY Constants, Zenon
<1>2. top \in Nat /\ top * P = StackTop /\ ld \in Nat /\ ld * P = LoadStart
  BY Constants, Multiple, Zenon
<1>3. Limit + P <= StackTop - StackPages * P
  BY LayoutAssumption, Zenon
<1>4. StackPages * P \in Nat
  BY <1>1, NextMultiple, Zenon
<1>5. Limit < StackTop
  BY <1>1, <1>3, <1>4
<1>6. start \div P = k
  BY <1>1
<1>7. TopOfStack = top - 1 /\ Pages = 0 .. top - 1 /\ StackRegion = top - StackPages .. top - 1
  BY Zenon DEF TopOfStack, Pages, StackRegion
<1> HIDE DEF P, top, ld
<1>8. ld < k
  <2>1. ld * P < k * P
    BY <1>2, Zenon DEF P
  <2> QED  BY <1>2, <2>1, BelowInPages, Zenon DEF P
<1>9. k < top
  <2>1. k * P < top * P
    BY <1>1, <1>2, <1>5 DEF P
  <2> QED  BY <1>2, <2>1, BelowInPages, Zenon DEF P
<1> QED  BY <1>1, <1>2, <1>6, <1>7, <1>8, <1>9 DEF P, ld

\* Where a heap that may start is.
LEMMA StartOfHeap ==
  ASSUME NEW start \in Nat, GoodStart(start)
  PROVE  start <= Limit /\ \E k \in Nat : start = k * PageSize
<1>1. start < Limit /\ Limit \in Nat
  BY Constants, Zenon DEF GoodStart
<1>2. \E k \in Nat : AlignUp(start) = k * PageSize
  BY AlignUpRounds, Zenon
<1> QED  BY <1>1, <1>2 DEF GoodStart

\* heap_for_loaded_image: the last page of the image is just below the heap.
LEMMA ImageBelowHeap ==
  ASSUME NEW image \in Images, GoodStart(StartFor(image)), NEW hp,
         hp.start = StartFor(image)
  PROVE  /\ LoadStart < hp.start
         /\ BelowHeap(hp) \in ListFor(image) /\ TopOfStack \in ListFor(image)
<1> DEFINE end == image.maxSegmentEnd
           start == StartFor(image)
           P == PageSize
           last == (end - 1) \div P
<1>1. end \in Nat /\ LoadStart < end /\ last \in image.pages
  BY ImageAssumption, Zenon
<1>2. P \in Nat \ {0} /\ LoadStart \in Nat
  BY Constants, Zenon
<1>3. start \in Nat /\ end <= start /\ \A q \in Nat : q * P < start <=> q * P < end
  BY <1>1, AlignUpRounds, Zenon DEF StartFor
<1> HIDE DEF start
<1>4. LoadStart < start
  BY <1>1, <1>2, <1>3
<1>5. PICK k \in Nat : start = k * P
  BY <1>3, StartOfHeap, Zenon DEF start
<1>6. /\ TopOfStack \in StackRegion /\ start \div P = k
  <2>1. start <= Limit
    BY <1>3, StartOfHeap, Zenon DEF start
  <2> QED  BY <1>3, <1>4, <1>5, <2>1, AnchorPages, Zenon
<1>7. end - 1 \in Nat
  BY <1>1, <1>2
<1>8. last \in Nat /\ last * P <= end - 1 /\ end - 1 < last * P + P
  BY <1>2, <1>7, Quotient, Zenon
<1> HIDE DEF last, P
<1>9. k > 0
  BY <1>2, <1>3, <1>4, <1>5
<1>10. last = k - 1
  <2>1. k - 1 \in Nat
    BY <1>9
  <2>2. (k - 1) * P + P = k * P /\ (k - 1) * P \in Nat /\ last * P \in Nat
    BY <1>2, <1>8, <2>1
  <2>3. last < k
    <3>1. last * P < k * P
      BY <1>1, <1>3, <1>5, <1>8, <2>2
    <3> QED  BY <1>8, <3>1, BelowInPages, Zenon DEF P
  <2>4. CASE last < k - 1
    <3>1. last * P + P <= (k - 1) * P
      BY <1>2, <1>8, <2>1, <2>4, NextMultiple, Zenon
    <3>2. end <= (k - 1) * P
      <4> DEFINE a == last * P
                 b == (k - 1) * P
      <4>1. a \in Nat /\ b \in Nat /\ end - 1 < a + P /\ a + P <= b
        BY <1>8, <2>2, <3>1, Zenon
      <4> HIDE DEF a, b
      <4>2. end <= b
        BY <1>1, <1>2, <4>1
      <4> QED  BY <4>2, Zenon DEF b
    <3>3. (k - 1) * P < start
      BY <1>2, <1>5, <2>2
    <3>4. (k - 1) * P < end
      BY <1>3, <2>1, <3>3, Zenon DEF P
    <3> QED  BY <1>1, <2>2, <3>2, <3>4
  <2> QED  BY <1>8, <2>1, <2>3, <2>4
<1>11. BelowHeap(hp) = last
  BY <1>6, <1>10, Zenon DEF BelowHeap, start, P
<1> QED  BY <1>1, <1>4, <1>6, <1>11, Zenon DEF ListFor, start

\* A step of one process leaves the others as they were.
LEMMA OthersAnchored ==
  ASSUME TableInv, HeapInv, NEW p \in Procs,
         \A r \in Procs : r # p =>
           /\ phase'[r] = phase[r] /\ tables'[r] = tables[r]
           /\ todo'[r] = todo[r] /\ heap'[r] = heap[r],
         Anchored(phase'[p], tables'[p], todo'[p], heap'[p])
  PROVE  TableInv'
<1>1. ASSUME NEW r \in Procs
      PROVE  Anchored(phase'[r], tables'[r], todo'[r], heap'[r])
  <2>1. CASE r = p
    BY <2>1, Zenon
  <2>2. CASE r # p
    <3>1. Anchored(phase[r], tables[r], todo[r], heap[r])
      BY Zenon DEF TableInv
    <3> QED  BY <2>2, <3>1, Zenon
  <2> QED  BY <2>1, <2>2, Zenon
<1> QED  BY <1>1, Zenon DEF TableInv

\* A process that loads or runs has its anchors among the pages.
LEMMA AnchorsOf ==
  ASSUME HeapInv, TableInv, NEW p \in Procs, phase[p] \in {"loading", "running"}
  PROVE  /\ LoadStart < heap[p].start
         /\ BelowHeap(heap[p]) \in Pages /\ TopOfStack \in Pages
         /\ Ready(tables[p], todo[p], BelowHeap(heap[p]))
         /\ Ready(tables[p], todo[p], TopOfStack)
<1> DEFINE start == heap[p].start
<1>1. /\ LoadStart < start /\ Ready(tables[p], todo[p], BelowHeap(heap[p]))
      /\ Ready(tables[p], todo[p], TopOfStack)
  BY Zenon DEF TableInv, Anchored
<1>2. heap[p] \in Heaps /\ GoodStart(start)
  BY OneHeap, PhaseOf, Zenon DEF Loading, Running
<1>3. start \in Nat
  BY <1>2, Constants DEF Heaps
<1>4. BelowHeap(heap[p]) = start \div PageSize - 1
  BY Zenon DEF BelowHeap
<1> HIDE DEF start
<1>5. start <= Limit /\ \E k \in Nat : start = k * PageSize
  BY <1>2, <1>3, StartOfHeap, Zenon
<1>6. BelowHeap(heap[p]) \in Pages /\ TopOfStack \in Pages
  <2>1. PICK k \in Nat : start = k * PageSize
    BY <1>5, Zenon
  <2>2. TopOfStack \in Pages /\ start \div PageSize = k /\ k - 1 \in Pages
    BY <1>1, <1>3, <1>5, <2>1, AnchorPages, Zenon DEF start
  <2> QED  BY <1>4, <2>2, Zenon
<1> QED  BY <1>1, <1>6, Zenon DEF start

\* AddressSpace::new_user
LEMMA NewUserTables ==
  ASSUME HeapInv, TableInv, NEW p \in Procs, NEW image \in Images, NewUser(p, image)
  PROVE  TableInv'
<1> DEFINE start == StartFor(image)
<1>1. HeapTypes /\ FrameTypes
  BY Zenon DEF HeapInv, FrameInv
<1>2. CASE next < Frames
  <2>1. /\ phase' = [phase EXCEPT ![p] = "loading"]
        /\ tables' = [tables EXCEPT ![p][0] = next]
        /\ todo' = [todo EXCEPT ![p] = ListFor(image)]
        /\ heap' = [heap EXCEPT ![p] = NewHeap(start)]
        /\ LoadStart <= start /\ start < Limit
    BY <1>2, Zenon DEF NewUser, ListFor, StartFor
  <2>2. /\ phase'[p] = "loading" /\ todo'[p] = ListFor(image) /\ heap'[p] = NewHeap(start)
        /\ \A r \in Procs : r # p =>
             /\ phase'[r] = phase[r] /\ tables'[r] = tables[r]
             /\ todo'[r] = todo[r] /\ heap'[r] = heap[r]
    BY <1>1, <2>1, Zenon DEF HeapTypes, FrameTypes
  <2>3. GoodStart(start)
    BY <2>1, ImageLayout, Zenon
  <2>4. NewHeap(start).start = start
    BY Zenon DEF NewHeap
  <2>5. /\ LoadStart < heap'[p].start
        /\ BelowHeap(heap'[p]) \in todo'[p] /\ TopOfStack \in todo'[p]
    BY <2>2, <2>3, <2>4, ImageBelowHeap, Zenon
  <2>6. Anchored(phase'[p], tables'[p], todo'[p], heap'[p])
    BY <2>2, <2>5, Zenon DEF Anchored, Ready
  <2> QED  BY <2>2, <2>6, OthersAnchored, Zenon
<1>3. CASE ~(next < Frames)
  <2>1. phase' = [phase EXCEPT ![p] = "failed"] /\ UNCHANGED <<tables, todo, heap>>
    BY <1>3, Zenon DEF NewUser
  <2>2. /\ phase'[p] = "failed"
        /\ \A r \in Procs : r # p =>
             /\ phase'[r] = phase[r] /\ tables'[r] = tables[r]
             /\ todo'[r] = todo[r] /\ heap'[r] = heap[r]
    BY <1>1, <2>1, Zenon DEF HeapTypes
  <2>3. Anchored(phase'[p], tables'[p], todo'[p], heap'[p])
    BY <2>2, Zenon DEF Anchored
  <2> QED  BY <2>2, <2>3, OthersAnchored, Zenon
<1> QED  BY <1>2, <1>3, Zenon

\* The steps of one process that leave its tables, its list and its heap.
LEMMA PhaseTables ==
  ASSUME HeapInv, TableInv, NEW p \in Procs, AllocatePage(p) \/ Spawn(p) \/ End(p)
  PROVE  TableInv'
<1>1. HeapTypes /\ FrameTypes /\ Anchored(phase[p], tables[p], todo[p], heap[p])
  BY Zenon DEF HeapInv, FrameInv, TableInv
<1>2. UNCHANGED <<tables, todo, heap>>
  BY Zenon DEF AllocatePage, Spawn, End
<1>3. /\ \A r \in Procs : r # p => phase'[r] = phase[r]
      /\ \/ phase'[p] \in {phase[p], "failed", "ended"}
         \/ phase'[p] = "running" /\ phase[p] = "loading" /\ todo[p] = {}
  BY <1>1, Zenon DEF HeapTypes, AllocatePage, Spawn, End
<1>4. Anchored(phase'[p], tables'[p], todo'[p], heap'[p])
  BY <1>1, <1>2, <1>3, Zenon DEF Anchored
<1> QED  BY <1>2, <1>3, <1>4, OthersAnchored, Zenon
\* The tables that map_frame makes for a page.
LEMMA LoaderTables ==
  ASSUME FrameInv, NEW p \in Procs, NEW q \in Pages, NEW tb,
         NEW M, M = Missing(p, {q}),
         tb = [t \in Tables |-> IF t \in M /\ Numbered(M, t) < Frames
                                THEN Numbered(M, t) ELSE tables[p][t]]
  PROVE  /\ Keeps(tables[p], tb)
         /\ next + Cardinality(M) <= Frames => \A t \in TablesFor(q) : tb[t] # NoFrame
<1>1. next \in Nat /\ Frames \in Nat
  BY OneSpace, Constants
<1>2. /\ Cardinality(M) \in Nat
      /\ \A t \in M : Numbered(M, t) \in Nat /\ Numbered(M, t) < next + Cardinality(M)
  BY <1>1, LoaderTableFrames, Zenon
<1>3. \A n \in Nat : n # NoFrame
  BY DEF NoFrame
<1>4. \A t \in Tables : tb[t] = IF t \in M /\ Numbered(M, t) < Frames
                                THEN Numbered(M, t) ELSE tables[p][t]
  BY Zenon
<1>5. Keeps(tables[p], tb)
  BY <1>2, <1>3, <1>4, Zenon DEF Keeps
<1>6. ASSUME next + Cardinality(M) <= Frames, NEW t \in TablesFor(q)
      PROVE  tb[t] # NoFrame
  <2>1. t \in Tables
    BY TablesOfPages, Zenon
  <2>2. CASE t \in M
    <3>1. Numbered(M, t) < Frames
      BY <1>1, <1>2, <1>6, <2>2
    <3> QED  BY <1>2, <1>3, <1>4, <2>1, <2>2, <3>1, Zenon
  <2>3. CASE t \notin M
    <3>1. tables[p][t] # NoFrame
      BY <2>3, Zenon DEF Missing
    <3> QED  BY <1>4, <2>1, <2>3, <3>1, Zenon
  <2> QED  BY <2>2, <2>3, Zenon
<1> QED  BY <1>5, <1>6, Zenon

\* Second critical section: map_frame.
LEMMA MapFrameTables ==
  ASSUME HeapInv, TableInv, NEW p \in Procs, NEW q \in Pages, MapFrame(p, q)
  PROVE  TableInv'
<1> DEFINE M == Missing(p, {q})
           tb == [t \in Tables |-> IF t \in M /\ Numbered(M, t) < Frames
                                   THEN Numbered(M, t) ELSE tables[p][t]]
           ok == next + Cardinality(M) <= Frames /\ pages[p][q] = NoFrame
<1>1. HeapTypes /\ FrameTypes /\ FrameInv
  BY Zenon DEF HeapInv, FrameInv
<1>2. phase[p] = "loading" /\ heap' = heap /\ tables' = [tables EXCEPT ![p] = tb]
  BY Zenon DEF MapFrame, Numbered
<1>3. tables'[p] = tb /\ \A r \in Procs : r # p => tables'[r] = tables[r]
  BY <1>1, <1>2, Zenon DEF FrameTypes
<1>4. Keeps(tables[p], tb) /\ (ok => \A t \in TablesFor(q) : tb[t] # NoFrame)
  BY <1>1, LoaderTables, Zenon
<1>5. /\ LoadStart < heap[p].start
      /\ BelowHeap(heap[p]) \in Pages /\ TopOfStack \in Pages
      /\ Ready(tables[p], todo[p], BelowHeap(heap[p]))
      /\ Ready(tables[p], todo[p], TopOfStack)
  BY <1>2, AnchorsOf, Zenon
<1> HIDE DEF tb
<1>6. Ready(tb, todo[p], BelowHeap(heap[p])) /\ Ready(tb, todo[p], TopOfStack)
  BY <1>4, <1>5, StaysReady, Zenon
<1>7. CASE ok
  <2>1. todo' = [todo EXCEPT ![p] = @ \ {q}] /\ phase' = phase
    BY <1>7, Zenon DEF MapFrame
  <2>2. todo'[p] = todo[p] \ {q} /\ \A r \in Procs : r # p => todo'[r] = todo[r]
    BY <1>1, <2>1, Zenon DEF HeapTypes
  <2>3. \A r : Ready(tb, todo[p], r) => Ready(tb, todo[p] \ {q}, r)
    BY <1>4, <1>7, Zenon DEF Ready
  <2>4. phase'[p] = "loading" /\ "loading" # "running"
    BY <1>2, <2>1
  <2>5. Anchored(phase'[p], tables'[p], todo'[p], heap'[p])
    BY <1>2, <1>3, <1>5, <1>6, <2>2, <2>3, <2>4, Zenon DEF Anchored
  <2> QED  BY <1>2, <1>3, <2>1, <2>2, <2>5, OthersAnchored, Zenon
<1>8. CASE ~ok
  <2>1. todo' = todo /\ phase' = [phase EXCEPT ![p] = "failed"]
    BY <1>8, Zenon DEF MapFrame
  <2>2. phase'[p] = "failed" /\ \A r \in Procs : r # p => phase'[r] = phase[r]
    BY <1>1, <2>1, Zenon DEF HeapTypes
  <2>3. Anchored(phase'[p], tables'[p], todo'[p], heap'[p])
    BY <2>2, Zenon DEF Anchored
  <2> QED  BY <1>2, <1>3, <2>1, <2>2, <2>3, OthersAnchored, Zenon
<1> QED  BY <1>7, <1>8, Zenon

\* sys_brk_current
LEMMA SysBrkTables ==
  ASSUME HeapInv, TableInv, NEW p \in Procs, NEW requested \in Nat, SysBrk(p, requested)
  PROVE  TableInv'
<1> DEFINE tried == Attempted(p, GrowPages(p, requested))
           tb == TablesAfterMap(p, tried)
<1>1. HeapTypes /\ FrameTypes /\ FrameInv /\ heap[p] \in Heaps
  BY OneHeap, Zenon DEF HeapInv, FrameInv
<1>2. /\ phase[p] = "running" /\ phase' = phase /\ todo' = todo
      /\ tables' = [tables EXCEPT ![p] = tb]
  BY Zenon DEF SysBrk
<1>3. tables'[p] = tb /\ \A r \in Procs : r # p => tables'[r] = tables[r]
  BY <1>1, <1>2, Zenon DEF FrameTypes
<1>4. heap'[p].start = heap[p].start /\ \A r \in Procs : r # p => heap'[r] = heap[r]
  <2>1. \/ heap' = heap
        \/ InHeap(p, requested) /\ heap' = Put(heap, p, SetBreak(heap[p], requested))
    BY BrkOutcomes, Zenon
  <2>2. CASE heap' = heap
    BY <2>2, Zenon
  <2>3. CASE InHeap(p, requested) /\ heap' = Put(heap, p, SetBreak(heap[p], requested))
    <3>1. SetBreak(heap[p], requested).start = heap[p].start
      BY <1>1, <2>3, NewBreak, Zenon DEF InHeap
    <3>2. /\ heap'[p] = SetBreak(heap[p], requested)
          /\ \A r \in Procs : r # p => heap'[r] = heap[r]
      BY <1>1, <2>3, Zenon DEF Put, HeapTypes
    <3> QED  BY <3>1, <3>2, Zenon
  <2> QED  BY <2>1, <2>2, <2>3, Zenon
<1>5. Keeps(tables[p], tb)
  <2>2. ASSUME NEW t \in Tables, tables[p][t] # NoFrame
        PROVE  tb[t] # NoFrame
    <3>1. t \notin Missing(p, tried)
      BY <2>2, Zenon DEF Missing
    <3> QED  BY <2>2, <3>1, Zenon DEF TablesAfterMap
  <2> QED  BY <2>2, Zenon DEF Keeps
<1>6. /\ LoadStart < heap[p].start
      /\ BelowHeap(heap[p]) \in Pages /\ TopOfStack \in Pages
      /\ Ready(tables[p], todo[p], BelowHeap(heap[p]))
      /\ Ready(tables[p], todo[p], TopOfStack)
  BY <1>2, AnchorsOf, Zenon
<1> HIDE DEF tb
<1>7. Ready(tb, todo[p], BelowHeap(heap[p])) /\ Ready(tb, todo[p], TopOfStack)
  BY <1>5, <1>6, StaysReady, Zenon
<1>8. BelowHeap(heap'[p]) = BelowHeap(heap[p])
  BY <1>4, Zenon DEF BelowHeap
<1>9. todo[p] = {}
  BY <1>2, Zenon DEF TableInv, Anchored
<1>10. Anchored(phase'[p], tables'[p], todo'[p], heap'[p])
  BY <1>2, <1>3, <1>4, <1>6, <1>7, <1>8, <1>9, Zenon DEF Anchored
<1> QED  BY <1>2, <1>3, <1>4, <1>10, OthersAnchored, Zenon

\* At boot there is no process.
LEMMA InitTables == Init => TableInv
<1> SUFFICES ASSUME Init, NEW p \in Procs
             PROVE  Anchored(phase[p], tables[p], todo[p], heap[p])
  BY Zenon DEF TableInv
<1>1. phase[p] = "none"
  BY Zenon DEF Init
<1> QED  BY <1>1, Zenon DEF Anchored

\* Every step keeps the tables.
LEMMA NextTables == HeapInv /\ TableInv /\ [Next]_vars => TableInv'
<1> SUFFICES ASSUME HeapInv, TableInv, [Next]_vars PROVE TableInv'
  OBVIOUS
<1>1. CASE UNCHANGED vars
  BY <1>1, Zenon DEF vars, TableInv
<1>2. ASSUME NEW p \in Procs, NEW image \in Images, NewUser(p, image) PROVE TableInv'
  BY <1>2, NewUserTables, Zenon
<1>3. ASSUME NEW p \in Procs, AllocatePage(p) \/ Spawn(p) \/ End(p) PROVE TableInv'
  BY <1>3, PhaseTables, Zenon
<1>4. ASSUME NEW p \in Procs, NEW q \in Pages, MapFrame(p, q) PROVE TableInv'
  BY <1>4, MapFrameTables, Zenon
<1>5. ASSUME NEW p \in Procs, NEW requested \in 0 .. Limit + 1, SysBrk(p, requested)
      PROVE  TableInv'
  <2>1. requested \in Nat
    BY Constants
  <2> QED  BY <1>5, <2>1, SysBrkTables, Zenon
<1> QED  BY <1>1, <1>2, <1>3, <1>4, <1>5, Zenon DEF Next
\* The pages a brk adds to a running process are pages of its heap above the
\* page below it, none of them mapped, and the tables on the way to them exist.
LEMMA GrownPages ==
  ASSUME HeapInv, TableInv, NEW p \in Procs, phase[p] = "running",
         NEW requested \in Nat, NEW q \in GrowPages(p, requested)
  PROVE  /\ pages[p][q] = NoFrame
         /\ \A t \in TablesFor(q) : tables[p][t] # NoFrame
<1> DEFINE h == heap[p]
           P == PageSize
           m == Limit \div P
           ld == LoadStart \div P
           below == BelowHeap(h)
<1>1. /\ InHeap(p, requested) /\ requested <= Limit
      /\ q \in PageRange(h.mappedEnd, AlignUp(requested))
  BY Zenon DEF GrowPages, InHeap
<1>2. Running(pages[p], h) /\ h \in Heaps
  BY PhaseOf, OneHeap, Zenon
<1>3. /\ h.start \in Nat /\ h.brk \in Nat /\ h.start <= h.brk
      /\ h.mappedEnd = AlignUp(h.brk) /\ GoodStart(h.start)
  BY <1>2, Constants DEF Heaps, Running
<1>4. /\ P \in Nat \ {0} /\ TableSpan \in Nat \ {0} /\ Limit \in Nat
      /\ m \in Nat /\ m * P = Limit /\ ld \in Nat
  BY Constants, Multiple, Zenon
<1>5. q \in Pages /\ q \in Nat /\ q * P \in Nat
  BY <1>1, <1>4, PagesAreFinite, NextMultiple, Zenon DEF PageRange
<1>6. AlignUp(h.brk) <= q * P /\ q * P < AlignUp(requested)
  BY <1>1, <1>3, Zenon DEF PageRange
<1>7. /\ AlignUp(h.brk) \in Nat /\ h.brk <= AlignUp(h.brk)
      /\ AlignUp(requested) \in Nat /\ AlignUp(requested) <= Limit
  BY <1>1, <1>3, AlignUpRounds, AlignUpInLimit, Zenon
<1>8. h.brk <= q * P /\ h.start <= q * P /\ q * P < Limit
  BY <1>3, <1>4, <1>5, <1>6, <1>7
<1>9. pages[p][q] = NoFrame
  <2>1. q \in PageRange(h.start, Limit)
    BY <1>5, <1>8, Zenon DEF PageRange
  <2>2. ~(q * PageSize < h.brk)
    BY <1>3, <1>5, <1>8
  <2> QED  BY <1>2, <2>1, <2>2, Zenon DEF Running
<1>10. /\ LoadStart < h.start /\ below \in Pages /\ TopOfStack \in Pages
       /\ Ready(tables[p], todo[p], below) /\ Ready(tables[p], todo[p], TopOfStack)
  BY AnchorsOf, Zenon
<1>11. todo[p] = {}
  BY Zenon DEF TableInv, Anchored
<1>12. PICK k \in Nat : h.start = k * P
  BY <1>3, StartOfHeap, Zenon
<1>13. below = k - 1 /\ k - 1 \in Pages /\ ld <= k - 1
  <2>1. h.start <= Limit
    BY <1>3, StartOfHeap, Zenon
  <2> QED  BY <1>3, <1>10, <1>12, <2>1, AnchorPages, Zenon DEF BelowHeap
<1>14. below \in Nat
  BY <1>10, PagesAreFinite, Zenon
<1> HIDE DEF h, P, m, ld, below
<1>15. below <= q
  <2>1. k * P \in Nat /\ ~(q * P < k * P)
    BY <1>3, <1>5, <1>8, <1>12
  <2>2. q < k => q * P + P <= k * P
    BY <1>4, <1>5, NextMultiple, Zenon
  <2>3. ~(q < k)
    BY <1>4, <1>5, <2>1, <2>2
  <2> QED  BY <1>5, <1>13, <2>3
<1>16. q < m
  BY <1>4, <1>5, <1>8, BelowInPages, Zenon DEF P
<1>17. q \in ld .. m - 1
  BY <1>4, <1>5, <1>13, <1>14, <1>15, <1>16
<1>18. q \div TableSpan \in {ld \div TableSpan, TopOfStack \div TableSpan}
  BY <1>17, SpanAssumption, Zenon DEF ld, m, P, TopOfStack
<1>19. \/ q \div TableSpan = below \div TableSpan
       \/ q \div TableSpan = TopOfStack \div TableSpan
  <2>1. CASE q \div TableSpan = ld \div TableSpan
    <3>1. ld <= below
      BY <1>13, Zenon
    <3>2. ld \div TableSpan <= below \div TableSpan
      BY <1>4, <1>14, <3>1, DivMonotone, Zenon
    <3>3. below \div TableSpan <= q \div TableSpan
      BY <1>4, <1>5, <1>14, <1>15, DivMonotone, Zenon
    <3>4. below \div TableSpan \in Nat /\ ld \div TableSpan \in Nat
      BY <1>4, <1>14, Quotient, Zenon
    <3> QED  BY <2>1, <3>2, <3>3, <3>4
  <2>2. CASE q \div TableSpan = TopOfStack \div TableSpan
    BY <2>2, Zenon
  <2> QED  BY <1>18, <2>1, <2>2, Zenon
<1>20. TablesFor(q) = TablesFor(below) \/ TablesFor(q) = TablesFor(TopOfStack)
  BY <1>19, Zenon DEF TablesFor
<1> QED  BY <1>9, <1>10, <1>11, <1>20, Zenon DEF Ready

\* The number of pages between two page boundaries.
LEMMA PagesBetween ==
  ASSUME NEW i \in Nat, NEW j \in Nat, i <= j, j * PageSize <= Limit
  PROVE  Cardinality(PageRange(i * PageSize, j * PageSize)) =
           (j * PageSize - i * PageSize) \div PageSize
<1> DEFINE P == PageSize
           m == Limit \div P
           top == StackTop \div P
<1>1. /\ P \in Nat \ {0} /\ Limit \in Nat /\ m \in Nat /\ m * P = Limit
      /\ top \in Nat /\ top * P = StackTop /\ StackPages \in Nat \ {0}
  BY Constants, Multiple, Zenon
<1>2. Limit + P <= StackTop - StackPages * P /\ StackPages * P \in Nat
  BY <1>1, LayoutAssumption, NextMultiple, Zenon
<1>3. Pages = 0 .. top - 1
  BY Zenon DEF Pages
<1>4. (j * P - i * P) \div P = j - i
  <2>1. j - i \in Nat /\ j * P - i * P = (j - i) * P
    BY <1>1
  <2>2. \A n \in Nat : (n * P) \div P = n
    BY <1>1
  <2> QED  BY <2>1, <2>2, Zenon
<1> HIDE DEF P, m, top
<1>5. j <= top
  <2>1. top < j => top * P + P <= j * P
    BY <1>1, NextMultiple, Zenon
  <2>2. StackTop \in Nat /\ j * P \in Nat /\ j * P <= Limit
    BY <1>1, Constants, NextMultiple, Zenon DEF P
  <2> QED  BY <1>1, <1>2, <2>1, <2>2
<1>6. PageRange(i * P, j * P) = i .. j - 1
  <2>1. ASSUME NEW q \in Nat
        PROVE  /\ i * P <= q * P <=> i <= q
               /\ q * P < j * P <=> q < j
    <3>1. /\ q < i => q * P + P <= i * P
          /\ i <= q => i * P <= q * P
          /\ q < j => q * P + P <= j * P
          /\ j <= q => j * P <= q * P
          /\ i * P \in Nat /\ j * P \in Nat /\ q * P \in Nat
      BY <1>1, NextMultiple, Zenon
    <3> QED  BY <1>1, <3>1
  <2>2. \A q : q \in Pages <=> q \in Nat /\ q < top
    BY <1>1, <1>3
  <2>3. \A q : q \in i .. j - 1 <=> q \in Nat /\ i <= q /\ q < j
    OBVIOUS
  <2>4. \A q : q \in PageRange(i * P, j * P) <=>
                 q \in Pages /\ i * P <= q * P /\ q * P < j * P
    BY Zenon DEF PageRange, P
  <2>5. \A q \in Nat : q < j => q < top
    BY <1>1, <1>5
  <2> QED  BY <2>1, <2>2, <2>3, <2>4, <2>5, Zenon
<1>7. Cardinality(i .. j - 1) = j - i
  <2> DEFINE b == j - 1
  <2>1. b \in Int /\ i \in Int /\ (IF i > b THEN 0 ELSE b - i + 1) = j - i
    OBVIOUS
  <2> HIDE DEF b
  <2>2. Cardinality(i .. b) = IF i > b THEN 0 ELSE b - i + 1
    BY <2>1, FS_Interval, Zenon
  <2>3. Cardinality(i .. b) = j - i
    BY <2>1, <2>2
  <2> QED  BY <2>3 DEF b
<1> QED  BY <1>4, <1>6, <1>7, Zenon DEF P
\* A brk that would grow a running process's heap fails only for want of frames
\* for the new pages.
LEMMA GrowFails ==
  ASSUME HeapInv, TableInv, NEW p \in Procs, phase[p] = "running",
         NEW requested \in Nat, ~ MapSucceeds(p, GrowPages(p, requested))
  PROVE  next + (AlignUp(requested) - AlignUp(heap[p].brk)) \div PageSize > Frames
<1> DEFINE h == heap[p]
           grow == GrowPages(p, requested)
<1>1. FrameInv /\ next \in Nat /\ Frames \in Nat
  BY OneSpace, Constants DEF HeapInv
<1>2. grow # {}
  BY <1>1, GrowByNothing, Zenon
<1>3. /\ requested > h.brk /\ requested <= Limit
      /\ grow = PageRange(h.mappedEnd, AlignUp(requested))
  BY <1>2, Zenon DEF GrowPages, InHeap
<1>4. Running(pages[p], h) /\ h \in Heaps
  BY PhaseOf, OneHeap, Zenon
<1>5. h.brk \in Nat /\ h.mappedEnd = AlignUp(h.brk)
  BY <1>4, Constants DEF Heaps, Running
<1>6. PICK i \in Nat : AlignUp(h.brk) = i * PageSize
  BY <1>5, AlignUpRounds, Zenon
<1>7. PICK j \in Nat : AlignUp(requested) = j * PageSize
  BY AlignUpRounds, Zenon
<1>8. i <= j
  <2>1. PICK q : q \in grow
    BY <1>2, Zenon
  <2>2. q \in Pages /\ i * PageSize <= q * PageSize /\ q * PageSize < j * PageSize
    BY <1>3, <1>5, <1>6, <1>7, <2>1, Zenon DEF PageRange
  <2>3. PageSize \in Nat \ {0} /\ q \in Nat
    BY <2>2, PagesAreFinite, Constants, Zenon
  <2>4. i * PageSize \in Nat /\ j * PageSize \in Nat /\ q * PageSize \in Nat
    BY <2>3, NextMultiple, Zenon
  <2>5. i * PageSize < j * PageSize
    BY <2>2, <2>4
  <2> QED  BY <2>5, BelowInPages
<1>9. Cardinality(grow) = (AlignUp(requested) - AlignUp(h.brk)) \div PageSize
  <2>1. j * PageSize <= Limit
    BY <1>3, <1>7, AlignUpInLimit, Zenon
  <2> QED  BY <1>3, <1>5, <1>6, <1>7, <1>8, <2>1, PagesBetween, Zenon
<1>10. \A q \in grow : pages[p][q] = NoFrame
  BY GrownPages, Zenon
<1>11. Missing(p, grow) = {}
  <2>1. \A q \in grow : \A t \in TablesFor(q) : tables[p][t] # NoFrame
    BY GrownPages, Zenon
  <2> QED  BY <2>1, Zenon DEF Missing
<1> HIDE DEF grow
<1>12. ~(next + FramesFor(p, grow) <= Frames)
  BY <1>10, Zenon DEF MapSucceeds, grow
<1>13. grow \in SUBSET Pages
  BY <1>3, Zenon DEF PageRange
<1>14. Cardinality(grow) \in Nat
  BY <1>13, PartSizes, Zenon
<1>15. FramesFor(p, grow) = Cardinality(grow)
  <2>1. FramesFor(p, grow) = Cardinality(grow) + 0
    BY <1>11, FS_EmptySet, Zenon DEF FramesFor
  <2> QED  BY <1>14, <2>1
<1>16. next + Cardinality(grow) > Frames
  BY <1>1, <1>12, <1>14, <1>15
<1> QED  BY <1>9, <1>16, Zenon DEF h

\* What the tables say of the errors.
LEMMA ErrorsFollow == HeapInv /\ TableInv => BrkErrorsAreTrue
<1> SUFFICES ASSUME HeapInv, TableInv, NEW p \in Procs, phase[p] = "running",
                    NEW requested \in 0 .. Limit + 1
             PROVE  /\ BrkError(p, requested) = EINVAL => requested < heap[p].start
                    /\ BrkError(p, requested) = ENOMEM =>
                         \/ requested > Limit
                         \/ next + (AlignUp(requested) - AlignUp(heap[p].brk))
                                     \div PageSize > Frames
  BY Zenon DEF BrkErrorsAreTrue
<1> DEFINE h == heap[p]
<1>1. requested \in Nat /\ Limit \in Nat
  BY Constants
<1>2. EINVAL # ENOMEM /\ EINVAL # 0 /\ ENOMEM # 0
  BY DEF EINVAL, ENOMEM
<1>3. Running(pages[p], h) /\ h \in Heaps
  BY PhaseOf, OneHeap, Zenon
<1>4. h.start \in Nat
  BY <1>3, Constants DEF Heaps
<1> HIDE DEF h
<1>5. CASE requested = 0
  BY <1>2, <1>5, BrkErrorIs, Zenon
<1>6. CASE requested # 0 /\ ~ InHeap(p, requested)
  <2>1. BrkError(p, requested) = IF requested < h.start THEN EINVAL ELSE ENOMEM
    BY <1>6, Zenon DEF BrkError, h
  <2>2. requested < h.start \/ requested > Limit
    BY <1>1, <1>4, <1>6 DEF InHeap, h
  <2> QED  BY <1>2, <2>1, <2>2, Zenon DEF h
<1>7. CASE requested # 0 /\ InHeap(p, requested)
  <2> DEFINE shrink == ShrinkPages(p, requested)
  <2>1. BrkError(p, requested) = IF ~ MapSucceeds(p, GrowPages(p, requested)) THEN ENOMEM
                                 ELSE IF Unmapped(p, shrink) # shrink THEN EINVAL ELSE 0
    BY <1>7, BrkErrorIs, Zenon
  <2>2. \A q \in shrink : pages[p][q] # NoFrame
    BY <1>1, <1>3, ShrinkIsMapped, Zenon DEF h
  <2>3. Unmapped(p, shrink) = shrink
    BY <2>2, Zenon DEF Unmapped
  <2>4. ~ MapSucceeds(p, GrowPages(p, requested)) =>
          next + (AlignUp(requested) - AlignUp(heap[p].brk)) \div PageSize > Frames
    BY <1>1, GrowFails, Zenon
  <2> QED  BY <1>2, <2>1, <2>3, <2>4, Zenon
<1> QED  BY <1>5, <1>6, <1>7, Zenon

\* The error of sys_brk_current says what happened: -EINVAL is for a request
\* below the heap, and -ENOMEM for one above the limit or for fewer free frames
\* than the heap has pages to add.  Growing never has to make a page table, for
\* the image and the stack were mapped through the only two it can need.
THEOREM BrkErrorsStayTrue == Spec => []BrkErrorsAreTrue
<1>1. Init => HeapInv /\ TableInv
  BY InitHeap, InitTables, Zenon
<1>2. HeapInv /\ TableInv /\ [Next]_vars => HeapInv' /\ TableInv'
  BY NextHeap, NextTables, Zenon
<1>3. HeapInv /\ TableInv => BrkErrorsAreTrue
  BY ErrorsFollow, Zenon
<1> QED
  BY <1>1, <1>2, <1>3, PTL DEF Spec
=============================================================================
