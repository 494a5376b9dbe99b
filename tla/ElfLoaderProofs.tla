-------------------------- MODULE ElfLoaderProofs --------------------------
(***************************************************************************)
(* parse_elf accepts exactly the well formed files, and what it accepts is *)
(* loaded completely, for every file, layout and page size.                *)
(***************************************************************************)
EXTENDS ElfLoader, WellFoundedInduction, TLAPS

\* The parts of the layout assumption that are about single constants.
LEMMA Constants ==
  /\ PageSize \in Nat \ {0} /\ StackPages \in Nat /\ HeaderSize \in Nat \ {0} /\ PhSize \in Nat
  /\ LoadStart \in Nat /\ LoadEnd \in Nat /\ StackTop \in Nat /\ Word \in Nat
  /\ LoadStart % PageSize = 0 /\ LoadEnd % PageSize = 0 /\ StackTop % PageSize = 0
  /\ 0 < LoadStart /\ LoadStart < LoadEnd
  /\ LoadEnd + PageSize <= StackTop - StackPages * PageSize /\ StackTop < Word
BY ElfLayoutAssumption, Zenon

\* A number is its quotient times d and its remainder.
LEMMA Quotient ==
  ASSUME NEW n \in Nat, NEW d \in Nat \ {0}
  PROVE  /\ n \div d \in Nat /\ n % d \in Nat /\ n % d < d
         /\ n = (n \div d) * d + (n % d)
OBVIOUS

\* Multiples of d are at least d apart.
LEMMA NextMultiple ==
  ASSUME NEW a \in Nat, NEW b \in Nat, NEW d \in Nat \ {0}
  PROVE  /\ a * d \in Nat /\ b * d \in Nat
         /\ a < b => a * d + d <= b * d
         /\ a <= b => a * d <= b * d
OBVIOUS

\* Pages and addresses in order.
LEMMA PageMultiples ==
  ASSUME NEW a \in Nat, NEW b \in Nat
  PROVE  /\ a * PageSize \in Nat /\ b * PageSize \in Nat
         /\ a < b => a * PageSize + PageSize <= b * PageSize
         /\ a <= b => a * PageSize <= b * PageSize
<1>1. PageSize \in Nat \ {0}
  BY Constants, Zenon
<1> QED
  BY <1>1, NextMultiple, Zenon

\* The page of an address, and where in it the address is.
LEMMA PageOfAddress ==
  ASSUME NEW a \in Nat
  PROVE  /\ PageOf(a) \in Nat /\ a % PageSize \in Nat /\ a % PageSize < PageSize
         /\ a = PageOf(a) * PageSize + (a % PageSize)
         /\ PageOf(a) * PageSize <= a /\ a < PageOf(a) * PageSize + PageSize
<1>1. PageSize \in Nat \ {0}
  BY Constants, Zenon
<1> DEFINE q == PageOf(a)
           r == a % PageSize
<1>2. q \in Nat /\ r \in Nat /\ r < PageSize /\ a = q * PageSize + r
  BY <1>1, Quotient, Zenon DEF PageOf
<1> HIDE DEF q, r
<1>3. q * PageSize \in Nat
  BY <1>2, PageMultiples, Zenon
<1>4. q * PageSize <= a /\ a < q * PageSize + PageSize
  BY <1>1, <1>2, <1>3
<1> QED
  BY <1>2, <1>4, Zenon DEF q, r

\* The page of an address is the one it lies in.
LEMMA InPage ==
  ASSUME NEW a \in Nat, NEW q \in Nat, q * PageSize <= a, a < q * PageSize + PageSize
  PROVE  PageOf(a) = q
<1> DEFINE p == PageOf(a)
<1>1. p \in Nat /\ p * PageSize <= a /\ a < p * PageSize + PageSize
  BY PageOfAddress, Zenon
<1>2. /\ p * PageSize \in Nat /\ q * PageSize \in Nat
      /\ p < q => p * PageSize + PageSize <= q * PageSize
      /\ q < p => q * PageSize + PageSize <= p * PageSize
  BY <1>1, PageMultiples, Zenon
<1> HIDE DEF p
<1>3. p = q
  BY <1>1, <1>2, Constants
<1> QED
  BY <1>3, Zenon DEF p

\* The page of a page boundary.
LEMMA PageBoundary ==
  ASSUME NEW q \in Nat
  PROVE  PageOf(q * PageSize) = q
<1>1. q * PageSize \in Nat
  BY PageMultiples, Zenon
<1>2. q * PageSize <= q * PageSize /\ q * PageSize < q * PageSize + PageSize
  BY <1>1, Constants
<1> QED
  BY <1>1, <1>2, InPage, Zenon

\* An address without a remainder is a page boundary.
LEMMA Aligned ==
  ASSUME NEW a \in Nat, a % PageSize = 0
  PROVE  PageOf(a) \in Nat /\ a = PageOf(a) * PageSize /\ AlignDown(a) = a
<1>1. PageOf(a) \in Nat /\ a = PageOf(a) * PageSize + 0
  BY PageOfAddress, Zenon
<1>2. PageOf(a) * PageSize \in Nat
  BY <1>1, PageMultiples, Zenon
<1>3. a = PageOf(a) * PageSize
  BY <1>1, <1>2
<1> QED
  BY <1>1, <1>3, Zenon DEF AlignDown, PageOf

\* Rounding up, with p the number of pages below the result.
LEMMA RoundedUp ==
  ASSUME NEW a \in Nat
  PROVE  LET p == PageOf(a + PageSize - 1)
         IN  /\ p \in Nat /\ AlignDown(a + PageSize - 1) = p * PageSize
             /\ a <= p * PageSize /\ p * PageSize < a + PageSize
             /\ \A q \in Nat : a <= q * PageSize <=> p <= q
<1> DEFINE b == a + PageSize - 1
           p == PageOf(b)
<1>1. b \in Nat
  BY Constants
<1>2. p \in Nat /\ p * PageSize <= b /\ b < p * PageSize + PageSize
  BY <1>1, PageOfAddress, Zenon
<1>3. AlignDown(b) = p * PageSize
  BY Zenon DEF AlignDown, PageOf
<1>4. p * PageSize \in Nat
  BY <1>2, PageMultiples, Zenon
<1> HIDE DEF p
<1>5. a <= p * PageSize /\ p * PageSize < a + PageSize
  BY <1>2, <1>4, Constants
<1>6. ASSUME NEW q \in Nat
      PROVE  a <= q * PageSize <=> p <= q
  <2>1. /\ q * PageSize \in Nat /\ (p <= q => p * PageSize <= q * PageSize)
        /\ q < p => q * PageSize + PageSize <= p * PageSize
    BY <1>2, PageMultiples, Zenon
  <2> QED
    BY <1>2, <1>4, <1>5, <2>1, Constants
<1> QED
  BY <1>2, <1>3, <1>5, <1>6, Zenon DEF p

\* The smaller of two numbers.
LEMMA MinOfTwo ==
  ASSUME NEW a \in Int, NEW b \in Int
  PROVE  Min({a, b}) = IF a <= b THEN a ELSE b
<1> DEFINE S == {a, b}
<1>1. CASE a <= b
  <2>1. \A x \in S : (\A y \in S : x =< y) <=> x = a
    BY <1>1
  <2> QED
    BY <1>1, <2>1 DEF Min
<1>2. CASE ~(a <= b)
  <2>1. \A x \in S : (\A y \in S : x =< y) <=> x = b
    BY <1>2
  <2> QED
    BY <1>2, <2>1, Zenon DEF Min
<1> QED
  BY <1>1, <1>2, Zenon

\* Checked addition: Word stands for overflow.
LEMMA Sum64 ==
  ASSUME NEW a \in Nat, NEW b \in Nat
  PROVE  CheckedAdd(a, b) = IF a + b <= Word THEN a + b ELSE Word
BY MinOfTwo, Constants DEF CheckedAdd

\* A set of naturals has a least element, and Min finds it.
LEMMA Least ==
  ASSUME NEW S \in SUBSET Nat, S # {}
  PROVE  Min(S) \in S /\ \A y \in S : Min(S) <= y
<1>1. PICK x \in S : \A y \in S : ~(<<y, x>> \in OpToRel(<, Nat))
  BY WFMin, NatLessThanWellFounded, Zenon
<1>2. \A y \in S : ~(y < x)
  BY <1>1, Zenon DEF OpToRel
<1>3. \A y \in S : x <= y
  BY <1>2
<1> QED
  BY <1>3, Zenon DEF Min

\* A set of naturals with an upper bound has a greatest element, and Max finds it.
LEMMA Greatest ==
  ASSUME NEW S \in SUBSET Nat, S # {}, NEW n \in Nat, \A x \in S : x <= n
  PROVE  Max(S) \in S /\ \A y \in S : y <= Max(S)
<1> DEFINE B == {m \in Nat : \A x \in S : x <= m}
           x == Min(B)
<1>1. B \in SUBSET Nat /\ B # {}
  BY Zenon
<1>2. x \in B /\ \A m \in B : x <= m
  BY <1>1, Least, Zenon
<1>3. x \in Nat /\ (\A z \in S : z <= x) /\ \A m \in Nat : (\A z \in S : z <= m) => x <= m
  BY <1>2, Zenon
<1> HIDE DEF x, B
<1>4. x \in S
  <2>1. ASSUME x \notin S PROVE FALSE
    <3>1. \A z \in S : z < x
      BY <1>3, <2>1
    <3>2. x - 1 \in Nat
      <4>1. PICK y \in S : TRUE
        BY Zenon
      <4>2. y \in Nat /\ y < x
        BY <3>1, <4>1, Zenon
      <4> QED
        BY <1>3, <4>2
    <3>3. \A z \in S : z <= x - 1
      BY <1>3, <3>1
    <3>4. x <= x - 1
      BY <1>3, <3>2, <3>3, Zenon
    <3> QED
      BY <1>3, <3>4
  <2> QED
    BY <2>1, Zenon
<1>5. \A z \in S : x >= z
  BY <1>3, Zenon
<1>6. Max(S) \in S /\ \A z \in S : Max(S) >= z
  BY <1>4, <1>5, Zenon DEF Max
<1> QED
  BY <1>6, Zenon

-----------------------------------------------------------------------------
(* parse_elf *)

\* What a list of checks returns.
LEMMA FirstErrorIs ==
  ASSUME NEW checks, NEW n \in Nat, DOMAIN checks = 1 .. n,
         NEW E, \A i \in 1 .. n : checks[i][1] => checks[i][2] \in E
  PROVE  /\ FirstError(checks) \in E \cup {"Ok"}
         /\ (\A i \in 1 .. n : ~checks[i][1]) => FirstError(checks) = "Ok"
         /\ (\E i \in 1 .. n : checks[i][1]) => FirstError(checks) \in E
<1> DEFINE failing == {i \in DOMAIN checks : checks[i][1]}
<1>1. FirstError(checks) = IF failing = {} THEN "Ok" ELSE checks[Min(failing)][2]
  BY Zenon DEF FirstError
<1>2. ASSUME failing # {} PROVE Min(failing) \in failing
  <2>1. failing \in SUBSET Nat
    OBVIOUS
  <2> QED
    BY <1>2, <2>1, Least, Zenon
<1>3. failing # {} => FirstError(checks) \in E
  BY <1>1, <1>2, Zenon
<1> QED
  BY <1>1, <1>3, Zenon

\* The header of a well formed file.
GoodHeader(f) ==
  /\ f.len >= HeaderSize
  /\ f.magic /\ f.class /\ f.data /\ f.version /\ f.type /\ f.machine
  /\ f.ehsize /\ f.phentsize
  /\ Len(f.ph) > 0 /\ f.phoff + PhSize * Len(f.ph) <= f.len

\* parse_elf accepts the header of a file exactly when it is well formed.
LEMMA HeaderChecks ==
  ASSUME NEW f, IsFile(f)
  PROVE  /\ HeaderError(f) \in ParseErrors \cup {"Ok"}
         /\ HeaderError(f) = "Ok" <=> GoodHeader(f)
<1> DEFINE size == PhSize * Len(f.ph)
           end == CheckedAdd(f.phoff, size)
           checks == <<
             <<f.len < 1,           "MalformedHeader">>,
             <<~f.magic,            "BadMagic">>,
             <<f.len < HeaderSize,  "MalformedHeader">>,
             <<~f.class,            "UnsupportedClass">>,
             <<~f.data,             "UnsupportedEndian">>,
             <<~f.version,          "MalformedHeader">>,
             <<~f.type,             "UnsupportedType">>,
             <<~f.machine,          "UnsupportedMachine">>,
             <<~f.ehsize,           "MalformedHeader">>,
             <<~f.phentsize,        "MalformedProgramHeader">>,
             <<Len(f.ph) = 0,       "MalformedHeader">>,
             <<end = Word,          "MalformedProgramHeader">>,
             <<end > f.len,         "MalformedProgramHeader">> >>
<1>1. HeaderError(f) = FirstError(checks)
  BY Zenon DEF HeaderError
<1>2. DOMAIN checks = 1 .. 13 /\ 13 \in Nat
  OBVIOUS
<1>3. /\ checks[1][1] = (f.len < 1) /\ checks[1][2] = "MalformedHeader"
      /\ checks[2][1] = ~f.magic /\ checks[2][2] = "BadMagic"
      /\ checks[3][1] = (f.len < HeaderSize) /\ checks[3][2] = "MalformedHeader"
      /\ checks[4][1] = ~f.class /\ checks[4][2] = "UnsupportedClass"
      /\ checks[5][1] = ~f.data /\ checks[5][2] = "UnsupportedEndian"
      /\ checks[6][1] = ~f.version /\ checks[6][2] = "MalformedHeader"
      /\ checks[7][1] = ~f.type /\ checks[7][2] = "UnsupportedType"
      /\ checks[8][1] = ~f.machine /\ checks[8][2] = "UnsupportedMachine"
      /\ checks[9][1] = ~f.ehsize /\ checks[9][2] = "MalformedHeader"
      /\ checks[10][1] = ~f.phentsize /\ checks[10][2] = "MalformedProgramHeader"
      /\ checks[11][1] = (Len(f.ph) = 0) /\ checks[11][2] = "MalformedHeader"
      /\ checks[12][1] = (end = Word) /\ checks[12][2] = "MalformedProgramHeader"
      /\ checks[13][1] = (end > f.len) /\ checks[13][2] = "MalformedProgramHeader"
  BY Zenon
<1> HIDE DEF checks
<1>4. \A i : i \in 1 .. 13 <=> \/ i = 1 \/ i = 2 \/ i = 3 \/ i = 4 \/ i = 5 \/ i = 6 \/ i = 7
                              \/ i = 8 \/ i = 9 \/ i = 10 \/ i = 11 \/ i = 12 \/ i = 13
  OBVIOUS
<1>5. \A i \in 1 .. 13 : checks[i][2] \in ParseErrors
  <2>1. \A i \in 1 .. 13 :
          checks[i][2] \in {"MalformedHeader", "BadMagic", "UnsupportedClass", "UnsupportedEndian",
                            "UnsupportedType", "UnsupportedMachine", "MalformedProgramHeader"}
    BY <1>3, <1>4, ZenonT(40)
  <2> QED
    BY <2>1, Zenon DEF ParseErrors
<1>6. "Ok" \notin ParseErrors
  BY Zenon DEF ParseErrors
<1>7. /\ FirstError(checks) \in ParseErrors \cup {"Ok"}
      /\ FirstError(checks) = "Ok" <=> \A i \in 1 .. 13 : ~checks[i][1]
  BY <1>2, <1>5, <1>6, FirstErrorIs, Zenon
<1>8. (\A i \in 1 .. 13 : ~checks[i][1]) <=>
        /\ ~(f.len < 1) /\ f.magic /\ ~(f.len < HeaderSize) /\ f.class /\ f.data /\ f.version
        /\ f.type /\ f.machine /\ f.ehsize /\ f.phentsize
        /\ Len(f.ph) # 0 /\ end # Word /\ ~(end > f.len)
  <2>1. (\A i \in 1 .. 13 : ~checks[i][1]) <=>
          /\ ~checks[1][1] /\ ~checks[2][1] /\ ~checks[3][1] /\ ~checks[4][1] /\ ~checks[5][1]
          /\ ~checks[6][1] /\ ~checks[7][1] /\ ~checks[8][1] /\ ~checks[9][1] /\ ~checks[10][1]
          /\ ~checks[11][1] /\ ~checks[12][1] /\ ~checks[13][1]
    BY <1>4, Zenon
  <2> QED
    BY <1>3, <2>1, ZenonT(40)
<1>9. f.len \in Nat /\ f.len < Word /\ f.phoff \in Nat /\ Len(f.ph) \in Nat
  <2>1. f.len \in U64 /\ f.phoff \in U64 /\ f.ph \in Seq(ProgramHeader)
    BY Zenon DEF IsFile
  <2> QED
    BY <2>1, Constants DEF U64
<1>10. size \in Nat
  BY <1>9, Constants
<1>11. end = IF f.phoff + size <= Word THEN f.phoff + size ELSE Word
  BY <1>9, <1>10, Sum64, Zenon
<1> HIDE DEF size, end
<1>12. ~(f.len < 1) /\ ~(f.len < HeaderSize) <=> f.len >= HeaderSize
  BY <1>9, Constants
<1>13. end # Word /\ ~(end > f.len) <=> f.phoff + size <= f.len
  BY <1>9, <1>10, <1>11, Constants
<1>14. Len(f.ph) # 0 <=> Len(f.ph) > 0
  BY <1>9
<1> QED
  BY <1>1, <1>7, <1>8, <1>12, <1>13, <1>14, Zenon DEF GoodHeader, size

\* align_up is checked: Word stands for overflow.
LEMMA AlignedUp ==
  ASSUME NEW a \in Nat
  PROVE  LET p == PageOf(a + PageSize - 1)
         IN  AlignUp(a) = IF a + PageSize - 1 < Word THEN p * PageSize ELSE Word
<1> DEFINE b == a + PageSize - 1
<1>1. PageSize - 1 \in Nat /\ a + (PageSize - 1) = b /\ Word \in Nat /\ b \in Nat
  BY Constants
<1>2. CheckedAdd(a, PageSize - 1) = IF b <= Word THEN b ELSE Word
  BY <1>1, Sum64, Zenon
<1>3. AlignUp(a) = IF CheckedAdd(a, PageSize - 1) = Word THEN Word ELSE AlignDown(b)
  BY Zenon DEF AlignUp
<1>4. AlignDown(b) = PageOf(b) * PageSize
  BY Zenon DEF AlignDown, PageOf
<1> HIDE DEF b
<1>5. CheckedAdd(a, PageSize - 1) = Word <=> ~(b < Word)
  <2> DEFINE c == CheckedAdd(a, PageSize - 1)
  <2>1. c = IF b <= Word THEN b ELSE Word
    BY <1>2, Zenon
  <2> HIDE DEF c
  <2>2. c = Word <=> ~(b < Word)
    BY <1>1, <2>1
  <2> QED
    BY <2>2, Zenon DEF c
<1> QED
  BY <1>3, <1>4, <1>5, Zenon DEF b

\* Numbers of 64 bits.
LEMMA Words ==
  ASSUME NEW x \in U64
  PROVE  x \in Nat /\ x < Word
BY Constants DEF U64

\* The types of the fields of a program header.
LEMMA HeaderFields ==
  ASSUME NEW h \in ProgramHeader
  PROVE  /\ h.load \in BOOLEAN /\ h.flags \in Nat
         /\ h.offset \in Nat /\ h.vaddr \in Nat /\ h.filesz \in Nat /\ h.memsz \in Nat
<1>1. /\ h.load \in BOOLEAN /\ h.flags \in U64 /\ h.offset \in U64 /\ h.vaddr \in U64
      /\ h.filesz \in U64 /\ h.memsz \in U64
  BY Zenon DEF ProgramHeader
<1> QED
  BY <1>1, Words, Zenon

\* The pages of a segment: the first one, and the one after the last.
First(h) == PageOf(h.vaddr)
Past(h) == PageOf(h.vaddr + h.memsz + PageSize - 1)

InWindow(h) == LoadStart <= h.vaddr /\ h.vaddr + h.memsz <= LoadEnd

\* The range that map_user_region gets for a segment in the load window.
LEMMA SegmentPlace ==
  ASSUME NEW h \in ProgramHeader, h.vaddr % PageSize = 0, 0 < h.memsz, InWindow(h)
  PROVE  /\ First(h) \in Nat /\ Past(h) \in Nat /\ First(h) < Past(h)
         /\ h.vaddr = First(h) * PageSize /\ h.vaddr + h.memsz <= Past(h) * PageSize
         /\ Past(h) * PageSize < h.vaddr + h.memsz + PageSize
         /\ MapStart(h) = h.vaddr /\ MapEnd(h) = Past(h) * PageSize
         /\ PageOf(MapStart(h)) = First(h) /\ PageOf(MapEnd(h)) = Past(h)
         /\ LoadStart <= MapStart(h) /\ MapEnd(h) <= LoadEnd /\ MapStart(h) < MapEnd(h)
         /\ CheckedAdd(h.vaddr, h.memsz) # Word /\ AlignUp(CheckedAdd(h.vaddr, h.memsz)) # Word
         /\ \A q \in Nat : h.vaddr + h.memsz <= q * PageSize <=> Past(h) <= q
<1> DEFINE v == h.vaddr
           end == h.vaddr + h.memsz
           p == Past(h)
           top == PageOf(LoadEnd)
<1>1. v \in Nat /\ h.memsz \in Nat
  BY HeaderFields, Zenon
<1>2. end \in Nat /\ v < end
  BY <1>1
<1>3. First(h) \in Nat /\ v = First(h) * PageSize /\ MapStart(h) = v
  BY <1>1, Aligned, Zenon DEF First, MapStart
<1>4. /\ p \in Nat /\ AlignDown(end + PageSize - 1) = p * PageSize
      /\ end <= p * PageSize /\ p * PageSize < end + PageSize
      /\ \A q \in Nat : end <= q * PageSize <=> p <= q
  BY <1>2, RoundedUp, Zenon DEF Past
<1>5. end <= LoadEnd /\ LoadStart <= v
  BY Zenon DEF InWindow
<1>6. LoadEnd + PageSize < Word /\ LoadEnd \in Nat /\ LoadEnd % PageSize = 0
  <2>1. StackPages * PageSize \in Nat
    BY Constants, PageMultiples, Zenon
  <2> QED
    BY <2>1, Constants
<1>7. AlignUp(end) = IF end + PageSize - 1 < Word THEN p * PageSize ELSE Word
  BY <1>2, AlignedUp, Zenon DEF Past
<1>8. CheckedAdd(v, h.memsz) = IF end <= Word THEN end ELSE Word
  BY <1>1, Sum64, Zenon
<1> HIDE DEF end
<1>9. end < Word /\ end + PageSize - 1 < Word
  BY <1>2, <1>5, <1>6, Constants
<1>10. CheckedAdd(v, h.memsz) = end /\ end # Word
  BY <1>2, <1>8, <1>9, Constants
<1>11. MapEnd(h) = p * PageSize /\ AlignUp(end) = p * PageSize
  BY <1>7, <1>9, <1>10, Zenon DEF MapEnd
<1>12. top \in Nat /\ LoadEnd = top * PageSize
  BY <1>6, Aligned, Zenon
<1> HIDE DEF p, top, v
<1>13. p * PageSize <= LoadEnd
  <2>1. p <= top
    BY <1>4, <1>5, <1>12, Zenon
  <2> QED
    BY <1>4, <1>12, <2>1, PageMultiples, Zenon
<1>14. p * PageSize \in Nat
  BY <1>4, PageMultiples, Zenon
<1>15. v < p * PageSize /\ p * PageSize # Word
  BY <1>1, <1>2, <1>4, <1>6, <1>13, <1>14, Constants DEF v
<1>16. First(h) < p
  <2> DEFINE fst == First(h)
  <2>1. p <= fst => p * PageSize <= fst * PageSize
    BY <1>3, <1>4, PageMultiples, Zenon
  <2>2. fst * PageSize < p * PageSize /\ fst \in Nat /\ fst * PageSize \in Nat
    BY <1>1, <1>3, <1>15, Zenon DEF v
  <2> HIDE DEF fst
  <2>3. fst < p
    BY <1>4, <1>14, <2>1, <2>2
  <2> QED
    BY <2>3, Zenon DEF fst
<1>17. PageOf(MapStart(h)) = First(h) /\ PageOf(MapEnd(h)) = p
  BY <1>3, <1>4, <1>11, PageBoundary, Zenon
<1> QED
  BY <1>3, <1>4, <1>5, <1>10, <1>11, <1>13, <1>15, <1>16, <1>17, Zenon DEF p, v, end

\* The pages of a segment are those that its bytes lie in.
LEMMA TouchedPages ==
  ASSUME NEW h \in ProgramHeader, h.vaddr % PageSize = 0, 0 < h.memsz, InWindow(h)
  PROVE  /\ Touched(h) = First(h) .. Past(h) - 1
         /\ \A a \in Bytes(h) : a \in Addresses /\ a \in Nat /\ PageOf(a) \in Touched(h)
         /\ \A q \in Touched(h) : q \in Pages /\ q < PageOf(LoadEnd)
<1> DEFINE v == h.vaddr
           end == h.vaddr + h.memsz
           fst == First(h)
           p == Past(h)
           top == PageOf(StackTop)
           lend == PageOf(LoadEnd)
<1>1. v \in Nat /\ h.memsz \in Nat
  BY HeaderFields, Zenon
<1>2. /\ fst \in Nat /\ p \in Nat /\ fst < p /\ v = fst * PageSize
      /\ end <= p * PageSize /\ p * PageSize <= LoadEnd
      /\ \A q \in Nat : end <= q * PageSize <=> p <= q
  BY SegmentPlace, Zenon
<1>3. end \in Nat /\ Bytes(h) = v .. end - 1
  BY <1>1 DEF Bytes
<1>4. top \in Nat /\ StackTop = top * PageSize /\ lend \in Nat /\ LoadEnd = lend * PageSize
  BY Constants, Aligned, Zenon
<1>5. LoadEnd < StackTop
  <2>1. StackPages * PageSize \in Nat
    BY Constants, PageMultiples, Zenon
  <2> QED
    BY <2>1, Constants
<1>6. Pages = 0 .. top - 1
  BY Zenon DEF Pages, PageOf
<1> HIDE DEF v, end, fst, p, top, lend
<1>7. p <= lend /\ lend < top
  <2>1. /\ lend < p => lend * PageSize + PageSize <= p * PageSize
        /\ top <= lend => top * PageSize <= lend * PageSize
        /\ lend * PageSize \in Nat /\ p * PageSize \in Nat /\ top * PageSize \in Nat
    BY <1>2, <1>4, PageMultiples, Zenon
  <2> QED
    BY <1>2, <1>4, <1>5, <2>1, Constants
<1>8. ASSUME NEW a \in Bytes(h)
      PROVE  a \in Nat /\ PageOf(a) \in fst .. p - 1 /\ a < StackTop
  <2> DEFINE q == PageOf(a)
  <2>1. a \in Nat /\ v <= a /\ a < end
    BY <1>1, <1>3 DEF v
  <2>2. q \in Nat /\ q * PageSize <= a /\ a < q * PageSize + PageSize
    BY <2>1, PageOfAddress, Zenon
  <2>3. /\ q < fst => q * PageSize + PageSize <= fst * PageSize
        /\ p <= q => p * PageSize <= q * PageSize
        /\ q * PageSize \in Nat /\ p * PageSize \in Nat /\ fst * PageSize \in Nat
    BY <1>2, <2>2, PageMultiples, Zenon
  <2> HIDE DEF q
  <2>4. q \in fst .. p - 1
    BY <1>2, <1>3, <2>1, <2>2, <2>3, Constants
  <2>5. a < StackTop
    BY <1>2, <1>3, <1>5, <2>1, <2>3, Constants
  <2> QED
    BY <2>1, <2>4, <2>5, Zenon DEF q
<1>9. ASSUME NEW q \in fst .. p - 1
      PROVE  q \in Pages /\ q < lend /\ \E a \in Bytes(h) : PageOf(a) = q
  <2>1. q \in Nat /\ fst <= q /\ ~(p <= q)
    BY <1>2
  <2>2. fst * PageSize <= q * PageSize /\ q * PageSize \in Nat
    BY <1>2, <2>1, PageMultiples, Zenon
  <2>3. ~(end <= q * PageSize)
    BY <1>2, <2>1, Zenon
  <2>4. q * PageSize \in Bytes(h)
    BY <1>1, <1>2, <1>3, <2>2, <2>3 DEF v
  <2>5. PageOf(q * PageSize) = q
    BY <2>1, PageBoundary, Zenon
  <2>6. q \in Pages /\ q < lend
    BY <1>2, <1>4, <1>6, <1>7, <2>1
  <2> QED
    BY <2>4, <2>5, <2>6, Zenon
<1>10. Touched(h) = fst .. p - 1
  BY <1>8, <1>9, Zenon DEF Touched
<1>11. \A a \in Nat : a < StackTop => a \in Addresses
  BY Constants DEF Addresses
<1> QED
  BY <1>8, <1>9, <1>10, <1>11, Zenon DEF fst, p, lend

\* A segment as WellFormed asks for it, apart from the other segments.
GoodSegment(f, h) ==
  /\ h.load /\ KnownFlags(h.flags) /\ h.align = PageSize
  /\ h.vaddr % PageSize = 0 /\ h.offset % PageSize = 0
  /\ 0 < h.memsz /\ h.filesz <= h.memsz
  /\ h.offset + h.filesz <= f.len
  /\ InWindow(h)

\* The checks of the range of an aligned segment accept the load window.
LEMMA RangeChecks ==
  ASSUME NEW h \in ProgramHeader, h.vaddr % PageSize = 0, 0 < h.memsz
  PROVE  LET segmentEnd == CheckedAdd(h.vaddr, h.memsz) IN
         InWindow(h) <=>
           /\ segmentEnd # Word /\ AlignUp(segmentEnd) # Word
           /\ ~(MapStart(h) < LoadStart \/ MapEnd(h) > LoadEnd \/ MapStart(h) >= MapEnd(h))
<1> DEFINE v == h.vaddr
           m == h.memsz
           segmentEnd == CheckedAdd(v, m)
           p == PageOf(v + m + PageSize - 1)
<1>1. v \in Nat /\ m \in Nat /\ v + m \in Nat
  <2>1. v \in Nat /\ m \in Nat
    BY HeaderFields, Zenon
  <2> QED
    BY <2>1
<1>2. ASSUME InWindow(h)
      PROVE  /\ segmentEnd # Word /\ AlignUp(segmentEnd) # Word
             /\ ~(MapStart(h) < LoadStart \/ MapEnd(h) > LoadEnd \/ MapStart(h) >= MapEnd(h))
  <2> DEFINE s == MapStart(h)
             e == MapEnd(h)
  <2>1. /\ segmentEnd # Word /\ AlignUp(segmentEnd) # Word
        /\ LoadStart <= s /\ e <= LoadEnd /\ s < e /\ s = v /\ e = Past(h) * PageSize
        /\ Past(h) \in Nat
    BY <1>2, SegmentPlace, Zenon
  <2>2. s \in Nat /\ e \in Nat
    BY <1>1, <2>1, PageMultiples, Zenon
  <2> HIDE DEF s, e
  <2>3. ~(s < LoadStart \/ e > LoadEnd \/ s >= e)
    BY <2>1, <2>2, Constants
  <2> QED
    BY <2>1, <2>3, Zenon DEF s, e
<1>3. ASSUME /\ segmentEnd # Word /\ AlignUp(segmentEnd) # Word
             /\ ~(MapStart(h) < LoadStart \/ MapEnd(h) > LoadEnd \/ MapStart(h) >= MapEnd(h))
      PROVE  InWindow(h)
  <2>1. segmentEnd = IF v + m <= Word THEN v + m ELSE Word
    BY <1>1, Sum64, Zenon
  <2>2. segmentEnd = v + m
    BY <1>3, <2>1, Zenon
  <2>3. AlignUp(v + m) = IF v + m + PageSize - 1 < Word THEN p * PageSize ELSE Word
    BY <1>1, AlignedUp, Zenon
  <2>4. MapEnd(h) = p * PageSize
    BY <1>3, <2>2, <2>3, Zenon DEF MapEnd
  <2>5. p \in Nat /\ v + m <= p * PageSize
    BY <1>1, RoundedUp, Zenon
  <2>6. p * PageSize \in Nat
    BY <2>5, PageMultiples, Zenon
  <2>7. MapStart(h) = v
    BY <1>1, Aligned, Zenon DEF MapStart
  <2>8. ~(v < LoadStart) /\ ~(p * PageSize > LoadEnd)
    BY <1>3, <2>4, <2>7, Zenon
  <2> HIDE DEF p
  <2>9. LoadStart <= v /\ v + m <= LoadEnd
    BY <1>1, <2>5, <2>6, <2>8, Constants
  <2> QED
    BY <2>9, Zenon DEF InWindow
<1> QED
  BY <1>2, <1>3, Zenon

\* parse_program_header accepts a segment exactly when it is a good one.
LEMMA ProgramHeaderChecks ==
  ASSUME NEW f, IsFile(f), NEW h \in ProgramHeader
  PROVE  /\ ProgramHeaderError(f, h) \in ParseErrors \cup {"Ok"}
         /\ ProgramHeaderError(f, h) = "Ok" <=> GoodSegment(f, h)
<1> DEFINE dataEnd == CheckedAdd(h.offset, h.filesz)
           segmentEnd == CheckedAdd(h.vaddr, h.memsz)
           checks == <<
             <<~h.load,                 "MalformedProgramHeader">>,
             <<~KnownFlags(h.flags),    "MalformedProgramHeader">>,
             <<h.memsz < h.filesz,      "SegmentMemSizeLessThanFileSize">>,
             <<h.memsz = 0,             "MalformedProgramHeader">>,
             << \/ h.align # PageSize
                \/ h.vaddr % PageSize # 0
                \/ h.offset % PageSize # 0, "UnalignedSegment">>,
             <<dataEnd = Word,          "MalformedProgramHeader">>,
             <<dataEnd > f.len,         "MalformedProgramHeader">>,
             <<segmentEnd = Word,       "MalformedProgramHeader">>,
             <<AlignUp(segmentEnd) = Word, "MalformedProgramHeader">>,
             << \/ MapStart(h) < LoadStart
                \/ MapEnd(h) > LoadEnd
                \/ MapStart(h) >= MapEnd(h), "SegmentOutsideUserRange">> >>
<1>1. ProgramHeaderError(f, h) = FirstError(checks)
  BY Zenon DEF ProgramHeaderError
<1>2. DOMAIN checks = 1 .. 10 /\ 10 \in Nat
  OBVIOUS
<1>3. /\ checks[1][1] = ~h.load /\ checks[1][2] = "MalformedProgramHeader"
      /\ checks[2][1] = ~KnownFlags(h.flags) /\ checks[2][2] = "MalformedProgramHeader"
      /\ checks[3][1] = (h.memsz < h.filesz) /\ checks[3][2] = "SegmentMemSizeLessThanFileSize"
      /\ checks[4][1] = (h.memsz = 0) /\ checks[4][2] = "MalformedProgramHeader"
      /\ checks[5][1] = (h.align # PageSize \/ h.vaddr % PageSize # 0 \/ h.offset % PageSize # 0)
      /\ checks[5][2] = "UnalignedSegment"
      /\ checks[6][1] = (dataEnd = Word) /\ checks[6][2] = "MalformedProgramHeader"
      /\ checks[7][1] = (dataEnd > f.len) /\ checks[7][2] = "MalformedProgramHeader"
      /\ checks[8][1] = (segmentEnd = Word) /\ checks[8][2] = "MalformedProgramHeader"
      /\ checks[9][1] = (AlignUp(segmentEnd) = Word) /\ checks[9][2] = "MalformedProgramHeader"
      /\ checks[10][1] = (MapStart(h) < LoadStart \/ MapEnd(h) > LoadEnd \/ MapStart(h) >= MapEnd(h))
      /\ checks[10][2] = "SegmentOutsideUserRange"
  BY Zenon
<1> HIDE DEF checks
<1>4. \A i : i \in 1 .. 10 <=> \/ i = 1 \/ i = 2 \/ i = 3 \/ i = 4 \/ i = 5 \/ i = 6 \/ i = 7
                              \/ i = 8 \/ i = 9 \/ i = 10
  OBVIOUS
<1>5. \A i \in 1 .. 10 : checks[i][2] \in ParseErrors
  <2>1. \A i \in 1 .. 10 :
          checks[i][2] \in {"MalformedProgramHeader", "SegmentMemSizeLessThanFileSize",
                            "UnalignedSegment", "SegmentOutsideUserRange"}
    BY <1>3, <1>4, Zenon
  <2> QED
    BY <2>1, Zenon DEF ParseErrors
<1>6. "Ok" \notin ParseErrors
  BY Zenon DEF ParseErrors
<1>7. /\ FirstError(checks) \in ParseErrors \cup {"Ok"}
      /\ FirstError(checks) = "Ok" <=> \A i \in 1 .. 10 : ~checks[i][1]
  BY <1>2, <1>5, <1>6, FirstErrorIs, Zenon
<1>8. (\A i \in 1 .. 10 : ~checks[i][1]) <=>
        /\ h.load /\ KnownFlags(h.flags) /\ ~(h.memsz < h.filesz) /\ h.memsz # 0
        /\ h.align = PageSize /\ h.vaddr % PageSize = 0 /\ h.offset % PageSize = 0
        /\ dataEnd # Word /\ ~(dataEnd > f.len)
        /\ segmentEnd # Word /\ AlignUp(segmentEnd) # Word
        /\ ~(MapStart(h) < LoadStart \/ MapEnd(h) > LoadEnd \/ MapStart(h) >= MapEnd(h))
  <2>1. (\A i \in 1 .. 10 : ~checks[i][1]) <=>
          /\ ~checks[1][1] /\ ~checks[2][1] /\ ~checks[3][1] /\ ~checks[4][1] /\ ~checks[5][1]
          /\ ~checks[6][1] /\ ~checks[7][1] /\ ~checks[8][1] /\ ~checks[9][1] /\ ~checks[10][1]
    BY <1>4, Zenon
  <2> QED
    BY <1>3, <2>1, Zenon
<1>9. f.len \in Nat /\ f.len < Word
  <2>1. f.len \in U64
    BY Zenon DEF IsFile
  <2> QED
    BY <2>1, Words, Zenon
<1>10. h.offset \in Nat /\ h.filesz \in Nat /\ h.memsz \in Nat
  BY HeaderFields, Zenon
<1>11. dataEnd = IF h.offset + h.filesz <= Word THEN h.offset + h.filesz ELSE Word
  BY <1>10, Sum64, Zenon
<1> HIDE DEF dataEnd
<1>12. dataEnd # Word /\ ~(dataEnd > f.len) <=> h.offset + h.filesz <= f.len
  BY <1>9, <1>10, <1>11, Constants
<1>13. /\ ~(h.memsz < h.filesz) <=> h.filesz <= h.memsz
       /\ h.memsz # 0 <=> 0 < h.memsz
  BY <1>10
<1>14. h.vaddr % PageSize = 0 /\ 0 < h.memsz =>
         (InWindow(h) <=>
            /\ segmentEnd # Word /\ AlignUp(segmentEnd) # Word
            /\ ~(MapStart(h) < LoadStart \/ MapEnd(h) > LoadEnd \/ MapStart(h) >= MapEnd(h)))
  BY RangeChecks, Zenon
<1> QED
  BY <1>1, <1>7, <1>8, <1>12, <1>13, <1>14, Zenon DEF GoodSegment

\* The overlap check compares ranges; two segments overlap exactly when they
\* touch a common page.
LEMMA OverlapIsSharing ==
  ASSUME NEW h \in ProgramHeader, h.vaddr % PageSize = 0, 0 < h.memsz, InWindow(h),
         NEW k \in ProgramHeader, k.vaddr % PageSize = 0, 0 < k.memsz, InWindow(k)
  PROVE  Overlaps(h, k) <=> Touched(h) \cap Touched(k) # {}
<1> DEFINE fh == First(h)
           ph == Past(h)
           fk == First(k)
           pk == Past(k)
<1>1. /\ fh \in Nat /\ ph \in Nat /\ fh < ph
      /\ MapStart(h) = fh * PageSize /\ MapEnd(h) = ph * PageSize /\ Touched(h) = fh .. ph - 1
  BY SegmentPlace, TouchedPages, Zenon
<1>2. /\ fk \in Nat /\ pk \in Nat /\ fk < pk
      /\ MapStart(k) = fk * PageSize /\ MapEnd(k) = pk * PageSize /\ Touched(k) = fk .. pk - 1
  BY SegmentPlace, TouchedPages, Zenon
<1> HIDE DEF fh, ph, fk, pk
<1>3. /\ fh < pk => fh * PageSize + PageSize <= pk * PageSize
      /\ pk <= fh => pk * PageSize <= fh * PageSize
      /\ fk < ph => fk * PageSize + PageSize <= ph * PageSize
      /\ ph <= fk => ph * PageSize <= fk * PageSize
      /\ fh * PageSize \in Nat /\ pk * PageSize \in Nat
      /\ fk * PageSize \in Nat /\ ph * PageSize \in Nat
  BY <1>1, <1>2, PageMultiples, Zenon
<1>4. fh * PageSize < pk * PageSize /\ fk * PageSize < ph * PageSize <=> fh < pk /\ fk < ph
  BY <1>1, <1>2, <1>3, Constants
<1>5. (fh .. ph - 1) \cap (fk .. pk - 1) # {} <=> fh < pk /\ fk < ph
  <2>1. ASSUME fh < pk, fk < ph
        PROVE  (fh .. ph - 1) \cap (fk .. pk - 1) # {}
    <3>1. \/ fk \in fh .. ph - 1 /\ fk \in fk .. pk - 1
          \/ fh \in fh .. ph - 1 /\ fh \in fk .. pk - 1
      BY <1>1, <1>2, <2>1
    <3> QED
      BY <3>1, Zenon
  <2>2. ASSUME (fh .. ph - 1) \cap (fk .. pk - 1) # {}
        PROVE  fh < pk /\ fk < ph
    BY <1>1, <1>2, <2>2
  <2> QED
    BY <2>1, <2>2, Zenon
<1> QED
  BY <1>1, <1>2, <1>4, <1>5, Zenon DEF Overlaps

\* WellFormed, in the terms of the checks.
LEMMA WellFormedParts ==
  ASSUME NEW f, IsFile(f)
  PROVE  /\ \A i \in DOMAIN f.ph : f.ph[i] \in ProgramHeader
         /\ DOMAIN f.ph = 1 .. Len(f.ph) /\ Len(f.ph) \in Nat /\ f.entry \in Nat
         /\ WellFormed(f) <=>
              /\ GoodHeader(f)
              /\ \A i \in DOMAIN f.ph : GoodSegment(f, f.ph[i])
              /\ \A i, j \in DOMAIN f.ph : i # j => Touched(f.ph[i]) \cap Touched(f.ph[j]) = {}
              /\ \E i \in DOMAIN f.ph : ContainsEntry(f.ph[i], f.entry)
<1>1. f.ph \in Seq(ProgramHeader) /\ f.entry \in U64
  BY Zenon DEF IsFile
<1>2. /\ \A i \in DOMAIN f.ph : f.ph[i] \in ProgramHeader
      /\ DOMAIN f.ph = 1 .. Len(f.ph) /\ Len(f.ph) \in Nat
  BY <1>1
<1>3. f.entry \in Nat
  BY <1>1, Words, Zenon
<1>4. ASSUME NEW i \in DOMAIN f.ph
      PROVE  ContainsEntry(f.ph[i], f.entry) <=> PF_X(f.ph[i].flags) /\ f.entry \in Bytes(f.ph[i])
  <2> DEFINE h == f.ph[i]
  <2>1. h.vaddr \in Nat /\ h.memsz \in Nat
    BY <1>2, HeaderFields, Zenon
  <2> HIDE DEF h
  <2>2. f.entry >= h.vaddr /\ f.entry < h.vaddr + h.memsz <=> f.entry \in Bytes(h)
    BY <1>3, <2>1 DEF Bytes
  <2> QED
    BY <2>2, Zenon DEF ContainsEntry, h
<1>5. ASSUME GoodHeader(f),
             \A i \in DOMAIN f.ph : GoodSegment(f, f.ph[i]),
             \A i, j \in DOMAIN f.ph : i # j => Touched(f.ph[i]) \cap Touched(f.ph[j]) = {},
             \E i \in DOMAIN f.ph : ContainsEntry(f.ph[i], f.entry)
      PROVE  WellFormed(f)
  BY <1>4, <1>5, Zenon DEF WellFormed, GoodHeader, GoodSegment, InWindow
<1>6. ASSUME WellFormed(f)
      PROVE  /\ GoodHeader(f)
             /\ \A i \in DOMAIN f.ph : GoodSegment(f, f.ph[i])
             /\ \A i, j \in DOMAIN f.ph : i # j => Touched(f.ph[i]) \cap Touched(f.ph[j]) = {}
             /\ \E i \in DOMAIN f.ph : ContainsEntry(f.ph[i], f.entry)
  <2>1. GoodHeader(f)
    BY <1>6, Zenon DEF WellFormed, GoodHeader
  <2>2. \A i \in DOMAIN f.ph : GoodSegment(f, f.ph[i])
    BY <1>6, Zenon DEF WellFormed, GoodSegment, InWindow
  <2>3. \A i, j \in DOMAIN f.ph : i # j => Touched(f.ph[i]) \cap Touched(f.ph[j]) = {}
    BY <1>6, Zenon DEF WellFormed
  <2>4. \E i \in DOMAIN f.ph : ContainsEntry(f.ph[i], f.entry)
    BY <1>4, <1>6, Zenon DEF WellFormed
  <2> QED
    BY <2>1, <2>2, <2>3, <2>4, Zenon
<1> QED
  BY <1>2, <1>3, <1>5, <1>6, Zenon

\* The error of one segment: its own, or an overlap with an earlier one.
LEMMA SegmentChecks ==
  ASSUME NEW f, IsFile(f), NEW i \in DOMAIN f.ph
  PROVE  /\ SegmentError(f, i) \in ParseErrors \cup {"Ok"}
         /\ SegmentError(f, i) = "Ok" <=>
              /\ GoodSegment(f, f.ph[i])
              /\ \A j \in 1 .. i - 1 : ~Overlaps(f.ph[i], f.ph[j])
<1> DEFINE own == ProgramHeaderError(f, f.ph[i])
           overlap == \E j \in 1 .. i - 1 : Overlaps(f.ph[i], f.ph[j])
           checks == <<<<own # "Ok", own>>, <<overlap, "SegmentOverlap">>>>
<1>1. own \in ParseErrors \cup {"Ok"} /\ (own = "Ok" <=> GoodSegment(f, f.ph[i]))
  BY WellFormedParts, ProgramHeaderChecks, Zenon
<1>2. SegmentError(f, i) = FirstError(checks)
  BY Zenon DEF SegmentError
<1>3. DOMAIN checks = 1 .. 2 /\ 2 \in Nat
  OBVIOUS
<1>4. /\ checks[1][1] = (own # "Ok") /\ checks[1][2] = own
      /\ checks[2][1] = overlap /\ checks[2][2] = "SegmentOverlap"
  BY Zenon
<1> HIDE DEF own, overlap, checks
<1>5. \A k : k \in 1 .. 2 <=> k = 1 \/ k = 2
  OBVIOUS
<1>6. "SegmentOverlap" \in ParseErrors /\ "Ok" \notin ParseErrors
  BY Zenon DEF ParseErrors
<1>7. \A k \in 1 .. 2 : checks[k][1] => checks[k][2] \in ParseErrors
  BY <1>1, <1>4, <1>5, <1>6, Zenon
<1>8. /\ FirstError(checks) \in ParseErrors \cup {"Ok"}
      /\ FirstError(checks) = "Ok" <=> \A k \in 1 .. 2 : ~checks[k][1]
  BY <1>3, <1>6, <1>7, FirstErrorIs, Zenon
<1>9. (\A k \in 1 .. 2 : ~checks[k][1]) <=> own = "Ok" /\ ~overlap
  BY <1>4, <1>5, Zenon
<1>10. overlap <=> \E j \in 1 .. i - 1 : Overlaps(f.ph[i], f.ph[j])
  BY Zenon DEF overlap
<1> QED
  BY <1>1, <1>2, <1>8, <1>9, <1>10, Zenon

\* parse_elf accepts exactly the well formed files.
LEMMA ParseAccepts ==
  ASSUME NEW f, IsFile(f)
  PROVE  /\ ParseElf(f) \in ParseErrors \cup {"Ok"}
         /\ ParseElf(f) = "Ok" <=> WellFormed(f)
<1> DEFINE bad == {i \in DOMAIN f.ph : SegmentError(f, i) # "Ok"}
<1>1. /\ \A i \in DOMAIN f.ph : f.ph[i] \in ProgramHeader
      /\ DOMAIN f.ph = 1 .. Len(f.ph) /\ Len(f.ph) \in Nat
  BY WellFormedParts, Zenon
<1>2. WellFormed(f) <=>
        /\ GoodHeader(f)
        /\ \A i \in DOMAIN f.ph : GoodSegment(f, f.ph[i])
        /\ \A i, j \in DOMAIN f.ph : i # j => Touched(f.ph[i]) \cap Touched(f.ph[j]) = {}
        /\ \E i \in DOMAIN f.ph : ContainsEntry(f.ph[i], f.entry)
  BY WellFormedParts, Zenon
<1>3. /\ HeaderError(f) \in ParseErrors \cup {"Ok"}
      /\ HeaderError(f) = "Ok" <=> GoodHeader(f)
  BY HeaderChecks, Zenon
<1>4. \A i \in DOMAIN f.ph :
        /\ SegmentError(f, i) \in ParseErrors \cup {"Ok"}
        /\ SegmentError(f, i) = "Ok" <=>
             GoodSegment(f, f.ph[i]) /\ \A j \in 1 .. i - 1 : ~Overlaps(f.ph[i], f.ph[j])
  BY SegmentChecks, Zenon
<1>5. ASSUME bad # {} PROVE Min(bad) \in bad
  <2>1. bad \in SUBSET Nat
    BY <1>1
  <2> QED
    BY <1>5, <2>1, Least, Zenon
<1>6. ParseElf(f) =
        IF HeaderError(f) # "Ok" THEN HeaderError(f)
        ELSE IF bad # {} THEN SegmentError(f, Min(bad))
        ELSE IF \E i \in DOMAIN f.ph : ContainsEntry(f.ph[i], f.entry) THEN "Ok"
        ELSE "EntryNotExecutable"
  BY Zenon DEF ParseElf
<1>7. "EntryNotExecutable" \in ParseErrors /\ "Ok" \notin ParseErrors
  BY Zenon DEF ParseErrors
<1>8. ASSUME \A i \in DOMAIN f.ph : GoodSegment(f, f.ph[i])
      PROVE  (\A i, j \in DOMAIN f.ph : i # j => Touched(f.ph[i]) \cap Touched(f.ph[j]) = {})
               <=> \A i \in DOMAIN f.ph : \A j \in 1 .. i - 1 : ~Overlaps(f.ph[i], f.ph[j])
  <2>1. ASSUME NEW i \in DOMAIN f.ph, NEW j \in DOMAIN f.ph
        PROVE  Overlaps(f.ph[i], f.ph[j]) <=> Touched(f.ph[i]) \cap Touched(f.ph[j]) # {}
    <3> DEFINE h == f.ph[i]
               k == f.ph[j]
    <3>1. /\ h \in ProgramHeader /\ h.vaddr % PageSize = 0 /\ 0 < h.memsz /\ InWindow(h)
          /\ k \in ProgramHeader /\ k.vaddr % PageSize = 0 /\ 0 < k.memsz /\ InWindow(k)
      BY <1>1, <1>8, Zenon DEF GoodSegment
    <3> HIDE DEF h, k
    <3>2. Overlaps(h, k) <=> Touched(h) \cap Touched(k) # {}
      BY <3>1, OverlapIsSharing, Zenon
    <3> QED
      BY <3>2, Zenon DEF h, k
  <2>2. ASSUME NEW i \in DOMAIN f.ph, NEW j \in 1 .. i - 1
        PROVE  j \in DOMAIN f.ph /\ i # j
    BY <1>1
  <2>3. ASSUME NEW i \in DOMAIN f.ph, NEW j \in DOMAIN f.ph, i # j
        PROVE  j \in 1 .. i - 1 \/ i \in 1 .. j - 1
    BY <1>1, <2>3
  <2>4. ASSUME \A i, j \in DOMAIN f.ph : i # j => Touched(f.ph[i]) \cap Touched(f.ph[j]) = {}
        PROVE  \A i \in DOMAIN f.ph : \A j \in 1 .. i - 1 : ~Overlaps(f.ph[i], f.ph[j])
    BY <2>1, <2>2, <2>4, Zenon
  <2>5. ASSUME \A i \in DOMAIN f.ph : \A j \in 1 .. i - 1 : ~Overlaps(f.ph[i], f.ph[j]),
               NEW i \in DOMAIN f.ph, NEW j \in DOMAIN f.ph, i # j
        PROVE  Touched(f.ph[i]) \cap Touched(f.ph[j]) = {}
    <3>1. CASE j \in 1 .. i - 1
      BY <2>1, <2>5, <3>1, Zenon
    <3>2. CASE i \in 1 .. j - 1
      <4>1. Touched(f.ph[j]) \cap Touched(f.ph[i]) = {}
        BY <2>1, <2>5, <3>2, Zenon
      <4> QED
        BY <4>1, Zenon
    <3> QED
      BY <2>3, <2>5, <3>1, <3>2, Zenon
  <2> QED
    BY <2>4, <2>5, Zenon
<1>9. bad = {} <=> \A i \in DOMAIN f.ph : SegmentError(f, i) = "Ok"
  BY Zenon
<1>10. bad # {} => SegmentError(f, Min(bad)) \in ParseErrors
  BY <1>4, <1>5, Zenon
<1> HIDE DEF bad
<1>11. ParseElf(f) \in ParseErrors \cup {"Ok"}
  BY <1>3, <1>6, <1>7, <1>10, Zenon
<1>12. ParseElf(f) = "Ok" <=>
         /\ GoodHeader(f) /\ bad = {}
         /\ \E i \in DOMAIN f.ph : ContainsEntry(f.ph[i], f.entry)
  BY <1>3, <1>6, <1>7, <1>10, Zenon
<1>13. bad = {} <=>
         /\ \A i \in DOMAIN f.ph : GoodSegment(f, f.ph[i])
         /\ \A i \in DOMAIN f.ph : \A j \in 1 .. i - 1 : ~Overlaps(f.ph[i], f.ph[j])
  BY <1>4, <1>9, Zenon
<1> QED
  BY <1>2, <1>8, <1>11, <1>12, <1>13, Zenon

-----------------------------------------------------------------------------
(***************************************************************************)
(* The inductive invariant.  From the first segment to the last, the       *)
(* segments that load_user_elf has mapped have their pages and the bytes   *)
(* it has copied, and nothing else is mapped or other than zero.           *)
(***************************************************************************)
Started == phase \in {"map", "copy", "zero", "stack", "loaded"}

Mapped == {j \in DOMAIN file.ph : j < index \/ (j = index /\ phase # "map")}

\* How much of segment j has been copied, and where it is.
Copied(j) == IF j = index /\ phase = "copy" THEN done ELSE file.ph[j].filesz

Written(j) == file.ph[j].vaddr .. file.ph[j].vaddr + Copied(j) - 1

PermsSoFar ==
  /\ \A j \in Mapped : \A q \in Touched(file.ph[j]) : perm[q] = UserFlags(file.ph[j])
  /\ \A q \in Pages :
       (phase = "loaded" => q \notin StackRegion) /\ (\A j \in Mapped : q \notin Touched(file.ph[j]))
         => perm[q] = "none"
  /\ phase = "loaded" => \A q \in StackRegion : perm[q] = "rw"

BytesSoFar ==
  /\ \A j \in Mapped : \A a \in Written(j) :
       mem[a] = file.bytes[file.ph[j].offset + a - file.ph[j].vaddr]
  /\ \A a \in Addresses : (\A j \in Mapped : a \notin Written(j)) => mem[a] = 0

LoadInv ==
  /\ IsFile(file)
  /\ TypeOK
  /\ error \notin {"MapFailed", "UserCopyFailed"}
  /\ phase = "parse" =>
       /\ index = 0 /\ done = 0
       /\ \A q \in Pages : perm[q] = "none"
       /\ \A a \in Addresses : mem[a] = 0
  /\ Started =>
       /\ WellFormed(file) /\ HasHeapRange(file)
       /\ index \in 1 .. Len(file.ph)
       /\ PermsSoFar /\ BytesSoFar
  /\ phase \in {"stack", "loaded"} => index = Len(file.ph)
  /\ phase \in {"map", "stack"} => done = 0
  /\ phase = "copy" => done <= Segment.filesz
  /\ phase = "zero" => done <= Segment.memsz - Segment.filesz


-----------------------------------------------------------------------------
(* load_user_elf *)

\* A segment of a well formed file.
LEMMA SegmentFacts ==
  ASSUME IsFile(file), WellFormed(file), NEW j \in DOMAIN file.ph
  PROVE  LET h == file.ph[j] IN
         /\ h \in ProgramHeader /\ h.vaddr % PageSize = 0 /\ 0 < h.memsz /\ InWindow(h)
         /\ h.vaddr \in Nat /\ h.memsz \in Nat /\ h.filesz \in Nat /\ h.filesz <= h.memsz
         /\ \A a \in Bytes(h) : a \in Addresses /\ a \in Nat /\ PageOf(a) \in Touched(h)
         /\ \A q \in Touched(h) : q \in Pages /\ q < PageOf(LoadEnd)
<1> DEFINE h == file.ph[j]
<1>1. h \in ProgramHeader /\ GoodSegment(file, h)
  BY WellFormedParts, Zenon
<1> HIDE DEF h
<1>2. h.vaddr % PageSize = 0 /\ 0 < h.memsz /\ InWindow(h) /\ h.filesz <= h.memsz
  BY <1>1, Zenon DEF GoodSegment
<1>3. h.vaddr \in Nat /\ h.memsz \in Nat /\ h.filesz \in Nat
  BY <1>1, HeaderFields, Zenon
<1>4. /\ \A a \in Bytes(h) : a \in Addresses /\ a \in Nat /\ PageOf(a) \in Touched(h)
      /\ \A q \in Touched(h) : q \in Pages /\ q < PageOf(LoadEnd)
  BY <1>1, <1>2, TouchedPages, Zenon
<1> QED
  BY <1>1, <1>2, <1>3, <1>4, Zenon DEF h

\* Two segments of a well formed file have no page and no byte in common.
LEMMA SegmentsApart ==
  ASSUME IsFile(file), WellFormed(file), NEW i \in DOMAIN file.ph, NEW j \in DOMAIN file.ph, i # j
  PROVE  /\ \A q \in Touched(file.ph[i]) : q \notin Touched(file.ph[j])
         /\ \A a \in Bytes(file.ph[i]) : a \notin Bytes(file.ph[j])
<1>1. Touched(file.ph[i]) \cap Touched(file.ph[j]) = {}
  BY WellFormedParts, Zenon
<1>2. \A q \in Touched(file.ph[i]) : q \notin Touched(file.ph[j])
  BY <1>1, Zenon
<1>3. ASSUME NEW a \in Bytes(file.ph[i]), a \in Bytes(file.ph[j]) PROVE FALSE
  <2>1. PageOf(a) \in Touched(file.ph[i]) /\ PageOf(a) \in Touched(file.ph[j])
    BY <1>3, SegmentFacts, Zenon
  <2> QED
    BY <1>2, <2>1, Zenon
<1> QED
  BY <1>2, <1>3, Zenon

\* What the loader knows while it loads.
LEMMA Loading ==
  ASSUME LoadInv, Started
  PROVE  /\ IsFile(file) /\ WellFormed(file) /\ HasHeapRange(file)
         /\ DOMAIN file.ph = 1 .. Len(file.ph) /\ Len(file.ph) \in Nat
         /\ index \in DOMAIN file.ph /\ index \in Nat
         /\ PermsSoFar /\ BytesSoFar /\ error = "Ok" /\ done \in Nat
         /\ perm \in [Pages -> {"none", "r", "rw"}] /\ DOMAIN mem = Addresses
         /\ \A j \in Mapped : j \in DOMAIN file.ph
<1>1. /\ IsFile(file) /\ WellFormed(file) /\ HasHeapRange(file) /\ index \in 1 .. Len(file.ph)
      /\ PermsSoFar /\ BytesSoFar /\ TypeOK
  BY Zenon DEF LoadInv
<1>2. DOMAIN file.ph = 1 .. Len(file.ph) /\ Len(file.ph) \in Nat
  BY <1>1, WellFormedParts, Zenon
<1>3. index \in DOMAIN file.ph /\ index \in Nat
  BY <1>1, <1>2
<1>4. phase # "failed"
  BY Zenon DEF Started
<1>5. /\ error = "Ok" /\ done \in Nat
      /\ perm \in [Pages -> {"none", "r", "rw"}] /\ DOMAIN mem = Addresses
  BY <1>1, <1>4, Zenon DEF TypeOK
<1> QED
  BY <1>1, <1>2, <1>3, <1>5, Zenon DEF Mapped

\* What has been written of a segment lies in it.
LEMMA WrittenInSegment ==
  ASSUME LoadInv, Started, NEW j \in Mapped
  PROVE  /\ Copied(j) \in Nat /\ Copied(j) <= file.ph[j].filesz
         /\ \A a \in Written(j) : a \in Bytes(file.ph[j])
<1> DEFINE h == file.ph[j]
           c == Copied(j)
<1>1. h.vaddr \in Nat /\ h.memsz \in Nat /\ h.filesz \in Nat /\ h.filesz <= h.memsz
  BY Loading, SegmentFacts, Zenon
<1>2. c \in Nat /\ c <= h.filesz
  <2>1. CASE j = index /\ phase = "copy"
    BY <2>1, Loading, Zenon DEF LoadInv, Copied, Segment
  <2>2. CASE ~(j = index /\ phase = "copy")
    <3>1. c = h.filesz
      BY <2>2, Zenon DEF Copied
    <3>2. h.filesz <= h.filesz
      BY <1>1
    <3> QED
      BY <1>1, <3>1, <3>2, Zenon
  <2> QED
    BY <2>1, <2>2, Zenon
<1>3. Written(j) = h.vaddr .. h.vaddr + c - 1
  BY Zenon DEF Written
<1> HIDE DEF h, c
<1>4. \A a \in h.vaddr .. h.vaddr + c - 1 : a \in Bytes(h)
  BY <1>1, <1>2 DEF Bytes
<1> QED
  BY <1>2, <1>3, <1>4, Zenon DEF h, c

\* A step that fails for a reason other than a page mapped twice or missing.
LEMMA FailStep ==
  ASSUME LoadInv, NEW reason \in (ParseErrors \cup LoadErrors) \ {"MapFailed", "UserCopyFailed"},
         Fail(reason)
  PROVE  LoadInv'
<1>1. /\ phase' = "failed" /\ error' = reason /\ file' = file /\ index' = index
      /\ done' = done /\ perm' = perm /\ mem' = mem
  BY Zenon DEF Fail
<1>2. /\ ~Started' /\ phase' # "parse" /\ phase' \notin {"stack", "loaded"}
      /\ phase' \notin {"map", "stack"} /\ phase' # "copy" /\ phase' # "zero"
      /\ phase' \in {"parse", "map", "copy", "zero", "stack", "loaded", "failed"}
  BY <1>1, Zenon DEF Started
<1>3. error' # "Ok"
  BY <1>1, Zenon DEF ParseErrors, LoadErrors
<1>4. IsFile(file)' /\ TypeOK /\ IsFile(file)
  BY <1>1, Zenon DEF LoadInv
<1>5. error' \in {"Ok"} \cup ParseErrors \cup LoadErrors
  BY <1>1, Zenon
<1>6. TypeOK'
  BY <1>1, <1>2, <1>3, <1>4, <1>5, Zenon DEF TypeOK
<1>7. error' \notin {"MapFailed", "UserCopyFailed"}
  BY <1>1, Zenon
<1> QED
  BY <1>2, <1>4, <1>6, <1>7, Zenon DEF LoadInv

\* A step from one phase of loading to another.
LEMMA LoadStep ==
  ASSUME LoadInv, Started, Started', file' = file, error' = error,
         index' \in DOMAIN file.ph, done' \in Nat,
         perm' \in [Pages -> {"none", "r", "rw"}], DOMAIN mem' = Addresses,
         PermsSoFar', BytesSoFar',
         phase' \in {"stack", "loaded"} => index' = Len(file.ph),
         phase' \in {"map", "stack"} => done' = 0,
         phase' = "copy" => done' <= file.ph[index'].filesz,
         phase' = "zero" => done' <= file.ph[index'].memsz - file.ph[index'].filesz
  PROVE  LoadInv'
<1>1. /\ IsFile(file) /\ WellFormed(file) /\ HasHeapRange(file) /\ error = "Ok"
      /\ DOMAIN file.ph = 1 .. Len(file.ph) /\ Len(file.ph) \in Nat
  BY Loading, Zenon
<1>2. /\ phase' # "parse" /\ phase' # "failed"
      /\ phase' \in {"parse", "map", "copy", "zero", "stack", "loaded", "failed"}
  BY Zenon DEF Started
<1>3. index' \in 1 .. Len(file.ph) /\ index' \in 0 .. Len(file.ph)
  BY <1>1
<1>4. error' = "Ok" /\ error' \notin {"MapFailed", "UserCopyFailed"}
  BY <1>1, Zenon
<1>5. TypeOK'
  BY <1>2, <1>3, <1>4, Zenon DEF TypeOK
<1>6. /\ IsFile(file)' /\ WellFormed(file)' /\ HasHeapRange(file)'
  BY <1>1, Zenon
<1> QED
  BY <1>2, <1>3, <1>4, <1>5, <1>6, Zenon DEF LoadInv, Segment

\* Segments that are mapped, before and after a step that goes on with the same
\* segment.
LEMMA SameSegment ==
  ASSUME LoadInv, Started, file' = file, index' = index, phase # "map", phase' # "map"
  PROVE  /\ \A j : j \in Mapped' <=> j \in Mapped
         /\ index \in Mapped
         /\ \A j \in Mapped : j # index => Copied(j)' = Copied(j) /\ Written(j)' = Written(j)
<1>1. \A j : j \in Mapped' <=> j \in Mapped
  BY Zenon DEF Mapped
<1>2. index \in Mapped
  BY Loading, Zenon DEF Mapped
<1> QED
  BY <1>1, <1>2, Zenon DEF Copied, Written

\* map_user_region gets the pages of the segment.
LEMMA RegionOfSegment ==
  ASSUME LoadInv, Started
  PROVE  PageOf(MapStart(Segment)) .. PageOf(MapEnd(Segment)) - 1 = Touched(Segment)
<1> DEFINE h == file.ph[index]
<1>1. h \in ProgramHeader /\ h.vaddr % PageSize = 0 /\ 0 < h.memsz /\ InWindow(h)
  BY Loading, SegmentFacts, Zenon
<1> HIDE DEF h
<1>2. PageOf(MapStart(h)) = First(h) /\ PageOf(MapEnd(h)) = Past(h)
  BY <1>1, SegmentPlace, Zenon
<1>3. Touched(h) = First(h) .. Past(h) - 1
  BY <1>1, TouchedPages, Zenon
<1> QED
  BY <1>2, <1>3, Zenon DEF h, Segment

\* The pages of the next segment are free, and are mapped.
LEMMA MapStep ==
  ASSUME LoadInv, MapUserRegion
  PROVE  LoadInv'
<1> DEFINE region == PageOf(MapStart(Segment)) .. PageOf(MapEnd(Segment)) - 1
           h == file.ph[index]
<1>1. phase = "map" /\ MapPages(region, UserFlags(Segment), "copy")
  BY Zenon DEF MapUserRegion
<1>2. Started
  BY <1>1, Zenon DEF Started
<1>3. region = Touched(h)
  BY <1>2, RegionOfSegment, Zenon DEF Segment
<1>4. /\ IsFile(file) /\ WellFormed(file) /\ index \in DOMAIN file.ph /\ index \in Nat
      /\ PermsSoFar /\ BytesSoFar /\ perm \in [Pages -> {"none", "r", "rw"}]
      /\ \A j \in Mapped : j \in DOMAIN file.ph
      /\ DOMAIN file.ph = 1 .. Len(file.ph) /\ done \in Nat
  BY <1>2, Loading, Zenon
<1>5. \A j : j \in Mapped <=> j \in DOMAIN file.ph /\ j < index
  BY <1>1, Zenon DEF Mapped
<1>6. \A j \in Mapped : j # index
  BY <1>4, <1>5
<1>7. \A j \in Mapped : \A q \in Touched(file.ph[j]) : q \notin region
  BY <1>3, <1>4, <1>6, SegmentsApart, Zenon
<1>8. \A q \in region : q \in Pages /\ perm[q] = "none"
  <2>1. \A q \in region : q \in Pages
    BY <1>3, <1>4, SegmentFacts, Zenon
  <2>2. phase # "loaded"
    BY <1>1, Zenon
  <2> QED
    BY <1>4, <1>7, <2>1, <2>2, Zenon DEF PermsSoFar
<1>9. CASE Fail("OutOfFrames")
  <2>1. "OutOfFrames" \in (ParseErrors \cup LoadErrors) \ {"MapFailed", "UserCopyFailed"}
    BY Zenon DEF LoadErrors
  <2> QED
    BY <1>9, <2>1, FailStep, Zenon
<1>10. CASE /\ perm' = [q \in Pages |-> IF q \in region THEN UserFlags(Segment) ELSE perm[q]]
            /\ mem' = [a \in Addresses |-> IF PageOf(a) \in region THEN 0 ELSE mem[a]]
            /\ phase' = "copy"
            /\ UNCHANGED <<program, file, error, index, done>>
  <2> HIDE DEF region
  <2>1. /\ file' = file /\ error' = error /\ index' = index /\ done' = done
        /\ phase' = "copy" /\ DOMAIN mem' = Addresses
        /\ \A q \in Pages : perm'[q] = IF q \in region THEN UserFlags(h) ELSE perm[q]
        /\ \A a \in Addresses : mem'[a] = IF PageOf(a) \in region THEN 0 ELSE mem[a]
    BY <1>10, Zenon DEF Segment
  <2>2. done = 0 /\ Started'
    <3>1. phase \in {"map", "stack"} /\ phase' \in {"map", "copy", "zero", "stack", "loaded"}
      BY <1>1, <2>1
    <3> QED
      BY <3>1, Zenon DEF LoadInv, Started
  <2>3. \A j : j \in Mapped' <=> j \in Mapped \/ j = index
    <3>1. phase' # "map"
      BY <2>1, Zenon
    <3> QED
      BY <1>4, <1>5, <2>1, <3>1, Zenon DEF Mapped
  <2>4. PermsSoFar'
    <3>1. phase' # "loaded"
      BY <2>1, Zenon
    <3>2. ASSUME NEW j \in Mapped', NEW q \in Touched(file.ph[j])
          PROVE  perm'[q] = UserFlags(file.ph[j])
      <4>1. CASE j \in Mapped
        <5>1. q \in Pages /\ q \notin region
          BY <1>4, <1>7, <3>2, <4>1, SegmentFacts, Zenon
        <5> QED
          BY <1>4, <2>1, <3>2, <4>1, <5>1, Zenon DEF PermsSoFar
      <4>2. CASE j = index
        BY <1>3, <1>8, <2>1, <3>2, <4>2, Zenon
      <4> QED
        BY <2>3, <3>2, <4>1, <4>2, Zenon
    <3>3. ASSUME NEW q \in Pages, \A j \in Mapped' : q \notin Touched(file.ph[j])
          PROVE  perm'[q] = "none"
      <4>1. q \notin region /\ \A j \in Mapped : q \notin Touched(file.ph[j])
        BY <1>3, <2>3, <3>3, Zenon
      <4>2. phase # "loaded"
        BY <1>1, Zenon
      <4>3. perm[q] = "none"
        BY <1>4, <3>3, <4>1, <4>2, Zenon DEF PermsSoFar
      <4> QED
        BY <2>1, <4>1, <4>3, Zenon
    <3> QED
      BY <2>1, <3>1, <3>2, <3>3, Zenon DEF PermsSoFar
  <2>5. \A j \in Mapped : Written(j)' = Written(j)
    <3>1. \A j \in Mapped : Copied(j)' = Copied(j)
      <4>1. phase # "copy"
        BY <1>1, Zenon
      <4> QED
        BY <1>6, <2>1, <4>1, Zenon DEF Copied
    <3> QED
      BY <2>1, <3>1, Zenon DEF Written
  <2>6. Written(index)' = {}
    <3>1. Copied(index)' = 0
      BY <2>1, <2>2, Zenon DEF Copied
    <3>2. h.vaddr \in Nat
      BY <1>4, SegmentFacts, Zenon
    <3>3. h.vaddr .. h.vaddr + 0 - 1 = {}
      BY <3>2
    <3> QED
      BY <2>1, <3>1, <3>3, Zenon DEF Written
  <2>7. BytesSoFar'
    <3>1. ASSUME NEW j \in Mapped', NEW a \in Written(j)'
          PROVE  mem'[a] = file.bytes[file.ph[j].offset + a - file.ph[j].vaddr]
      <4>1. j \in Mapped /\ a \in Written(j)
        BY <2>1, <2>3, <2>5, <2>6, <3>1, Zenon
      <4>2. a \in Bytes(file.ph[j])
        BY <1>2, <4>1, WrittenInSegment, Zenon
      <4>3. a \in Addresses /\ PageOf(a) \in Touched(file.ph[j])
        BY <1>4, <4>1, <4>2, SegmentFacts, Zenon
      <4>4. mem'[a] = mem[a]
        BY <1>7, <2>1, <4>1, <4>3, Zenon
      <4> QED
        BY <1>4, <4>1, <4>4, Zenon DEF BytesSoFar
    <3>2. ASSUME NEW a \in Addresses, \A j \in Mapped' : a \notin Written(j)'
          PROVE  mem'[a] = 0
      <4>1. \A j \in Mapped : a \notin Written(j)
        BY <2>3, <2>5, <3>2, Zenon
      <4>2. mem[a] = 0
        BY <1>4, <4>1, Zenon DEF BytesSoFar
      <4> QED
        BY <2>1, <4>2, Zenon
    <3> QED
      BY <2>1, <3>1, <3>2, Zenon DEF BytesSoFar
  <2>8. perm' \in [Pages -> {"none", "r", "rw"}]
    <3>1. UserFlags(Segment) \in {"none", "r", "rw"}
      BY Zenon DEF UserFlags
    <3> QED
      BY <1>4, <1>10, <3>1, Zenon
  <2>9. /\ phase' \notin {"stack", "loaded"} /\ phase' \notin {"map", "stack"}
        /\ phase' # "zero"
    BY <2>1, Zenon
  <2>10. done' <= file.ph[index'].filesz
    <3>1. h.filesz \in Nat
      BY <1>4, SegmentFacts, Zenon
    <3>2. 0 <= h.filesz
      BY <3>1
    <3> QED
      BY <2>1, <2>2, <3>2, Zenon
  <2> QED
    BY <1>2, <1>4, <2>1, <2>2, <2>4, <2>7, <2>8, <2>9, <2>10, LoadStep, Zenon
<1> QED
  BY <1>1, <1>8, <1>9, <1>10, Zenon DEF MapPages

\* One turn of a copy loop moves at least one byte and no more than is left.
LEMMA ChunkFits ==
  ASSUME NEW a \in Nat, NEW left \in Nat \ {0}
  PROVE  Chunk(a, left) \in Nat \ {0} /\ Chunk(a, left) <= left
<1> DEFINE room == PageSize - (a % PageSize)
<1>1. a % PageSize \in Nat /\ a % PageSize < PageSize
  BY PageOfAddress, Zenon
<1>2. room \in Int /\ 0 < room
  <2> DEFINE r == a % PageSize
  <2> HIDE DEF r
  <2> QED
    BY <1>1, Constants DEF r
<1>3. Chunk(a, left) = Min({left, room})
  BY Zenon DEF Chunk
<1> HIDE DEF room
<1>4. Chunk(a, left) = IF left <= room THEN left ELSE room
  BY <1>2, <1>3, MinOfTwo
<1> QED
  BY <1>2, <1>4

\* A byte of the segment that is being loaded lies in a mapped page.
LEMMA SegmentTranslates ==
  ASSUME LoadInv, Started, phase # "map", phase # "loaded", NEW a \in Bytes(Segment)
  PROVE  Translates(a)
<1>1. index \in Mapped /\ index \in DOMAIN file.ph
  BY Loading, Zenon DEF Mapped
<1>2. PageOf(a) \in Touched(file.ph[index])
  BY <1>1, Loading, SegmentFacts, Zenon DEF Segment
<1>3. perm[PageOf(a)] = UserFlags(file.ph[index])
  BY <1>1, <1>2, Loading, Zenon DEF PermsSoFar
<1>4. UserFlags(file.ph[index]) # "none"
  <2>1. UserFlags(file.ph[index]) = "rw" \/ UserFlags(file.ph[index]) = "r"
    BY Zenon DEF UserFlags
  <2> QED
    BY <2>1, Zenon
<1> QED
  BY <1>3, <1>4, Zenon DEF Translates

\* The bytes when neither the memory nor what has been written changes.
LEMMA BytesStay ==
  ASSUME BytesSoFar, file' = file, mem' = mem,
         \A j : j \in Mapped' <=> j \in Mapped,
         \A j \in Mapped : Written(j)' = Written(j)
  PROVE  BytesSoFar'
<1>1. ASSUME NEW j \in Mapped', NEW a \in Written(j)'
      PROVE  mem'[a] = file'.bytes[file'.ph[j].offset + a - file'.ph[j].vaddr]
  <2>1. j \in Mapped /\ a \in Written(j)
    BY <1>1, Zenon
  <2>2. mem[a] = file.bytes[file.ph[j].offset + a - file.ph[j].vaddr]
    BY <2>1, Zenon DEF BytesSoFar
  <2> QED
    BY <2>2, Zenon
<1>2. ASSUME NEW a \in Addresses, \A j \in Mapped' : a \notin Written(j)'
      PROVE  mem'[a] = 0
  <2>1. \A j \in Mapped : a \notin Written(j)
    BY <1>2, Zenon
  <2>2. mem[a] = 0
    BY <2>1, Zenon DEF BytesSoFar
  <2> QED
    BY <2>2, Zenon
<1> QED
  BY <1>1, <1>2, Zenon DEF BytesSoFar

\* The pages do not change while the bytes of a segment are moved.
LEMMA PermsStay ==
  ASSUME LoadInv, Started, PermsSoFar, file' = file, perm' = perm,
         phase # "loaded", phase' # "loaded", \A j : j \in Mapped' <=> j \in Mapped
  PROVE  PermsSoFar'
BY Zenon DEF PermsSoFar

\* copy_to_user.
LEMMA CopyStep ==
  ASSUME LoadInv, CopyToUser
  PROVE  LoadInv'
<1> DEFINE h == file.ph[index]
           address == h.vaddr + done
           count == Chunk(address, h.filesz - done)
           moved == address .. address + count - 1
<1>1. phase = "copy" /\ Started /\ phase # "map" /\ phase # "loaded"
  BY Zenon DEF CopyToUser, Started
<1>2. /\ IsFile(file) /\ WellFormed(file) /\ index \in DOMAIN file.ph /\ index \in Nat
      /\ PermsSoFar /\ BytesSoFar /\ perm \in [Pages -> {"none", "r", "rw"}]
      /\ \A j \in Mapped : j \in DOMAIN file.ph
      /\ done \in Nat /\ DOMAIN mem = Addresses
  BY <1>1, Loading, Zenon
<1>3. h.vaddr \in Nat /\ h.memsz \in Nat /\ h.filesz \in Nat /\ h.filesz <= h.memsz
  BY <1>2, SegmentFacts, Zenon
<1>4. done <= h.filesz
  BY <1>1, Zenon DEF LoadInv, Segment
<1>5. \/ done < h.filesz /\ ~Translates(address)
      \/ /\ done < h.filesz
         /\ mem' = [a \in Addresses |->
                      IF a \in moved THEN file.bytes[h.offset + a - h.vaddr] ELSE mem[a]]
         /\ done' = done + count
         /\ UNCHANGED <<program, file, phase, error, index, perm>>
      \/ /\ done = h.filesz /\ phase' = "zero" /\ done' = 0
         /\ UNCHANGED <<program, file, error, index, perm, mem>>
  BY Zenon DEF CopyToUser, Segment
<1>6. CASE done < h.filesz /\ ~Translates(address)
  <2>1. address \in Bytes(h)
    BY <1>2, <1>3, <1>6 DEF Bytes
  <2> QED
    BY <1>1, <1>6, <2>1, SegmentTranslates, Zenon DEF Segment
<1>7. CASE /\ done < h.filesz
           /\ mem' = [a \in Addresses |->
                        IF a \in moved THEN file.bytes[h.offset + a - h.vaddr] ELSE mem[a]]
           /\ done' = done + count
           /\ UNCHANGED <<program, file, phase, error, index, perm>>
  <2>1. /\ file' = file /\ error' = error /\ index' = index /\ done' = done + count
        /\ phase' = phase /\ perm' = perm /\ DOMAIN mem' = Addresses
        /\ \A a \in Addresses : mem'[a] = IF a \in moved
                                          THEN file.bytes[h.offset + a - h.vaddr] ELSE mem[a]
    BY <1>7, Zenon
  <2>2. count \in Nat \ {0} /\ count <= h.filesz - done
    <3>1. address \in Nat /\ h.filesz - done \in Nat \ {0}
      BY <1>2, <1>3, <1>7
    <3> QED
      BY <3>1, ChunkFits, Zenon
  <2> HIDE DEF count
  <2>3. done + count \in Nat /\ done + count <= h.filesz
    BY <1>2, <1>3, <2>2
  <2>4. /\ \A j : j \in Mapped' <=> j \in Mapped
        /\ index \in Mapped
        /\ \A j \in Mapped : j # index => Written(j)' = Written(j)
    BY <1>1, <2>1, SameSegment, Zenon
  <2>5. Written(index) = h.vaddr .. h.vaddr + done - 1
    BY <1>1, Zenon DEF Written, Copied
  <2>6. \A j : j = index => Written(j)' = h.vaddr .. h.vaddr + (done + count) - 1
    BY <1>1, <2>1, Zenon DEF Written, Copied
  <2>7. /\ \A a \in h.vaddr .. h.vaddr + (done + count) - 1 :
             a \in h.vaddr .. h.vaddr + done - 1 \/ a \in moved
        /\ \A a \in h.vaddr .. h.vaddr + done - 1 :
             a \in h.vaddr .. h.vaddr + (done + count) - 1 /\ a \notin moved
        /\ \A a \in moved : a \in h.vaddr .. h.vaddr + (done + count) - 1 /\ a \in Bytes(h)
    BY <1>2, <1>3, <2>2, <2>3 DEF Bytes
  <2> HIDE DEF moved
  <2>8. \A a \in moved : a \in Addresses
    BY <1>2, <2>7, SegmentFacts, Zenon
  <2>9. ASSUME NEW j \in Mapped, NEW a \in Written(j)
        PROVE  a \in Addresses /\ a \notin moved /\ mem'[a] = mem[a]
    <3>1. a \in Bytes(file.ph[j])
      BY <1>1, WrittenInSegment, Zenon
    <3>2. a \in Addresses
      BY <1>2, <3>1, SegmentFacts, Zenon
    <3>3. a \notin moved
      <4>1. CASE j = index
        BY <2>5, <2>7, <2>9, <4>1, Zenon
      <4>2. CASE j # index
        BY <1>2, <2>7, <3>1, <4>2, SegmentsApart, Zenon
      <4> QED
        BY <4>1, <4>2, Zenon
    <3> QED
      BY <2>1, <3>2, <3>3, Zenon
  <2>10. ASSUME NEW j \in Mapped', NEW a \in Written(j)'
         PROVE  mem'[a] = file.bytes[file.ph[j].offset + a - file.ph[j].vaddr]
    <3>1. CASE j = index /\ a \in moved
      BY <2>1, <2>8, <3>1, Zenon
    <3>2. CASE ~(j = index /\ a \in moved)
      <4>1. j \in Mapped /\ a \in Written(j)
        BY <2>4, <2>5, <2>6, <2>7, <2>10, <3>2, Zenon
      <4> QED
        BY <1>2, <2>9, <4>1, Zenon DEF BytesSoFar
    <3> QED
      BY <3>1, <3>2, Zenon
  <2>11. ASSUME NEW a \in Addresses, \A j \in Mapped' : a \notin Written(j)'
         PROVE  mem'[a] = 0
    <3>1. a \notin moved /\ a \notin Written(index)
      BY <2>4, <2>5, <2>6, <2>7, <2>11, Zenon
    <3>2. \A j \in Mapped : a \notin Written(j)
      BY <2>4, <2>11, <3>1, Zenon
    <3>3. mem[a] = 0
      BY <1>2, <3>2, Zenon DEF BytesSoFar
    <3> QED
      BY <2>1, <3>1, <3>3, Zenon
  <2>12. BytesSoFar'
    BY <2>1, <2>10, <2>11, Zenon DEF BytesSoFar
  <2>13. PermsSoFar'
    BY <1>1, <1>2, <2>1, <2>4, PermsStay, Zenon
  <2>14. Started' /\ phase' \notin {"stack", "loaded"} /\ phase' \notin {"map", "stack"}
         /\ phase' # "zero"
    BY <1>1, <2>1, Zenon DEF Started
  <2>15. done' <= file.ph[index'].filesz /\ index' \in DOMAIN file.ph /\ done' \in Nat
    BY <1>2, <2>1, <2>3, Zenon
  <2>16. perm' \in [Pages -> {"none", "r", "rw"}]
    BY <1>2, <2>1, Zenon
  <2> QED
    BY <1>1, <2>1, <2>12, <2>13, <2>14, <2>15, <2>16, LoadStep, Zenon
<1>8. CASE /\ done = h.filesz /\ phase' = "zero" /\ done' = 0
           /\ UNCHANGED <<program, file, error, index, perm, mem>>
  <2>1. /\ file' = file /\ error' = error /\ index' = index /\ done' = 0
        /\ phase' = "zero" /\ perm' = perm /\ mem' = mem
    BY <1>8, Zenon
  <2>2. phase' # "map" /\ phase' # "loaded" /\ phase' # "copy" /\ phase' # "stack" /\ Started'
    BY <2>1, Zenon DEF Started
  <2>3. /\ \A j : j \in Mapped' <=> j \in Mapped
        /\ \A j \in Mapped : j # index => Written(j)' = Written(j)
    BY <1>1, <2>1, <2>2, SameSegment, Zenon
  <2>4. \A j : j = index => Written(j)' = Written(j)
    <3>1. \A j : j = index => Copied(j)' = Copied(j)
      BY <1>1, <1>8, <2>1, <2>2, Zenon DEF Copied
    <3> QED
      BY <2>1, <3>1, Zenon DEF Written
  <2>5. \A j \in Mapped : Written(j)' = Written(j)
    BY <2>3, <2>4, Zenon
  <2>6. BytesSoFar'
    BY <1>2, <2>1, <2>3, <2>5, BytesStay, Zenon
  <2>7. PermsSoFar'
    BY <1>1, <1>2, <2>1, <2>2, <2>3, PermsStay, Zenon
  <2>8. 0 <= h.memsz - h.filesz /\ 0 \in Nat
    BY <1>3
  <2>9. /\ done' <= file.ph[index'].memsz - file.ph[index'].filesz
        /\ index' \in DOMAIN file.ph /\ done' \in Nat
        /\ perm' \in [Pages -> {"none", "r", "rw"}] /\ DOMAIN mem' = Addresses
    BY <1>2, <2>1, <2>8, Zenon
  <2> QED
    BY <1>1, <2>1, <2>2, <2>6, <2>7, <2>9, LoadStep, Zenon
<1> QED
  BY <1>5, <1>6, <1>7, <1>8, Zenon

\* zero_user_range, and the way on to the next segment or to the stack.
LEMMA ZeroStep ==
  ASSUME LoadInv, ZeroUserRange
  PROVE  LoadInv'
<1> DEFINE h == file.ph[index]
           size == h.memsz - h.filesz
           address == h.vaddr + h.filesz + done
           count == Chunk(address, size - done)
           moved == address .. address + count - 1
<1>1. phase = "zero" /\ Started /\ phase # "map" /\ phase # "loaded" /\ phase # "copy"
  BY Zenon DEF ZeroUserRange, Started
<1>2. /\ IsFile(file) /\ WellFormed(file) /\ index \in DOMAIN file.ph /\ index \in Nat
      /\ PermsSoFar /\ BytesSoFar /\ perm \in [Pages -> {"none", "r", "rw"}]
      /\ \A j \in Mapped : j \in DOMAIN file.ph
      /\ done \in Nat /\ DOMAIN mem = Addresses
      /\ DOMAIN file.ph = 1 .. Len(file.ph) /\ Len(file.ph) \in Nat
  BY <1>1, Loading, Zenon
<1>3. h.vaddr \in Nat /\ h.memsz \in Nat /\ h.filesz \in Nat /\ h.filesz <= h.memsz
  BY <1>2, SegmentFacts, Zenon
<1>4. done <= size
  BY <1>1, Zenon DEF LoadInv, Segment
<1>5. \/ done < size /\ ~Translates(address)
      \/ /\ done < size
         /\ mem' = [a \in Addresses |-> IF a \in moved THEN 0 ELSE mem[a]]
         /\ done' = done + count
         /\ UNCHANGED <<program, file, phase, error, index, perm>>
      \/ /\ done' = 0
         /\ \/ index < Len(file.ph) /\ index' = index + 1 /\ phase' = "map"
            \/ ~(index < Len(file.ph)) /\ phase' = "stack" /\ index' = index
         /\ UNCHANGED <<program, file, error, perm, mem>>
  BY Zenon DEF ZeroUserRange, ZeroFrom, Segment
<1>6. CASE done < size /\ ~Translates(address)
  <2>1. address \in Bytes(h)
    <3>1. \A v, f, m, d \in Nat : d < m - f => v + f + d \in v .. v + m - 1
      OBVIOUS
    <3> QED
      BY <1>2, <1>3, <1>6, <3>1, Zenon DEF Bytes
  <2> QED
    BY <1>1, <1>6, <2>1, SegmentTranslates, Zenon DEF Segment
<1>7. CASE /\ done < size
           /\ mem' = [a \in Addresses |-> IF a \in moved THEN 0 ELSE mem[a]]
           /\ done' = done + count
           /\ UNCHANGED <<program, file, phase, error, index, perm>>
  <2>1. /\ file' = file /\ error' = error /\ index' = index /\ done' = done + count
        /\ phase' = phase /\ perm' = perm /\ DOMAIN mem' = Addresses
        /\ \A a \in Addresses : mem'[a] = IF a \in moved THEN 0 ELSE mem[a]
    BY <1>7, Zenon
  <2>2. count \in Nat \ {0} /\ count <= size - done
    <3>1. address \in Nat
      <4>1. \A v, f, d \in Nat : v + f + d \in Nat
        OBVIOUS
      <4> QED
        BY <1>2, <1>3, <4>1, Zenon
    <3>2. size - done \in Nat \ {0}
      <4>1. \A f, m, d \in Nat : d < m - f => m - f - d \in Nat \ {0}
        OBVIOUS
      <4> QED
        BY <1>2, <1>3, <1>7, <4>1, Zenon
    <3> QED
      BY <3>1, <3>2, ChunkFits, Zenon
  <2> HIDE DEF count
  <2>3. done + count \in Nat /\ done + count <= size
    <3>1. \A f, m, d, c \in Nat : c <= m - f - d => d + c \in Nat /\ d + c <= m - f
      OBVIOUS
    <3> QED
      BY <1>2, <1>3, <2>2, <3>1, Zenon
  <2>4. /\ \A j : j \in Mapped' <=> j \in Mapped
        /\ index \in Mapped
        /\ \A j \in Mapped : j # index => Written(j)' = Written(j)
    BY <1>1, <2>1, SameSegment, Zenon
  <2>5. \A j : j = index => Written(j)' = Written(j)
    BY <1>1, <2>1, Zenon DEF Written, Copied
  <2>6. Written(index) = h.vaddr .. h.vaddr + h.filesz - 1
    BY <1>1, Zenon DEF Written, Copied
  <2>7. \A a \in moved : a \notin h.vaddr .. h.vaddr + h.filesz - 1 /\ a \in Bytes(h)
    <3> DEFINE v == h.vaddr
               z == h.filesz
               m == h.memsz
    <3>1. /\ v \in Nat /\ z \in Nat /\ m \in Nat /\ done \in Nat /\ count \in Nat
          /\ done + count <= m - z /\ moved = v + z + done .. v + z + done + count - 1
          /\ Bytes(h) = v .. v + m - 1
      BY <1>2, <1>3, <2>2, <2>3, Zenon DEF Bytes
    <3> HIDE DEF v, z, m, moved
    <3>2. \A a \in v + z + done .. v + z + done + count - 1 :
            a \notin v .. v + z - 1 /\ a \in v .. v + m - 1
      BY <3>1
    <3> QED
      BY <3>1, <3>2, Zenon DEF v, z
  <2> HIDE DEF moved
  <2>8. ASSUME NEW j \in Mapped, NEW a \in Written(j)
        PROVE  mem'[a] = mem[a]
    <3>1. a \in Bytes(file.ph[j])
      BY <1>1, WrittenInSegment, Zenon
    <3>2. a \in Addresses
      BY <1>2, <3>1, SegmentFacts, Zenon
    <3>3. a \notin moved
      <4>1. CASE j = index
        BY <2>6, <2>7, <2>8, <4>1, Zenon
      <4>2. CASE j # index
        BY <1>2, <2>7, <3>1, <4>2, SegmentsApart, Zenon
      <4> QED
        BY <4>1, <4>2, Zenon
    <3> QED
      BY <2>1, <3>2, <3>3, Zenon
  <2>9. \A j \in Mapped : Written(j)' = Written(j)
    BY <2>4, <2>5, Zenon
  <2>10. ASSUME NEW j \in Mapped', NEW a \in Written(j)'
         PROVE  mem'[a] = file.bytes[file.ph[j].offset + a - file.ph[j].vaddr]
    <3>1. j \in Mapped /\ a \in Written(j)
      BY <2>4, <2>9, <2>10, Zenon
    <3> QED
      BY <1>2, <2>8, <3>1, Zenon DEF BytesSoFar
  <2>11. ASSUME NEW a \in Addresses, \A j \in Mapped' : a \notin Written(j)'
         PROVE  mem'[a] = 0
    <3>1. mem[a] = 0
      BY <1>2, <2>4, <2>9, <2>11, Zenon DEF BytesSoFar
    <3> QED
      BY <2>1, <3>1, Zenon
  <2>12. BytesSoFar'
    BY <2>1, <2>10, <2>11, Zenon DEF BytesSoFar
  <2>13. PermsSoFar'
    BY <1>1, <1>2, <2>1, <2>4, PermsStay, Zenon
  <2>14. Started' /\ phase' \notin {"stack", "loaded"} /\ phase' \notin {"map", "stack"}
         /\ phase' # "copy"
    BY <1>1, <2>1 DEF Started
  <2>15. /\ done' <= file.ph[index'].memsz - file.ph[index'].filesz
         /\ index' \in DOMAIN file.ph /\ done' \in Nat
         /\ perm' \in [Pages -> {"none", "r", "rw"}]
    BY <1>2, <2>1, <2>3, Zenon
  <2> QED
    BY <1>1, <2>1, <2>12, <2>13, <2>14, <2>15, LoadStep, Zenon
<1>8. CASE /\ done' = 0
           /\ \/ index < Len(file.ph) /\ index' = index + 1 /\ phase' = "map"
              \/ ~(index < Len(file.ph)) /\ phase' = "stack" /\ index' = index
           /\ UNCHANGED <<program, file, error, perm, mem>>
  <2>1. /\ file' = file /\ error' = error /\ perm' = perm /\ mem' = mem
    BY <1>8, Zenon
  <2>2. /\ phase' # "loaded" /\ phase' # "copy" /\ phase' # "zero" /\ Started'
        /\ done' = 0 /\ done' \in Nat
    BY <1>8, Zenon DEF Started
  <2>3. /\ index' \in DOMAIN file.ph
        /\ phase' \in {"stack", "loaded"} => index' = Len(file.ph)
    BY <1>2, <1>8
  <2>4. \A j \in DOMAIN file.ph :
          j < index' \/ (j = index' /\ phase' # "map") <=> j < index \/ j = index
    BY <1>2, <1>8
  <2>5. \A j : j \in Mapped' <=> j \in Mapped
    BY <1>1, <2>1, <2>4, Zenon DEF Mapped
  <2>6. \A j : Written(j)' = Written(j)
    BY <1>1, <2>1, <2>2, Zenon DEF Written, Copied
  <2>7. BytesSoFar'
    BY <1>2, <2>1, <2>5, <2>6, BytesStay, Zenon
  <2>8. PermsSoFar'
    BY <1>1, <1>2, <2>1, <2>2, <2>5, PermsStay, Zenon
  <2>9. perm' \in [Pages -> {"none", "r", "rw"}] /\ DOMAIN mem' = Addresses
    BY <1>2, <2>1, Zenon
  <2> QED
    BY <1>1, <2>1, <2>2, <2>3, <2>7, <2>8, <2>9, LoadStep, Zenon
<1> QED
  BY <1>5, <1>6, <1>7, <1>8, Zenon

\* The stack lies above the load window.
LEMMA StackAbove ==
  /\ \A q \in StackRegion : q \in Pages /\ PageOf(LoadEnd) < q
  /\ PageOf(LoadEnd) \in Nat
<1> DEFINE lend == PageOf(LoadEnd)
           top == PageOf(StackTop)
<1>1. lend \in Nat /\ LoadEnd = lend * PageSize /\ top \in Nat /\ StackTop = top * PageSize
  BY Constants, Aligned, Zenon
<1>2. StackRegion = top - StackPages .. top - 1 /\ Pages = 0 .. top - 1
  BY Zenon DEF StackRegion, Pages, PageOf
<1> HIDE DEF lend, top
<1>3. lend + 1 + StackPages \in Nat
  BY <1>1, Constants
<1>4. (lend + 1 + StackPages) * PageSize = LoadEnd + PageSize + StackPages * PageSize
  BY <1>1, Constants
<1>5. (lend + 1 + StackPages) * PageSize <= top * PageSize
  <2>1. StackPages * PageSize \in Nat
    BY Constants, PageMultiples, Zenon
  <2>2. LoadEnd + PageSize + StackPages * PageSize <= StackTop
    BY <2>1, Constants
  <2> QED
    BY <1>1, <1>4, <2>2, Zenon
<1>6. lend + 1 + StackPages <= top
  <2> DEFINE n == lend + 1 + StackPages
  <2>1. /\ top < n => top * PageSize + PageSize <= n * PageSize
        /\ top * PageSize \in Nat /\ n * PageSize \in Nat
    BY <1>1, <1>3, PageMultiples, Zenon
  <2>2. n \in Nat /\ n * PageSize <= top * PageSize
    BY <1>3, <1>5, Zenon
  <2> HIDE DEF n
  <2>3. n <= top
    BY <1>1, <2>1, <2>2, Constants
  <2> QED
    BY <2>3, Zenon DEF n
<1>7. \A q \in top - StackPages .. top - 1 : q \in 0 .. top - 1 /\ lend < q
  BY <1>1, <1>6, Constants
<1> QED
  BY <1>1, <1>2, <1>7, Zenon DEF lend

\* map_user_stack.
LEMMA StackStep ==
  ASSUME LoadInv, MapUserStack
  PROVE  LoadInv'
<1>1. /\ phase = "stack" /\ Started /\ phase # "map" /\ phase # "copy" /\ phase # "loaded"
      /\ phase \in {"stack", "loaded"} /\ MapPages(StackRegion, "rw", "loaded")
  BY Zenon DEF MapUserStack, Started
<1>2. /\ IsFile(file) /\ WellFormed(file) /\ index \in DOMAIN file.ph /\ index \in Nat
      /\ PermsSoFar /\ BytesSoFar /\ perm \in [Pages -> {"none", "r", "rw"}]
      /\ \A j \in Mapped : j \in DOMAIN file.ph
      /\ done \in Nat
  BY <1>1, Loading, Zenon
<1>3. ASSUME NEW j \in Mapped, NEW q \in Touched(file.ph[j])
      PROVE  q \in Pages /\ q \notin StackRegion
  <2>1. q \in Pages /\ q < PageOf(LoadEnd)
    BY <1>2, <1>3, SegmentFacts, Zenon
  <2>2. q \in Nat
    <3>1. StackTop \div PageSize \in Nat
      BY Constants, PageOfAddress, Zenon DEF PageOf
    <3> QED
      BY <2>1, <3>1 DEF Pages
  <2>3. q \in StackRegion => PageOf(LoadEnd) < q
    BY StackAbove, Zenon
  <2>4. PageOf(LoadEnd) \in Nat
    BY StackAbove, Zenon
  <2>5. q \notin StackRegion
    BY <2>1, <2>2, <2>3, <2>4
  <2> QED
    BY <2>1, <2>5, Zenon
<1>4. \A q \in StackRegion : q \in Pages /\ perm[q] = "none"
  BY <1>1, <1>2, <1>3, StackAbove, Zenon DEF PermsSoFar
<1>5. CASE Fail("OutOfFrames")
  <2>1. "OutOfFrames" \in (ParseErrors \cup LoadErrors) \ {"MapFailed", "UserCopyFailed"}
    BY DEF LoadErrors
  <2> QED
    BY <1>5, <2>1, FailStep, Zenon
<1>6. CASE /\ perm' = [q \in Pages |-> IF q \in StackRegion THEN "rw" ELSE perm[q]]
           /\ mem' = [a \in Addresses |-> IF PageOf(a) \in StackRegion THEN 0 ELSE mem[a]]
           /\ phase' = "loaded"
           /\ UNCHANGED <<program, file, error, index, done>>
  <2>1. /\ file' = file /\ error' = error /\ index' = index /\ done' = done
        /\ phase' = "loaded" /\ DOMAIN mem' = Addresses
        /\ \A q \in Pages : perm'[q] = IF q \in StackRegion THEN "rw" ELSE perm[q]
        /\ \A a \in Addresses : mem'[a] = IF PageOf(a) \in StackRegion THEN 0 ELSE mem[a]
    BY <1>6, Zenon
  <2>2. /\ Started' /\ phase' # "map" /\ phase' # "copy" /\ phase' # "zero" /\ phase' # "stack"
    BY <2>1, Zenon DEF Started
  <2>3. \A j : j \in Mapped' <=> j \in Mapped
    BY <1>1, <2>1, <2>2, SameSegment, Zenon
  <2>4. \A j : Written(j)' = Written(j)
    BY <1>1, <2>1, <2>2, Zenon DEF Written, Copied
  <2>5. PermsSoFar'
    BY <1>1, <1>2, <1>3, <1>4, <2>1, <2>3, Zenon DEF PermsSoFar
  <2>6. ASSUME NEW j \in Mapped', NEW a \in Written(j)'
        PROVE  mem'[a] = file.bytes[file.ph[j].offset + a - file.ph[j].vaddr]
    <3>1. j \in Mapped /\ a \in Written(j)
      BY <2>3, <2>4, <2>6, Zenon
    <3>2. a \in Bytes(file.ph[j])
      BY <1>1, <3>1, WrittenInSegment, Zenon
    <3>3. a \in Addresses /\ PageOf(a) \in Touched(file.ph[j])
      BY <1>2, <3>1, <3>2, SegmentFacts, Zenon
    <3>4. mem'[a] = mem[a]
      BY <1>3, <2>1, <3>1, <3>3, Zenon
    <3> QED
      BY <1>2, <3>1, <3>4, Zenon DEF BytesSoFar
  <2>7. ASSUME NEW a \in Addresses, \A j \in Mapped' : a \notin Written(j)'
        PROVE  mem'[a] = 0
    <3>1. mem[a] = 0
      BY <1>2, <2>3, <2>4, <2>7, Zenon DEF BytesSoFar
    <3> QED
      BY <2>1, <3>1, Zenon
  <2>8. BytesSoFar'
    BY <2>1, <2>6, <2>7, Zenon DEF BytesSoFar
  <2>9. index' = Len(file.ph) /\ index' \in DOMAIN file.ph /\ done' \in Nat
    BY <1>1, <1>2, <2>1, Zenon DEF LoadInv
  <2>10. perm' \in [Pages -> {"none", "r", "rw"}]
    BY <1>2, <1>6, Zenon
  <2>11. phase' \notin {"map", "stack"}
    BY <2>1, Zenon
  <2> QED
    BY <1>1, <2>1, <2>2, <2>5, <2>8, <2>9, <2>10, <2>11, LoadStep, Zenon
<1> QED
  BY <1>1, <1>4, <1>5, <1>6, Zenon DEF MapPages

\* parse_elf, and what comes before the first segment is mapped.
LEMMA ParseStep ==
  ASSUME LoadInv, Parse
  PROVE  LoadInv'
<1> DEFINE verdict == ParseElf(file)
           harmless == (ParseErrors \cup LoadErrors) \ {"MapFailed", "UserCopyFailed"}
<1>1. /\ phase = "parse" /\ IsFile(file) /\ TypeOK /\ index = 0 /\ done = 0
      /\ \A q \in Pages : perm[q] = "none"
      /\ \A a \in Addresses : mem[a] = 0
  BY Zenon DEF Parse, LoadInv
<1>2. verdict \in ParseErrors \cup {"Ok"} /\ (verdict = "Ok" <=> WellFormed(file))
  BY <1>1, ParseAccepts, Zenon
<1>3. \/ verdict # "Ok" /\ Fail(verdict)
      \/ Fail("NoHeapRange") \/ Fail("OutOfFrames")
      \/ /\ verdict = "Ok" /\ HasHeapRange(file)
         /\ phase' = "map" /\ index' = 1
         /\ UNCHANGED <<program, file, error, done, perm, mem>>
  BY Zenon DEF Parse
<1>4. "NoHeapRange" \in harmless /\ "OutOfFrames" \in harmless /\ ParseErrors \subseteq harmless
  BY Zenon DEF ParseErrors, LoadErrors
<1>5. CASE verdict # "Ok" /\ Fail(verdict)
  BY <1>2, <1>4, <1>5, FailStep, Zenon
<1>6. CASE Fail("NoHeapRange") \/ Fail("OutOfFrames")
  BY <1>4, <1>6, FailStep, Zenon
<1>7. CASE /\ verdict = "Ok" /\ HasHeapRange(file)
           /\ phase' = "map" /\ index' = 1
           /\ UNCHANGED <<program, file, error, done, perm, mem>>
  <2>1. /\ file' = file /\ error' = error /\ index' = 1 /\ done' = 0 /\ phase' = "map"
        /\ perm' = perm /\ mem' = mem
    BY <1>1, <1>7, Zenon
  <2>2. WellFormed(file) /\ GoodHeader(file) /\ Len(file.ph) \in Nat
        /\ DOMAIN file.ph = 1 .. Len(file.ph)
    BY <1>1, <1>2, <1>7, WellFormedParts, Zenon
  <2>3. 1 \in 1 .. Len(file.ph) /\ 1 \in 0 .. Len(file.ph)
    <3>1. Len(file.ph) > 0
      BY <2>2, Zenon DEF GoodHeader
    <3> QED
      BY <2>2, <3>1
  <2>4. \A j : j \notin Mapped'
    <3>1. \A j \in 1 .. Len(file.ph) : ~(j < 1)
      BY <2>2
    <3> QED
      BY <2>1, <2>2, <3>1, Zenon DEF Mapped
  <2>5. /\ phase' # "loaded" /\ phase' # "parse" /\ phase' # "failed"
        /\ phase' \notin {"stack", "loaded"} /\ phase' # "copy" /\ phase' # "zero"
        /\ phase' \in {"parse", "map", "copy", "zero", "stack", "loaded", "failed"}
        /\ phase # "failed"
    BY <1>1, <2>1, Zenon
  <2>6. PermsSoFar' /\ BytesSoFar'
    BY <1>1, <2>1, <2>4, <2>5, Zenon DEF PermsSoFar, BytesSoFar
  <2>7. error = "Ok" /\ TypeOK'
    <3>1. error = "Ok"
      BY <1>1, <2>5, Zenon DEF TypeOK
    <3>2. error' = "Ok" /\ error' \in {"Ok"} \cup ParseErrors \cup LoadErrors
      BY <2>1, <3>1, Zenon
    <3>3. index' \in 0 .. Len(file'.ph) /\ 0 \in Nat
      BY <2>1, <2>3, Zenon
    <3> QED
      BY <1>1, <2>1, <2>5, <3>1, <3>2, <3>3, Zenon DEF TypeOK
  <2>8. error' \notin {"MapFailed", "UserCopyFailed"}
    BY <2>1, <2>7, Zenon
  <2>9. IsFile(file)' /\ WellFormed(file)' /\ HasHeapRange(file)'
    BY <1>1, <1>7, <2>1, <2>2, Zenon
  <2> QED
    BY <2>1, <2>3, <2>5, <2>6, <2>7, <2>8, <2>9, Zenon DEF LoadInv
<1> QED
  BY <1>3, <1>5, <1>6, <1>7, Zenon

\* Before parse_elf.
LEMMA InitLoadInv ==
  ASSUME Init
  PROVE  LoadInv
<1>1. IsFile(file)
  BY ElfFileAssumption, Zenon DEF Init
<1>2. /\ phase = "parse" /\ error = "Ok" /\ index = 0 /\ done = 0
      /\ perm = [q \in Pages |-> "none"] /\ mem = [a \in Addresses |-> 0]
  BY Zenon DEF Init
<1>3. Len(file.ph) \in Nat
  BY <1>1, WellFormedParts, Zenon
<1>4. index \in 0 .. Len(file.ph) /\ done \in Nat
  BY <1>2, <1>3
<1>5. /\ phase \in {"parse", "map", "copy", "zero", "stack", "loaded", "failed"}
      /\ phase # "failed" /\ ~Started /\ phase \notin {"stack", "loaded"}
      /\ phase \notin {"map", "stack"} /\ phase # "copy" /\ phase # "zero"
      /\ error \notin {"MapFailed", "UserCopyFailed"}
  BY <1>2, Zenon DEF Started
<1>6. /\ perm \in [Pages -> {"none", "r", "rw"}] /\ DOMAIN mem = Addresses
      /\ \A q \in Pages : perm[q] = "none"
      /\ \A a \in Addresses : mem[a] = 0
  BY <1>2, Zenon
<1>7. TypeOK
  BY <1>2, <1>4, <1>5, <1>6, Zenon DEF TypeOK
<1> QED
  BY <1>1, <1>2, <1>5, <1>6, <1>7, Zenon DEF LoadInv

\* LoadInv is inductive.
LEMMA NextLoadInv ==
  ASSUME LoadInv, [Next]_vars
  PROVE  LoadInv'
<1>1. CASE Next
  BY <1>1, ParseStep, MapStep, CopyStep, ZeroStep, StackStep, Zenon DEF Next
<1>2. CASE UNCHANGED vars
  <2>1. /\ file' = file /\ error' = error /\ index' = index /\ done' = done
        /\ phase' = phase /\ perm' = perm /\ mem' = mem
    BY <1>2, Zenon DEF vars
  <2>2. /\ \A j : j \in Mapped' <=> j \in Mapped
        /\ \A j : Written(j)' = Written(j)
    BY <2>1, Zenon DEF Mapped, Written, Copied
  <2>3. (PermsSoFar' <=> PermsSoFar) /\ (BytesSoFar' <=> BytesSoFar)
    BY <2>1, <2>2, Zenon DEF PermsSoFar, BytesSoFar
  <2>4. (TypeOK' <=> TypeOK) /\ (Started' <=> Started) /\ Segment' = Segment
        /\ (IsFile(file)' <=> IsFile(file)) /\ (WellFormed(file)' <=> WellFormed(file))
        /\ (HasHeapRange(file)' <=> HasHeapRange(file))
    BY <2>1, Zenon DEF TypeOK, Started, Segment
  <2> QED
    BY <2>1, <2>3, <2>4, Zenon DEF LoadInv
<1> QED
  BY <1>1, <1>2, Zenon

\* LoadInv holds in every reachable state.
LEMMA LoadInvHolds == Spec => []LoadInv
<1>1. Init => LoadInv
  BY InitLoadInv, Zenon
<1>2. LoadInv /\ [Next]_vars => LoadInv'
  BY NextLoadInv, Zenon
<1> QED
  BY <1>1, <1>2, PTL DEF Spec

-----------------------------------------------------------------------------
(* The results *)

\* parse_elf accepts exactly the well formed files, whatever their fields are:
\* checked sums never take a wrapped one for a small number, and the check for
\* overlaps, which compares a segment with the earlier ones, finds every page
\* that two segments share.
THEOREM ParserAcceptsWellFormedFiles == Spec => []ParserIsExact
<1>1. ASSUME LoadInv PROVE ParserIsExact
  <2>1. IsFile(file)
    BY <1>1, Zenon DEF LoadInv
  <2> QED
    BY <2>1, ParseAccepts, Zenon DEF ParserIsExact
<1> QED
  BY <1>1, LoadInvHolds, PTL

\* What parse_elf accepts can be loaded: no page is mapped twice and every byte
\* that is copied or zeroed lies in a mapped page.
THEOREM AcceptedFilesAlwaysLoad == Spec => []AcceptedFilesLoad
<1>1. ASSUME LoadInv PROVE AcceptedFilesLoad
  BY <1>1, Zenon DEF LoadInv, AcceptedFilesLoad
<1> QED
  BY <1>1, LoadInvHolds, PTL

\* What is known at the end.
LEMMA LoadedFacts ==
  ASSUME LoadInv, phase = "loaded"
  PROVE  /\ Started /\ \A j : j \in Mapped <=> j \in DOMAIN file.ph
         /\ \A j \in DOMAIN file.ph :
              \A a : a \in Written(j) <=> InFile(file.ph[j], a)
<1>1. Started /\ phase # "copy" /\ phase # "map" /\ phase \in {"stack", "loaded"}
  BY Zenon DEF Started
<1>2. index = Len(file.ph)
  BY <1>1, Zenon DEF LoadInv
<1>3. DOMAIN file.ph = 1 .. Len(file.ph) /\ Len(file.ph) \in Nat
  BY <1>1, Loading, Zenon
<1>4. \A j \in DOMAIN file.ph : j < index \/ j = index
  BY <1>2, <1>3
<1>5. \A j : j \in Mapped <=> j \in DOMAIN file.ph
  BY <1>1, <1>4, Zenon DEF Mapped
<1> QED
  BY <1>1, <1>5, Zenon DEF Written, Copied, InFile

\* After load_user_elf the user half holds the image and nothing else.
THEOREM LoadedImageIsExact == Spec => []ImageIsExact
<1>1. ASSUME LoadInv, phase = "loaded", NEW q \in Pages
      PROVE  perm[q] = IF q \in StackRegion THEN "rw"
                       ELSE IF \E i \in DOMAIN file.ph : q \in Touched(file.ph[i])
                       THEN UserFlags(file.ph[CHOOSE i \in DOMAIN file.ph :
                                                q \in Touched(file.ph[i])])
                       ELSE "none"
  <2>1. PermsSoFar /\ \A j : j \in Mapped <=> j \in DOMAIN file.ph
    BY <1>1, LoadedFacts, Loading, Zenon
  <2>2. CASE q \in StackRegion
    BY <1>1, <2>1, <2>2, Zenon DEF PermsSoFar
  <2>3. CASE q \notin StackRegion /\ \E i \in DOMAIN file.ph : q \in Touched(file.ph[i])
    <3> DEFINE c == CHOOSE i \in DOMAIN file.ph : q \in Touched(file.ph[i])
    <3>1. c \in DOMAIN file.ph /\ q \in Touched(file.ph[c])
      BY <2>3, Zenon
    <3>2. perm[q] = UserFlags(file.ph[c])
      BY <2>1, <3>1, Zenon DEF PermsSoFar
    <3> QED
      BY <2>3, <3>2, Zenon
  <2>4. CASE q \notin StackRegion /\ ~\E i \in DOMAIN file.ph : q \in Touched(file.ph[i])
    <3>1. perm[q] = "none"
      BY <2>1, <2>4, Zenon DEF PermsSoFar
    <3> QED
      BY <2>4, <3>1, Zenon
  <2> QED
    BY <2>2, <2>3, <2>4, Zenon
<1>2. ASSUME LoadInv, phase = "loaded", NEW a \in Addresses
      PROVE  LET from == {i \in DOMAIN file.ph : InFile(file.ph[i], a)} IN
             IF from = {} THEN mem[a] = 0
             ELSE \A i \in from :
                    mem[a] = file.bytes[file.ph[i].offset + a - file.ph[i].vaddr]
  <2> DEFINE from == {i \in DOMAIN file.ph : InFile(file.ph[i], a)}
  <2>1. /\ BytesSoFar
        /\ \A j : j \in Mapped <=> j \in DOMAIN file.ph
        /\ \A j \in DOMAIN file.ph : a \in Written(j) <=> InFile(file.ph[j], a)
    BY <1>2, LoadedFacts, Loading, Zenon
  <2>2. from = {} => mem[a] = 0
    BY <2>1, Zenon DEF BytesSoFar
  <2>3. \A i \in from : mem[a] = file.bytes[file.ph[i].offset + a - file.ph[i].vaddr]
    BY <2>1, Zenon DEF BytesSoFar
  <2> QED
    BY <2>2, <2>3, Zenon
<1>3. ASSUME LoadInv PROVE ImageIsExact
  BY <1>1, <1>2, <1>3, Zenon DEF ImageIsExact
<1> QED
  BY <1>3, LoadInvHolds, PTL

\* The end of the image: the last segment's end, and the page it is rounded to.
LEMMA HeapBoundary ==
  ASSUME IsFile(file), WellFormed(file), HasHeapRange(file)
  PROVE  LET p == PageOf(HeapStart(file)) IN
         /\ p \in Nat /\ HeapStart(file) < LoadEnd
         /\ \A j \in DOMAIN file.ph : Past(file.ph[j]) <= p
         /\ \E j \in DOMAIN file.ph : Past(file.ph[j]) = p
<1> DEFINE end(j) == file.ph[j].vaddr + file.ph[j].memsz
           S == {end(j) : j \in DOMAIN file.ph}
           M == Max(S)
           p == PageOf(M + PageSize - 1)
<1>1. ASSUME NEW j \in DOMAIN file.ph
      PROVE  /\ end(j) \in Nat /\ end(j) <= LoadEnd
             /\ \A q \in Nat : end(j) <= q * PageSize <=> Past(file.ph[j]) <= q
             /\ Past(file.ph[j]) \in Nat
  <2> DEFINE h == file.ph[j]
  <2>1. /\ h \in ProgramHeader /\ h.vaddr % PageSize = 0 /\ 0 < h.memsz /\ InWindow(h)
        /\ h.vaddr \in Nat /\ h.memsz \in Nat
    BY SegmentFacts, Zenon
  <2> HIDE DEF h
  <2>2. /\ \A q \in Nat : h.vaddr + h.memsz <= q * PageSize <=> Past(h) <= q
        /\ Past(h) \in Nat
    BY <2>1, SegmentPlace, Zenon
  <2>3. h.vaddr + h.memsz \in Nat /\ h.vaddr + h.memsz <= LoadEnd
    BY <2>1 DEF InWindow
  <2> QED
    BY <2>2, <2>3, Zenon DEF h
<1>2. DOMAIN file.ph # {}
  BY WellFormedParts, Zenon
<1>3. LoadEnd \in Nat /\ PageSize \in Nat \ {0} /\ Word \in Nat /\ LoadEnd < Word
  BY Constants
<1>4. S \in SUBSET Nat /\ S # {} /\ \A x \in S : x <= LoadEnd
  BY <1>1, <1>2, Zenon
<1>5. M \in S /\ \A y \in S : y <= M
  BY <1>3, <1>4, Greatest, Zenon
<1>6. M \in Nat /\ \E j \in DOMAIN file.ph : end(j) = M
  BY <1>4, <1>5, Zenon
<1>7. \A j \in DOMAIN file.ph : end(j) <= M
  BY <1>5, Zenon
<1>8. HeapStart(file) = AlignUp(M) /\ HeapStart(file) < LoadEnd
  BY Zenon DEF HeapStart, MaxSegmentEnd, HasHeapRange
<1> HIDE DEF M, S
<1>9. AlignUp(M) = IF M + PageSize - 1 < Word THEN p * PageSize ELSE Word
  BY <1>6, AlignedUp, Zenon
<1>10. /\ p \in Nat /\ M <= p * PageSize
       /\ \A q \in Nat : M <= q * PageSize <=> p <= q
  BY <1>6, RoundedUp, Zenon
<1> HIDE DEF p
<1>11. p * PageSize \in Nat
  BY <1>10, PageMultiples, Zenon
<1>12. HeapStart(file) = p * PageSize
  BY <1>3, <1>6, <1>8, <1>9, <1>11
<1>13. PageOf(HeapStart(file)) = p
  BY <1>10, <1>12, PageBoundary, Zenon
<1>14. ASSUME NEW j \in DOMAIN file.ph
       PROVE  Past(file.ph[j]) <= p
  <2>1. end(j) \in Nat /\ end(j) <= M
    BY <1>1, <1>7, Zenon
  <2> HIDE DEF end
  <2>2. end(j) <= p * PageSize
    BY <1>6, <1>10, <1>11, <2>1
  <2> QED
    BY <1>1, <1>10, <2>2, Zenon DEF end
<1>15. PICK j \in DOMAIN file.ph : end(j) = M
  BY <1>6, Zenon
<1>16. Past(file.ph[j]) = p
  <2> DEFINE r == Past(file.ph[j])
  <2>1. r \in Nat /\ \A q \in Nat : M <= q * PageSize <=> r <= q
    BY <1>1, <1>15, Zenon
  <2> HIDE DEF r
  <2>2. r <= p
    BY <1>10, <2>1, Zenon
  <2>3. r <= r
    BY <2>1
  <2>4. p <= r
    BY <1>10, <2>1, <2>3, Zenon
  <2>5. r = p
    BY <1>10, <2>1, <2>2, <2>4
  <2> QED
    BY <2>5, Zenon DEF r
<1> QED
  BY <1>8, <1>10, <1>13, <1>14, <1>16, Zenon

\* The image of a loaded program: the pages that its segments touch.
LEMMA ImagePages ==
  ASSUME LoadInv, phase = "loaded", NEW q
  PROVE  (q \in Pages \ StackRegion /\ perm[q] # "none")
           <=> \E j \in DOMAIN file.ph : q \in Touched(file.ph[j])
<1>1. /\ PermsSoFar /\ IsFile(file) /\ WellFormed(file)
      /\ \A j : j \in Mapped <=> j \in DOMAIN file.ph
  BY LoadedFacts, Loading, Zenon
<1>2. CASE \E j \in DOMAIN file.ph : q \in Touched(file.ph[j])
  <2>1. PICK j \in DOMAIN file.ph : q \in Touched(file.ph[j])
    BY <1>2, Zenon
  <2>2. q \in Pages /\ q < PageOf(LoadEnd)
    BY <1>1, <2>1, SegmentFacts, Zenon
  <2>3. perm[q] = UserFlags(file.ph[j])
    BY <1>1, <2>1, <2>2, Zenon DEF PermsSoFar
  <2>4. perm[q] # "none"
    BY <2>3, Zenon DEF UserFlags
  <2>5. q \in Nat
    BY <2>2 DEF Pages
  <2>6. q \notin StackRegion
    <3>1. PageOf(LoadEnd) \in Nat /\ (q \in StackRegion => PageOf(LoadEnd) < q)
      BY StackAbove, Zenon
    <3> HIDE DEF PageOf
    <3> QED
      BY <2>2, <2>5, <3>1
  <2> QED
    BY <1>2, <2>2, <2>4, <2>6, Zenon
<1>3. CASE ~\E j \in DOMAIN file.ph : q \in Touched(file.ph[j])
  BY <1>1, <1>3, Zenon DEF PermsSoFar
<1> QED
  BY <1>2, <1>3, Zenon

\* The heap starts right above the image, below the end of the load window, and
\* the entry point is in the image: what UserHeap assumes of an image
\* (ImageAssumption) is what the loader produces.
THEOREM HeapStartsAboveImage == Spec => []HeapFollowsImage
<1> DEFINE image == {q \in Pages \ StackRegion : perm[q] # "none"}
           p == PageOf(HeapStart(file))
           low == PageOf(LoadStart)
<1>1. ASSUME LoadInv, phase = "loaded"
      PROVE  /\ image \subseteq low .. p - 1 /\ p - 1 \in image
             /\ HeapStart(file) < LoadEnd /\ PageOf(file.entry) \in image
  <2>1. IsFile(file) /\ WellFormed(file) /\ HasHeapRange(file)
    BY <1>1, LoadedFacts, Loading, Zenon
  <2>2. /\ p \in Nat /\ HeapStart(file) < LoadEnd
        /\ \A j \in DOMAIN file.ph : Past(file.ph[j]) <= p
        /\ \E j \in DOMAIN file.ph : Past(file.ph[j]) = p
    BY <2>1, HeapBoundary, Zenon
  <2>3. \A q : q \in image <=> \E j \in DOMAIN file.ph : q \in Touched(file.ph[j])
    BY <1>1, ImagePages, Zenon
  <2>4. ASSUME NEW j \in DOMAIN file.ph
        PROVE  /\ Touched(file.ph[j]) = First(file.ph[j]) .. Past(file.ph[j]) - 1
               /\ First(file.ph[j]) \in Nat /\ Past(file.ph[j]) \in Nat
               /\ First(file.ph[j]) < Past(file.ph[j]) /\ low <= First(file.ph[j])
               /\ low \in Nat
    <3> DEFINE h == file.ph[j]
               fst == First(h)
    <3>1. /\ h \in ProgramHeader /\ h.vaddr % PageSize = 0 /\ 0 < h.memsz /\ InWindow(h)
          /\ h.vaddr \in Nat
      BY <2>1, SegmentFacts, Zenon
    <3> HIDE DEF h
    <3>2. /\ fst \in Nat /\ Past(h) \in Nat /\ fst < Past(h)
          /\ h.vaddr = fst * PageSize /\ Touched(h) = fst .. Past(h) - 1
      BY <3>1, SegmentPlace, TouchedPages, Zenon
    <3>3. low \in Nat /\ low * PageSize <= LoadStart /\ LoadStart \in Nat
      BY Constants, PageOfAddress, Zenon
    <3>4. LoadStart <= h.vaddr
      BY <3>1, Zenon DEF InWindow
    <3> HIDE DEF low, fst
    <3>5. /\ low * PageSize \in Nat /\ fst * PageSize \in Nat
          /\ fst < low => fst * PageSize + PageSize <= low * PageSize
      BY <3>2, <3>3, PageMultiples, Zenon
    <3>6. low <= fst
      BY <3>2, <3>3, <3>4, <3>5, Constants
    <3> QED
      BY <3>2, <3>3, <3>6, Zenon DEF h, fst
  <2> HIDE DEF image, p, low
  <2>5. ASSUME NEW q \in image PROVE q \in low .. p - 1
    <3>1. PICK j \in DOMAIN file.ph : q \in Touched(file.ph[j])
      BY <2>3, Zenon
    <3> DEFINE a == First(file.ph[j])
               b == Past(file.ph[j])
    <3>2. /\ q \in a .. b - 1 /\ a \in Nat /\ b \in Nat /\ low <= a /\ low \in Nat
          /\ b <= p /\ p \in Nat
      BY <2>2, <2>4, <3>1, Zenon
    <3> HIDE DEF a, b
    <3> QED
      BY <3>2
  <2>6. p - 1 \in image
    <3>1. PICK j \in DOMAIN file.ph : Past(file.ph[j]) = p
      BY <2>2, Zenon
    <3> DEFINE a == First(file.ph[j])
    <3>2. a \in Nat /\ p \in Nat /\ a < p /\ Touched(file.ph[j]) = a .. p - 1
      BY <2>2, <2>4, <3>1, Zenon
    <3> HIDE DEF a
    <3>3. p - 1 \in a .. p - 1
      BY <3>2
    <3> QED
      BY <2>3, <3>2, <3>3, Zenon
  <2>7. PageOf(file.entry) \in image
    <3>1. PICK j \in DOMAIN file.ph : file.entry \in Bytes(file.ph[j])
      BY <2>1, Zenon DEF WellFormed
    <3>2. PageOf(file.entry) \in Touched(file.ph[j])
      BY <2>1, <3>1, SegmentFacts, Zenon
    <3> QED
      BY <2>3, <3>2, Zenon
  <2> QED
    BY <2>2, <2>5, <2>6, <2>7, Zenon
<1>2. ASSUME LoadInv PROVE HeapFollowsImage
  BY <1>1, <1>2, Zenon DEF HeapFollowsImage
<1> QED
  BY <1>2, LoadInvHolds, PTL
-----------------------------------------------------------------------------
(***************************************************************************)
(* The files of build.rs.  elf() lays the data of the segments out one     *)
(* after the other, each on a page boundary behind the one before; FileEnd *)
(* is defined by recursion, and what is shown of it here is shown for the  *)
(* least index at which it could fail.                                     *)
(***************************************************************************)
EndAt(segments, f, i) ==
  IF i = 0 THEN RoundUp(HeaderSize + PhSize * Len(segments))
  ELSE IF segments[i].data = <<>> THEN f[i - 1]
  ELSE RoundUp(f[i - 1]) + Len(segments[i].data)

IsEnd(segments, m, f) == f = [i \in 0 .. m |-> EndAt(segments, f, i)]

\* file_len is defined for the first m segments, for every m.
LEMMA EndsExist ==
  ASSUME NEW segments, NEW m \in Nat
  PROVE  \E f : IsEnd(segments, m, f)
<1> DEFINE S == {k \in Nat : ~\E f : IsEnd(segments, k, f)}
<1>1. SUFFICES ASSUME S # {} PROVE FALSE
  BY Zenon
<1> DEFINE k == Min(S)
<1>2. S \in SUBSET Nat
  BY Zenon
<1>3. k \in S /\ \A y \in S : k <= y
  BY <1>1, <1>2, Least, Zenon
<1>4. k \in Nat /\ (~\E f : IsEnd(segments, k, f)) /\ \A y \in S : k <= y
  BY <1>3, Zenon
<1> HIDE DEF k
<1>5. CASE k = 0
  <2> DEFINE f == [i \in 0 .. 0 |-> EndAt(segments, <<>>, i)]
  <2>1. \A i \in 0 .. 0 : i = 0
    OBVIOUS
  <2>2. \A i \in 0 .. 0 : EndAt(segments, <<>>, i) = EndAt(segments, f, i)
    BY <2>1, Zenon DEF EndAt
  <2>3. f = [i \in 0 .. 0 |-> EndAt(segments, f, i)]
    BY <2>2, Zenon
  <2> QED  BY <1>4, <1>5, <2>3, Zenon DEF IsEnd
<1>6. CASE k # 0
  <2>1. k - 1 \in Nat /\ ~(k <= k - 1)
    BY <1>4, <1>6
  <2>2. k - 1 \notin S
    BY <1>4, <2>1, Zenon
  <2>3. PICK f : IsEnd(segments, k - 1, f)
    BY <2>1, <2>2, Zenon
  <2>4. \A i \in 0 .. k - 1 : f[i] = EndAt(segments, f, i)
    <3>1. f = [i \in 0 .. k - 1 |-> EndAt(segments, f, i)]
      BY <2>3, Zenon DEF IsEnd
    <3> QED  BY <3>1, Zenon
  <2> DEFINE g == [i \in 0 .. k |-> IF i = k THEN EndAt(segments, f, k) ELSE f[i]]
  <2>5. ASSUME NEW i \in 0 .. k
        PROVE  EndAt(segments, g, i) = EndAt(segments, f, i)
    <3>1. CASE i = 0
      BY <3>1, Zenon DEF EndAt
    <3>2. CASE i # 0
      <4>1. i - 1 \in 0 .. k /\ i - 1 # k
        BY <1>4, <3>2
      <4>2. g[i - 1] = f[i - 1]
        BY <4>1, Zenon
      <4> HIDE DEF g
      <4> QED  BY <3>2, <4>2, Zenon DEF EndAt
    <3> QED  BY <3>1, <3>2, Zenon
  <2>6. ASSUME NEW i \in 0 .. k
        PROVE  (IF i = k THEN EndAt(segments, f, k) ELSE f[i]) = EndAt(segments, g, i)
    <3>1. CASE i = k
      BY <2>5, <3>1, Zenon
    <3>2. CASE i # k
      <4>1. i \in 0 .. k - 1
        BY <1>4, <3>2
      <4> QED  BY <2>4, <2>5, <3>2, <4>1, Zenon
    <3> QED  BY <3>1, <3>2, Zenon
  <2>7. g = [i \in 0 .. k |-> EndAt(segments, g, i)]
    BY <2>6, Zenon
  <2> QED  BY <1>4, <2>7, Zenon DEF IsEnd
<1> QED  BY <1>5, <1>6, Zenon

\* FileEnd is what its equation says.
LEMMA FileEndIs ==
  ASSUME NEW segments, Len(segments) \in Nat
  PROVE  \A i \in 0 .. Len(segments) :
           FileEnd(segments)[i] = EndAt(segments, FileEnd(segments), i)
<1> DEFINE e == FileEnd(segments)
<1>1. e = CHOOSE f : IsEnd(segments, Len(segments), f)
  BY Zenon DEF FileEnd, IsEnd, EndAt
<1>2. \E f : IsEnd(segments, Len(segments), f)
  BY EndsExist, Zenon
<1>3. IsEnd(segments, Len(segments), e)
  BY <1>1, <1>2, Zenon
<1> HIDE DEF e
<1>4. e = [i \in 0 .. Len(segments) |-> EndAt(segments, e, i)]
  BY <1>3, Zenon DEF IsEnd
<1>5. \A i \in 0 .. Len(segments) : e[i] = EndAt(segments, e, i)
  BY <1>4, Zenon
<1> QED  BY <1>5, Zenon DEF e

\* align_up of build.rs.
LEMMA RoundUpIs ==
  ASSUME NEW a \in Nat
  PROVE  RoundUp(a) \in Nat /\ a <= RoundUp(a) /\ RoundUp(a) % PageSize = 0
<1> DEFINE p == PageOf(a + PageSize - 1)
<1>1. p \in Nat /\ RoundUp(a) = p * PageSize /\ a <= p * PageSize
  BY RoundedUp, Zenon DEF RoundUp
<1> HIDE DEF p
<1> DEFINE t == p * PageSize
           r == t % PageSize
<1>2. t \in Nat /\ PageOf(t) = p
  BY <1>1, PageMultiples, PageBoundary, Zenon
<1>3. r \in Nat /\ t = PageOf(t) * PageSize + r
  BY <1>2, PageOfAddress, Zenon
<1>4. t = t + r
  BY <1>2, <1>3, Zenon
<1>5. t % PageSize = r
  BY Zenon
<1> HIDE DEF t, r
<1>6. r = 0
  BY <1>2, <1>3, <1>4
<1> QED  BY <1>1, <1>2, <1>5, <1>6, Zenon DEF t

\* A segment of a program, and its data.
LEMMA BuiltFields ==
  ASSUME NEW segments \in Seq(BuiltSegment)
  PROVE  /\ Len(segments) \in Nat /\ DOMAIN segments = 1 .. Len(segments)
         /\ \A i \in DOMAIN segments :
              LET s == segments[i] IN
              /\ s \in BuiltSegment /\ s.vaddr \in Nat /\ s.memsz \in Nat
              /\ Len(s.data) \in Nat /\ DOMAIN s.data = 1 .. Len(s.data)
              /\ s.data = <<>> <=> Len(s.data) = 0
<1>1. Len(segments) \in Nat /\ DOMAIN segments = 1 .. Len(segments)
  OBVIOUS
<1>2. ASSUME NEW i \in DOMAIN segments PROVE segments[i] \in BuiltSegment
  OBVIOUS
<1>3. ASSUME NEW s \in BuiltSegment
      PROVE  /\ s.vaddr \in Nat /\ s.memsz \in Nat
             /\ Len(s.data) \in Nat /\ DOMAIN s.data = 1 .. Len(s.data)
             /\ s.data = <<>> <=> Len(s.data) = 0
  <2>1. s.vaddr \in U64 /\ s.memsz \in U64 /\ s.data \in Seq(0 .. 255)
    BY Zenon DEF BuiltSegment
  <2>2. s.vaddr \in Nat /\ s.memsz \in Nat
    BY <2>1, Words, Zenon
  <2>3. ASSUME NEW d \in Seq(0 .. 255)
        PROVE  Len(d) \in Nat /\ DOMAIN d = 1 .. Len(d) /\ (d = <<>> <=> Len(d) = 0)
    OBVIOUS
  <2> QED  BY <2>1, <2>2, <2>3, Zenon
<1> QED  BY <1>1, <1>2, <1>3, Zenon
\* One turn of the loop that lays the data out.
LEMMA OneEnd ==
  ASSUME NEW segments \in Seq(BuiltSegment), NEW i \in DOMAIN segments,
         FileEnd(segments)[i - 1] \in Nat
  PROVE  LET e == FileEnd(segments)
             d == segments[i].data
         IN  /\ e[i] \in Nat /\ e[i - 1] <= e[i]
             /\ d # <<>> => e[i] = RoundUp(e[i - 1]) + Len(d)
<1> DEFINE e == FileEnd(segments)
           d == segments[i].data
           before == e[i - 1]
<1>1. /\ Len(segments) \in Nat /\ DOMAIN segments = 1 .. Len(segments) /\ Len(d) \in Nat
  BY BuiltFields, Zenon
<1>2. i \in 0 .. Len(segments) /\ i # 0
  BY <1>1
<1>3. e[i] = EndAt(segments, e, i)
  BY <1>1, <1>2, FileEndIs, Zenon
<1>4. e[i] = IF d = <<>> THEN before ELSE RoundUp(before) + Len(d)
  BY <1>2, <1>3, Zenon DEF EndAt
<1>5. before \in Nat /\ RoundUp(before) \in Nat /\ before <= RoundUp(before)
  BY RoundUpIs, Zenon
<1> HIDE DEF e, d, before
<1>6. e[i] \in Nat /\ before <= e[i]
  BY <1>1, <1>4, <1>5
<1>7. d # <<>> => e[i] = RoundUp(before) + Len(d)
  BY <1>4, Zenon
<1> QED  BY <1>6, <1>7, Zenon DEF e, d, before

\* The first segment's data come after the program headers.
LEMMA FirstEnd ==
  ASSUME NEW segments \in Seq(BuiltSegment)
  PROVE  /\ FileEnd(segments)[0] \in Nat
         /\ HeaderSize + PhSize * Len(segments) <= FileEnd(segments)[0]
<1> DEFINE a == HeaderSize + PhSize * Len(segments)
<1>1. Len(segments) \in Nat /\ 0 \in 0 .. Len(segments)
  BY BuiltFields
<1>2. a \in Nat
  BY <1>1, Constants
<1>3. FileEnd(segments)[0] = RoundUp(a)
  BY <1>1, FileEndIs, Zenon DEF EndAt
<1> HIDE DEF a
<1>4. RoundUp(a) \in Nat /\ a <= RoundUp(a)
  BY <1>2, RoundUpIs, Zenon
<1> QED  BY <1>3, <1>4, Zenon DEF a

\* file_len is a number after every segment.
LEMMA EndsAreNumbers ==
  ASSUME NEW segments \in Seq(BuiltSegment), NEW i \in 0 .. Len(segments)
  PROVE  FileEnd(segments)[i] \in Nat
<1> DEFINE n == Len(segments)
           S == {k \in Nat : k <= n /\ FileEnd(segments)[k] \notin Nat}
<1>1. n \in Nat /\ DOMAIN segments = 1 .. n
  BY BuiltFields, Zenon
<1>2. ASSUME S # {} PROVE FALSE
  <2> DEFINE k == Min(S)
  <2>1. S \in SUBSET Nat
    BY Zenon
  <2>2. k \in S /\ \A y \in S : k <= y
    BY <1>2, <2>1, Least, Zenon
  <2>3. k \in Nat /\ k <= n /\ FileEnd(segments)[k] \notin Nat /\ \A y \in S : k <= y
    BY <2>2, Zenon
  <2> HIDE DEF k
  <2>4. k # 0
    BY <2>3, FirstEnd, Zenon
  <2> HIDE DEF n
  <2>5. k - 1 \in Nat /\ k - 1 <= n /\ ~(k <= k - 1) /\ k \in 1 .. n
    BY <1>1, <2>3, <2>4
  <2>6. k - 1 \notin S
    BY <2>3, <2>5, Zenon
  <2>7. FileEnd(segments)[k - 1] \in Nat
    BY <2>5, <2>6, Zenon
  <2> QED  BY <1>1, <2>3, <2>5, <2>7, OneEnd, Zenon
<1>3. i \in Nat /\ i <= n
  BY <1>1
<1> QED  BY <1>2, <1>3, Zenon

\* file_len only grows.
LEMMA EndsInOrder ==
  ASSUME NEW segments \in Seq(BuiltSegment),
         NEW i \in 0 .. Len(segments), NEW j \in 0 .. Len(segments), i <= j
  PROVE  FileEnd(segments)[i] <= FileEnd(segments)[j]
<1> DEFINE n == Len(segments)
           e == FileEnd(segments)
           S == {k \in Nat : i <= k /\ k <= n /\ ~(e[i] <= e[k])}
<1>1. n \in Nat /\ DOMAIN segments = 1 .. n
  BY BuiltFields, Zenon
<1>2. \A k \in 0 .. n : e[k] \in Nat
  BY EndsAreNumbers, Zenon
<1> HIDE DEF e, n
<1>3. i \in Nat /\ i \in 0 .. n /\ j \in Nat /\ j <= n
  BY <1>1 DEF n
<1>4. ASSUME S # {} PROVE FALSE
  <2> DEFINE k == Min(S)
  <2>1. S \in SUBSET Nat
    BY Zenon
  <2>2. k \in S /\ \A y \in S : k <= y
    BY <1>4, <2>1, Least, Zenon
  <2>3. k \in Nat /\ i <= k /\ k <= n /\ ~(e[i] <= e[k]) /\ \A y \in S : k <= y
    BY <2>2, Zenon
  <2> HIDE DEF k
  <2>4. e[i] <= e[i]
    BY <1>2, <1>3
  <2>5. k # i
    BY <2>3, <2>4, Zenon
  <2>6. /\ k - 1 \in Nat /\ k - 1 <= n /\ ~(k <= k - 1) /\ k \in 1 .. n /\ i <= k - 1
        /\ k \in 0 .. n /\ k - 1 \in 0 .. n
    BY <1>1, <1>3, <2>3, <2>5
  <2>7. k - 1 \notin S
    BY <2>3, <2>6, Zenon
  <2>8. e[i] <= e[k - 1]
    BY <2>6, <2>7, Zenon
  <2>9. e[k - 1] \in Nat /\ e[k] \in Nat /\ e[i] \in Nat
    BY <1>2, <1>3, <2>6, Zenon
  <2>10. e[k - 1] <= e[k]
    BY <1>1, <2>6, <2>9, OneEnd, Zenon DEF e
  <2> QED  BY <2>3, <2>8, <2>9, <2>10
<1> QED  BY <1>3, <1>4, Zenon DEF e
\* Where elf() puts the data of a segment.
LEMMA OffsetIs ==
  ASSUME NEW segments \in Seq(BuiltSegment), NEW i \in DOMAIN segments
  PROVE  LET o == Offset(segments, i)
             d == segments[i].data
             e == FileEnd(segments)
         IN  /\ o \in Nat /\ o % PageSize = 0
             /\ o + Len(d) <= e[Len(segments)]
             /\ d # <<>> => e[i - 1] <= o /\ o + Len(d) = e[i]
<1> DEFINE o == Offset(segments, i)
           d == segments[i].data
           e == FileEnd(segments)
           n == Len(segments)
           before == e[i - 1]
<1>1. /\ n \in Nat /\ DOMAIN segments = 1 .. n
      /\ Len(d) \in Nat /\ (d = <<>> <=> Len(d) = 0)
  BY BuiltFields, Zenon
<1>2. /\ i \in 0 .. n /\ i - 1 \in 0 .. n /\ n \in 0 .. n /\ i <= n
  BY <1>1
<1>3. e[i] \in Nat /\ e[i - 1] \in Nat /\ e[n] \in Nat
  BY <1>2, EndsAreNumbers, Zenon
<1>4. e[i] <= e[n]
  BY <1>2, EndsInOrder, Zenon
<1>5. o = IF d = <<>> THEN 0 ELSE e[i] - Len(d)
  BY Zenon DEF Offset
<1>6. d # <<>> => e[i] = RoundUp(before) + Len(d)
  BY <1>3, OneEnd, Zenon
<1>7. RoundUp(before) \in Nat /\ before <= RoundUp(before) /\ RoundUp(before) % PageSize = 0
  BY <1>3, RoundUpIs, Zenon
<1>8. 0 % PageSize = 0
  BY Constants
<1> HIDE DEF o, d, e, n, before
<1>9. CASE d = <<>>
  <2>1. o = 0 /\ Len(d) = 0
    BY <1>1, <1>5, <1>9, Zenon
  <2>2. o \in Nat /\ o + Len(d) <= e[n]
    BY <1>3, <2>1
  <2> QED  BY <1>8, <1>9, <2>1, <2>2, Zenon DEF o, d, e, n
<1>10. CASE d # <<>>
  <2>1. o = RoundUp(before) /\ o + Len(d) = e[i]
    BY <1>1, <1>3, <1>5, <1>6, <1>7, <1>10
  <2>2. o \in Nat /\ o % PageSize = 0 /\ before <= o /\ o + Len(d) <= e[n]
    BY <1>4, <1>7, <2>1, Zenon
  <2> QED  BY <2>1, <2>2, Zenon DEF o, d, e, n, before
<1> QED  BY <1>9, <1>10, Zenon

\* The data of two segments lie apart in the file.
At(segments, i) == Offset(segments, i) .. Offset(segments, i) + Len(segments[i].data) - 1

LEMMA DataInOrder ==
  ASSUME NEW segments \in Seq(BuiltSegment), NEW i \in DOMAIN segments,
         NEW j \in DOMAIN segments, i < j, NEW b \in At(segments, i)
  PROVE  b \notin At(segments, j)
<1> DEFINE e == FileEnd(segments)
           n == Len(segments)
           oi == Offset(segments, i)
           oj == Offset(segments, j)
           li == Len(segments[i].data)
           lj == Len(segments[j].data)
           before == e[j - 1]
<1>1. /\ n \in Nat /\ DOMAIN segments = 1 .. n /\ li \in Nat /\ lj \in Nat
      /\ (segments[i].data = <<>> <=> li = 0) /\ (segments[j].data = <<>> <=> lj = 0)
  BY BuiltFields, Zenon
<1>2. i \in 0 .. n /\ j - 1 \in 0 .. n /\ i <= j - 1
  BY <1>1
<1>3. e[i] \in Nat /\ before \in Nat /\ e[i] <= before
  BY <1>2, EndsAreNumbers, EndsInOrder, Zenon
<1>4. /\ oi \in Nat /\ oj \in Nat
      /\ segments[i].data # <<>> => oi + li = e[i]
      /\ segments[j].data # <<>> => before <= oj
  BY OffsetIs, Zenon
<1>5. At(segments, i) = oi .. oi + li - 1 /\ At(segments, j) = oj .. oj + lj - 1
  BY Zenon DEF At
<1>6. b \in oi .. oi + li - 1
  BY <1>5, Zenon
<1> HIDE DEF e, n, oi, oj, li, lj, before
<1>7. /\ li # 0 => oi + li = e[i]
      /\ lj # 0 => before <= oj
  BY <1>1, <1>4, Zenon
<1>8. b \notin oj .. oj + lj - 1
  BY <1>1, <1>3, <1>4, <1>6, <1>7
<1> QED  BY <1>5, <1>8, Zenon

\* The fields of a file that elf() makes.
Describes(h, s, offset) ==
  /\ h.load /\ h.flags = s.flags /\ h.offset = offset /\ h.vaddr = s.vaddr
  /\ h.filesz = Len(s.data) /\ h.memsz = s.memsz /\ h.align = PageSize

Owners(segments, o) == {i \in DOMAIN segments : o \in At(segments, i)}

Holds(f, segments, o) ==
  LET i == Min(Owners(segments, o)) IN
  Owners(segments, o) # {} => f.bytes[o] = segments[i].data[o - Offset(segments, i) + 1]

IsElf(f, entry, segments) ==
  /\ f.len = FileEnd(segments)[Len(segments)]
  /\ f.magic /\ f.class /\ f.data /\ f.version /\ f.type /\ f.machine
  /\ f.ehsize /\ f.phentsize
  /\ f.entry = entry /\ f.phoff = HeaderSize
  /\ DOMAIN f.ph = DOMAIN segments
  /\ \A i \in DOMAIN segments : Describes(f.ph[i], segments[i], Offset(segments, i))
  /\ \A o \in 0 .. f.len - 1 : Holds(f, segments, o)

LEMMA ElfFields ==
  ASSUME NEW entry, NEW segments, NEW f, f = Elf(entry, segments)
  PROVE  IsElf(f, entry, segments)
<1> DEFINE len == FileEnd(segments)[Len(segments)]
           ph == [i \in DOMAIN segments |->
                    [load |-> TRUE, flags |-> segments[i].flags,
                     offset |-> Offset(segments, i), vaddr |-> segments[i].vaddr,
                     filesz |-> Len(segments[i].data), memsz |-> segments[i].memsz,
                     align |-> PageSize]]
           bytes == [o \in 0 .. len - 1 |->
                       LET owner == Owners(segments, o)
                       IN  IF owner = {} THEN 0
                           ELSE LET i == Min(owner)
                                IN  segments[i].data[o - Offset(segments, i) + 1]]
<1>1. f = [len |-> len, magic |-> TRUE, class |-> TRUE, data |-> TRUE,
           version |-> TRUE, type |-> TRUE, machine |-> TRUE, ehsize |-> TRUE,
           phentsize |-> TRUE, entry |-> entry, phoff |-> HeaderSize,
           ph |-> ph, bytes |-> bytes]
  BY Zenon DEF Elf, At, Owners
<1> HIDE DEF len, ph, bytes
<1>2. /\ f.len = len /\ f.magic /\ f.class /\ f.data /\ f.version /\ f.type /\ f.machine
      /\ f.ehsize /\ f.phentsize /\ f.entry = entry /\ f.phoff = HeaderSize
      /\ f.ph = ph /\ f.bytes = bytes
  BY <1>1
<1>3. DOMAIN ph = DOMAIN segments
  BY Zenon DEF ph
<1>4. \A i \in DOMAIN segments : Describes(ph[i], segments[i], Offset(segments, i))
  BY DEF ph, Describes
<1>5. \A o \in 0 .. len - 1 : Holds(f, segments, o)
  <2> SUFFICES ASSUME NEW o \in 0 .. len - 1, Owners(segments, o) # {}
               PROVE  LET i == Min(Owners(segments, o)) IN
                      f.bytes[o] = segments[i].data[o - Offset(segments, i) + 1]
    BY Zenon DEF Holds
  <2> DEFINE byte(x) == LET owner == Owners(segments, x)
                        IN  IF owner = {} THEN 0
                            ELSE LET i == Min(owner)
                                 IN  segments[i].data[x - Offset(segments, i) + 1]
  <2>1. bytes = [x \in 0 .. len - 1 |-> byte(x)]
    BY Zenon DEF bytes
  <2>2. byte(o) = segments[Min(Owners(segments, o))].data[
                    o - Offset(segments, Min(Owners(segments, o))) + 1]
    BY Zenon
  <2> HIDE DEF byte
  <2>3. f.bytes[o] = byte(o)
    BY <1>2, <2>1, Zenon
  <2> QED  BY <2>2, <2>3, Zenon
<1>6. f.len = FileEnd(segments)[Len(segments)]
  BY <1>2, Zenon DEF len
<1> QED  BY <1>2, <1>3, <1>4, <1>5, <1>6, Zenon DEF IsElf

\* Every byte of the data of a segment is in the file where its header says.
ByteAt(f, segments, i, k) == f.bytes[Offset(segments, i) + k - 1] = segments[i].data[k]

LEMMA BytesOfData ==
  ASSUME NEW entry, NEW segments \in Seq(BuiltSegment), NEW f, f = Elf(entry, segments),
         NEW i \in DOMAIN segments, NEW k \in 1 .. Len(segments[i].data)
  PROVE  ByteAt(f, segments, i, k)
<1> DEFINE o == Offset(segments, i)
           len == Len(segments[i].data)
           b == o + k - 1
           owner == Owners(segments, b)
<1>0. IsElf(f, entry, segments)
  BY ElfFields, Zenon
<1>1. len \in Nat /\ DOMAIN segments = 1 .. Len(segments) /\ Len(segments) \in Nat
  BY BuiltFields, Zenon
<1>2. o \in Nat /\ o + len <= FileEnd(segments)[Len(segments)]
  BY OffsetIs, Zenon
<1>3. f.len = FileEnd(segments)[Len(segments)]
  BY <1>0, Zenon DEF IsElf
<1>4. FileEnd(segments)[Len(segments)] \in Nat
  <2>1. Len(segments) \in 0 .. Len(segments)
    BY <1>1
  <2> QED  BY <2>1, EndsAreNumbers, Zenon
<1>5. At(segments, i) = o .. o + len - 1 /\ k \in 1 .. len
  BY Zenon DEF At
<1> HIDE DEF o, len
<1>6. b \in o .. o + len - 1 /\ b \in 0 .. f.len - 1 /\ b - o + 1 = k
  BY <1>1, <1>2, <1>3, <1>4, <1>5
<1>7. i \in owner
  BY <1>5, <1>6, Zenon DEF Owners
<1>8. \A j \in owner : j = i
  <2>1. ASSUME NEW j \in owner PROVE j = i
    <3>1. j \in DOMAIN segments /\ b \in At(segments, j) /\ b \in At(segments, i)
      BY <1>5, <1>6, <2>1, Zenon DEF Owners
    <3>2. i < j \/ j < i \/ j = i
      BY <1>1, <3>1
    <3> HIDE DEF b, owner
    <3> QED  BY <3>1, <3>2, DataInOrder, Zenon
  <2> QED  BY <2>1, Zenon
<1>9. Min(owner) = i
  <2>1. i <= i
    BY <1>1
  <2>2. owner \in SUBSET Nat /\ owner # {}
    BY <1>1, <1>7 DEF Owners
  <2> HIDE DEF owner
  <2>3. Min(owner) \in owner
    BY <2>2, Least, Zenon
  <2> QED  BY <1>8, <2>3, Zenon
<1>10. f.bytes[b] = segments[Min(owner)].data[b - Offset(segments, Min(owner)) + 1]
  BY <1>0, <1>6, <1>7, Zenon DEF IsElf, Holds
<1>11. f.bytes[b] = segments[i].data[k]
  BY <1>6, <1>9, <1>10, Zenon DEF o
<1> QED  BY <1>11, Zenon DEF o, ByteAt
\* What is assumed of a program of build.rs, segment by segment.
GoodPiece(s) ==
  /\ KnownFlags(s.flags) /\ s.vaddr % PageSize = 0
  /\ 0 < s.memsz /\ Len(s.data) <= s.memsz
  /\ LoadStart <= s.vaddr /\ s.vaddr + s.memsz + PageSize <= LoadEnd

Entered(s, entry) == PF_X(s.flags) /\ s.vaddr <= entry /\ entry < s.vaddr + s.memsz

LEMMA BuiltProgram ==
  ASSUME NEW p \in Programs
  PROVE  /\ p.segments \in Seq(BuiltSegment)
         /\ \A i \in DOMAIN p.segments : GoodPiece(p.segments[i])
         /\ \A i, j \in DOMAIN p.segments : i # j =>
              \/ p.segments[i].vaddr + p.segments[i].memsz <= p.segments[j].vaddr
              \/ p.segments[j].vaddr + p.segments[j].memsz <= p.segments[i].vaddr
         /\ \E i \in DOMAIN p.segments : Entered(p.segments[i], p.entry)
         /\ IsFile(Elf(p.entry, p.segments))
<1>1. p.segments \in Seq(BuiltSegment)
  BY ProgramAssumption, Zenon
<1>2. \A i \in DOMAIN p.segments : GoodPiece(p.segments[i])
  BY ProgramAssumption, Zenon DEF GoodPiece
<1>3. \A i, j \in DOMAIN p.segments : i # j =>
        \/ p.segments[i].vaddr + p.segments[i].memsz <= p.segments[j].vaddr
        \/ p.segments[j].vaddr + p.segments[j].memsz <= p.segments[i].vaddr
  BY ProgramAssumption, Zenon
<1>4. \E i \in DOMAIN p.segments : Entered(p.segments[i], p.entry)
  BY ProgramAssumption, Zenon DEF Entered
<1>5. IsFile(Elf(p.entry, p.segments))
  BY ElfFileAssumption, Zenon
<1> QED  BY <1>1, <1>2, <1>3, <1>4, <1>5, Zenon

\* The program header that elf() writes for a segment is in order.
LEMMA BuiltHeader ==
  ASSUME NEW f, NEW s \in BuiltSegment, GoodPiece(s), NEW o \in Nat, o % PageSize = 0,
         o + Len(s.data) <= f.len, NEW h, Describes(h, s, o)
  PROVE  GoodSegment(f, h) /\ h.vaddr + h.memsz + PageSize <= LoadEnd
<1>1. s.vaddr \in Nat /\ s.memsz \in Nat
  <2>1. s.vaddr \in U64 /\ s.memsz \in U64
    BY Zenon DEF BuiltSegment
  <2> QED  BY <2>1, Words, Zenon
<1>2. s.vaddr + s.memsz + PageSize <= LoadEnd
  BY Zenon DEF GoodPiece
<1>3. s.vaddr + s.memsz <= LoadEnd
  BY <1>1, <1>2, Constants
<1>4. InWindow(h)
  BY <1>3, Zenon DEF InWindow, GoodPiece, Describes
<1> QED  BY <1>2, <1>4, Zenon DEF GoodSegment, GoodPiece, Describes

\* Two aligned segments whose bytes lie apart share no page.
LEMMA BytesApart ==
  ASSUME NEW h \in ProgramHeader, h.vaddr % PageSize = 0, 0 < h.memsz, InWindow(h),
         NEW k \in ProgramHeader, k.vaddr % PageSize = 0, 0 < k.memsz, InWindow(k),
         h.vaddr + h.memsz <= k.vaddr
  PROVE  Touched(h) \cap Touched(k) = {} /\ Touched(k) \cap Touched(h) = {}
<1> DEFINE p == Past(h)
           q == First(k)
           r == Past(k)
<1>1. /\ p \in Nat /\ \A x \in Nat : h.vaddr + h.memsz <= x * PageSize <=> p <= x
  BY SegmentPlace, Zenon
<1>2. q \in Nat /\ k.vaddr = q * PageSize
  BY SegmentPlace, Zenon
<1>3. p <= q
  BY <1>1, <1>2, Zenon
<1>4. Touched(h) = First(h) .. p - 1 /\ Touched(k) = q .. r - 1
  BY TouchedPages, Zenon
<1>5. First(h) \in Nat /\ r \in Nat
  BY SegmentPlace, Zenon
<1> HIDE DEF p, q, r
<1>6. \A x : ~(x \in First(h) .. p - 1 /\ x \in q .. r - 1)
  <2> DEFINE a == First(h)
  <2>1. a \in Nat
    BY <1>5, Zenon
  <2> HIDE DEF a
  <2>2. \A x : ~(x \in a .. p - 1 /\ x \in q .. r - 1)
    BY <1>1, <1>2, <1>3, <1>5, <2>1
  <2> QED  BY <2>2, Zenon DEF a
<1> QED  BY <1>4, <1>6, Zenon

\* parse_elf accepts the files of build.rs, and heap_for_loaded_image too.
LEMMA BuiltIsWellFormed ==
  ASSUME NEW p \in Programs, NEW f, f = Elf(p.entry, p.segments)
  PROVE  IsFile(f) /\ WellFormed(f)
         /\ \A i \in DOMAIN f.ph : f.ph[i].vaddr + f.ph[i].memsz + PageSize <= LoadEnd
<1> DEFINE segs == p.segments
<1>1. /\ segs \in Seq(BuiltSegment) /\ IsFile(f)
      /\ \A i \in DOMAIN segs : GoodPiece(segs[i])
      /\ \E i \in DOMAIN segs : Entered(segs[i], p.entry)
  BY BuiltProgram, Zenon
<1>2. IsElf(f, p.entry, segs)
  BY ElfFields, Zenon
<1>3. \A i, j \in DOMAIN segs : i # j =>
        \/ segs[i].vaddr + segs[i].memsz <= segs[j].vaddr
        \/ segs[j].vaddr + segs[j].memsz <= segs[i].vaddr
  BY BuiltProgram, Zenon
<1> HIDE DEF segs
<1>4. /\ DOMAIN f.ph = DOMAIN segs /\ f.len = FileEnd(segs)[Len(segs)]
      /\ \A i \in DOMAIN segs : Describes(f.ph[i], segs[i], Offset(segs, i))
      /\ f.entry = p.entry /\ f.phoff = HeaderSize
  BY <1>2, Zenon DEF IsElf
<1>5. /\ \A i \in DOMAIN f.ph : f.ph[i] \in ProgramHeader
      /\ DOMAIN f.ph = 1 .. Len(f.ph) /\ Len(f.ph) \in Nat
  BY <1>1, WellFormedParts, Zenon
<1>6. Len(segs) \in Nat /\ DOMAIN segs = 1 .. Len(segs)
  BY <1>1, BuiltFields, Zenon
<1>7. Len(f.ph) = Len(segs)
  <2> DEFINE a == Len(f.ph)
             b == Len(segs)
  <2>1. a \in Nat /\ b \in Nat /\ 1 .. a = 1 .. b
    BY <1>4, <1>5, <1>6, Zenon
  <2> HIDE DEF a, b
  <2>2. /\ a < b => b \in 1 .. b /\ b \notin 1 .. a
        /\ b < a => a \in 1 .. a /\ a \notin 1 .. b
        /\ a < b \/ b < a \/ a = b
    BY <2>1
  <2> QED  BY <2>1, <2>2, Zenon DEF a, b
<1>8. ASSUME NEW i \in DOMAIN f.ph
      PROVE  /\ GoodSegment(f, f.ph[i])
             /\ f.ph[i].vaddr + f.ph[i].memsz + PageSize <= LoadEnd
  <2>1. segs[i] \in BuiltSegment /\ GoodPiece(segs[i]) /\ i \in DOMAIN segs
    BY <1>1, <1>4, BuiltFields, Zenon
  <2>2. /\ Offset(segs, i) \in Nat /\ Offset(segs, i) % PageSize = 0
        /\ Offset(segs, i) + Len(segs[i].data) <= f.len
    BY <1>1, <1>4, <2>1, OffsetIs, Zenon
  <2> QED  BY <1>4, <2>1, <2>2, BuiltHeader, Zenon
<1>9. GoodHeader(f)
  <2>1. Len(f.ph) > 0
    <3>1. DOMAIN segs # {}
      BY <1>1, Zenon
    <3> QED  BY <1>6, <1>7, <3>1
  <2>2. /\ FileEnd(segs)[0] \in Nat /\ HeaderSize + PhSize * Len(segs) <= FileEnd(segs)[0]
    BY <1>1, FirstEnd, Zenon
  <2>3. 0 \in 0 .. Len(segs) /\ Len(segs) \in 0 .. Len(segs) /\ 0 <= Len(segs)
    BY <1>6
  <2>4. FileEnd(segs)[0] <= f.len /\ f.len \in Nat
    BY <1>1, <1>4, <2>3, EndsInOrder, EndsAreNumbers, Zenon
  <2> DEFINE e == FileEnd(segs)[0]
             size == PhSize * Len(segs)
  <2>5. size \in Nat
    BY <1>6, Constants
  <2>6. HeaderSize + size <= e /\ e <= f.len /\ e \in Nat
    BY <2>2, <2>4, Zenon
  <2> HIDE DEF e, size
  <2>7. HeaderSize <= f.len /\ HeaderSize + size <= f.len
    BY <2>4, <2>5, <2>6, Constants
  <2>8. f.len >= HeaderSize /\ f.phoff + PhSize * Len(f.ph) <= f.len
    BY <1>4, <1>7, <2>7, Zenon DEF size
  <2> QED  BY <1>2, <2>1, <2>8, Zenon DEF GoodHeader, IsElf
<1>10. ASSUME NEW i \in DOMAIN f.ph, NEW j \in DOMAIN f.ph, i # j
       PROVE  Touched(f.ph[i]) \cap Touched(f.ph[j]) = {}
  <2> DEFINE h == f.ph[i]
             k == f.ph[j]
  <2>1. /\ h \in ProgramHeader /\ h.vaddr % PageSize = 0 /\ 0 < h.memsz /\ InWindow(h)
        /\ k \in ProgramHeader /\ k.vaddr % PageSize = 0 /\ 0 < k.memsz /\ InWindow(k)
    BY <1>5, <1>8, Zenon DEF GoodSegment
  <2>2. h.vaddr + h.memsz <= k.vaddr \/ k.vaddr + k.memsz <= h.vaddr
    <3>1. /\ h.vaddr = segs[i].vaddr /\ h.memsz = segs[i].memsz
          /\ k.vaddr = segs[j].vaddr /\ k.memsz = segs[j].memsz
      BY <1>4, Zenon DEF Describes
    <3> HIDE DEF h, k
    <3> QED  BY <1>3, <1>4, <1>10, <3>1, Zenon
  <2> HIDE DEF h, k
  <2>3. Touched(h) \cap Touched(k) = {}
    BY <2>1, <2>2, BytesApart, Zenon
  <2> QED  BY <2>3, Zenon DEF h, k
<1>11. \E i \in DOMAIN f.ph : ContainsEntry(f.ph[i], f.entry)
  <2>1. PICK i \in DOMAIN segs : Entered(segs[i], p.entry)
    BY <1>1, Zenon
  <2>2. ContainsEntry(f.ph[i], f.entry)
    <3>1. /\ PF_X(f.ph[i].flags) /\ f.ph[i].vaddr <= f.entry
          /\ f.entry < f.ph[i].vaddr + f.ph[i].memsz
      BY <1>4, <2>1, Zenon DEF Describes, Entered
    <3> QED  BY <3>1, Zenon DEF ContainsEntry
  <2> QED  BY <1>4, <2>1, <2>2, Zenon
<1>12. WellFormed(f)
  BY <1>1, <1>8, <1>9, <1>10, <1>11, WellFormedParts, Zenon
<1> QED  BY <1>1, <1>8, <1>12, Zenon
\* Segments that end a page below the end of the window leave room for a heap.
LEMMA RoomForHeap ==
  ASSUME NEW f, IsFile(f), WellFormed(f),
         \A i \in DOMAIN f.ph : f.ph[i].vaddr + f.ph[i].memsz + PageSize <= LoadEnd
  PROVE  HasHeapRange(f)
<1> DEFINE end(i) == f.ph[i].vaddr + f.ph[i].memsz
           S == {end(i) : i \in DOMAIN f.ph}
           M == Max(S)
           p == PageOf(M + PageSize - 1)
           k == PageOf(LoadEnd)
<1>1. ASSUME NEW i \in DOMAIN f.ph
      PROVE  end(i) \in Nat /\ LoadStart <= end(i) /\ end(i) + PageSize <= LoadEnd
             /\ end(i) <= LoadEnd
  <2> DEFINE h == f.ph[i]
  <2>1. h \in ProgramHeader /\ GoodSegment(f, h)
    BY WellFormedParts, Zenon
  <2>2. h.vaddr + h.memsz + PageSize <= LoadEnd
    BY Zenon
  <2> HIDE DEF h
  <2>3. h.vaddr \in Nat /\ h.memsz \in Nat /\ LoadStart <= h.vaddr
    BY <2>1, HeaderFields, Zenon DEF GoodSegment, InWindow
  <2>4. /\ h.vaddr + h.memsz \in Nat /\ LoadStart <= h.vaddr + h.memsz
        /\ h.vaddr + h.memsz <= LoadEnd
    BY <2>2, <2>3, Constants
  <2> QED  BY <2>2, <2>4, Zenon DEF h
<1>2. DOMAIN f.ph # {}
  BY WellFormedParts, Zenon
<1>3. LoadEnd \in Nat /\ LoadStart \in Nat /\ PageSize \in Nat \ {0} /\ Word \in Nat /\ LoadEnd < Word
  BY Constants
<1>4. S \in SUBSET Nat /\ S # {} /\ \A x \in S : x <= LoadEnd
  BY <1>1, <1>2, Zenon
<1>5. M \in S
  BY <1>3, <1>4, Greatest, Zenon
<1>6. M \in Nat /\ LoadStart <= M /\ M + PageSize <= LoadEnd
  BY <1>1, <1>5, Zenon
<1>7. HeapStart(f) = AlignUp(M)
  BY Zenon DEF HeapStart, MaxSegmentEnd
<1> HIDE DEF M, S
<1>8. AlignUp(M) = IF M + PageSize - 1 < Word THEN p * PageSize ELSE Word
  BY <1>6, AlignedUp, Zenon
<1>9. /\ p \in Nat /\ M <= p * PageSize /\ p * PageSize < M + PageSize
  BY <1>6, RoundedUp, Zenon
<1> HIDE DEF p
<1>10. p * PageSize \in Nat
  BY <1>9, PageMultiples, Zenon
<1>11. HeapStart(f) = p * PageSize
  BY <1>3, <1>6, <1>7, <1>8
<1>12. LoadStart <= p * PageSize /\ p * PageSize < LoadEnd
  BY <1>3, <1>6, <1>9, <1>10
<1>13. p * PageSize >= LoadStart
  BY <1>3, <1>10, <1>12
<1> QED  BY <1>11, <1>12, <1>13, Zenon DEF HasHeapRange

\* What is known of a file that build.rs made while it is loaded.
BuiltInv ==
  \/ program = NoProgram
  \/ /\ program \in Programs /\ file = Elf(program.entry, program.segments)
     /\ error \in {"Ok", "OutOfFrames"}

\* No step but parse_elf refuses such a file, and parse_elf does not.
LEMMA BuiltStep ==
  ASSUME LoadInv, LoadInv', BuiltInv, [Next]_vars
  PROVE  BuiltInv'
<1>1. program' = program /\ file' = file
  BY Zenon DEF Next, Parse, MapUserRegion, MapPages, CopyToUser, ZeroUserRange,
               MapUserStack, Fail, vars
<1>2. CASE program = NoProgram
  BY <1>1, <1>2, Zenon DEF BuiltInv
<1>3. CASE /\ program \in Programs /\ file = Elf(program.entry, program.segments)
           /\ error \in {"Ok", "OutOfFrames"}
  <2>1. IsFile(file) /\ WellFormed(file) /\ HasHeapRange(file)
    BY <1>3, BuiltIsWellFormed, RoomForHeap, Zenon
  <2>2. ParseElf(file) = "Ok"
    BY <2>1, ParseAccepts, Zenon
  <2>3. error' \in {error, "OutOfFrames", "MapFailed", "UserCopyFailed"}
    <3>1. CASE Parse
      BY <2>1, <2>2, <3>1, Zenon DEF Parse, Fail
    <3>2. CASE MapUserRegion \/ MapUserStack
      BY <3>2, Zenon DEF MapUserRegion, MapUserStack, MapPages, Fail
    <3>3. CASE CopyToUser
      BY <3>3, Zenon DEF CopyToUser, Fail
    <3>4. CASE ZeroUserRange
      BY <3>4, Zenon DEF ZeroUserRange, Fail
    <3>5. CASE UNCHANGED vars
      BY <3>5, Zenon DEF vars
    <3> QED  BY <3>1, <3>2, <3>3, <3>4, <3>5, Zenon DEF Next
  <2>4. error' \notin {"MapFailed", "UserCopyFailed"}
    BY Zenon DEF LoadInv
  <2>5. error' \in {"Ok", "OutOfFrames"}
    BY <1>3, <2>3, <2>4, Zenon
  <2> QED  BY <1>1, <1>3, <2>5, Zenon DEF BuiltInv
<1> QED  BY <1>2, <1>3, Zenon DEF BuiltInv

\* The bytes of a loaded program are those of its segments.
LEMMA BuiltBytes ==
  ASSUME LoadInv, ImageIsExact, phase = "loaded", program \in Programs,
         file = Elf(program.entry, program.segments),
         NEW i \in DOMAIN program.segments, NEW k \in 1 .. program.segments[i].memsz
  PROVE  LET s == program.segments[i] IN
         mem[s.vaddr + k - 1] = IF k <= Len(s.data) THEN s.data[k] ELSE 0
<1> DEFINE segs == program.segments
           s == segs[i]
           h == file.ph[i]
           a == s.vaddr + k - 1
           from == {j \in DOMAIN file.ph : InFile(file.ph[j], a)}
           len == Len(s.data)
           o == Offset(segs, i)
<1>1. segs \in Seq(BuiltSegment)
  BY BuiltProgram, Zenon
<1>2. IsFile(file) /\ WellFormed(file)
  BY BuiltIsWellFormed, Zenon
<1>3. IsElf(file, program.entry, segs)
  BY ElfFields, Zenon
<1>4. /\ i \in DOMAIN file.ph /\ h.vaddr = s.vaddr /\ h.memsz = s.memsz
      /\ h.filesz = len /\ h.offset = o /\ DOMAIN file.ph = DOMAIN segs
  BY <1>3, Zenon DEF IsElf, Describes
<1>5. s.vaddr \in Nat /\ s.memsz \in Nat /\ len \in Nat /\ k \in 1 .. s.memsz
  BY <1>1, BuiltFields, Zenon
<1>6. o \in Nat
  BY <1>1, OffsetIs, Zenon
<1>7. a \in Bytes(h)
  <2>1. a \in s.vaddr .. s.vaddr + s.memsz - 1
    <3> HIDE DEF s
    <3> QED  BY <1>5
  <2> QED  BY <1>4, <2>1, Zenon DEF Bytes
<1>8. a \in Addresses
  BY <1>2, <1>4, <1>7, SegmentFacts, Zenon
<1>9. IF from = {} THEN mem[a] = 0
      ELSE \A j \in from : mem[a] = file.bytes[file.ph[j].offset + a - file.ph[j].vaddr]
  BY <1>8, Zenon DEF ImageIsExact
<1>10. ASSUME NEW j \in DOMAIN file.ph, InFile(file.ph[j], a) PROVE j = i
  <2>1. a \in Bytes(file.ph[j])
    <3> DEFINE g == file.ph[j]
    <3>1. g.vaddr \in Nat /\ g.memsz \in Nat /\ g.filesz \in Nat /\ g.filesz <= g.memsz
      BY <1>2, SegmentFacts, Zenon
    <3>2. a \in g.vaddr .. g.vaddr + g.filesz - 1
      BY <1>10, Zenon DEF InFile
    <3> HIDE DEF g, a
    <3>3. a \in g.vaddr .. g.vaddr + g.memsz - 1
      BY <3>1, <3>2
    <3> QED  BY <3>3, Zenon DEF Bytes, g
  <2> HIDE DEF a
  <2> QED  BY <1>2, <1>4, <1>7, <1>10, <2>1, SegmentsApart, Zenon
<1>11. CASE k <= len
  <2>1. k \in 1 .. len /\ a \in s.vaddr .. s.vaddr + len - 1 /\ o + a - s.vaddr = o + k - 1
    <3> HIDE DEF s, len, o
    <3> QED  BY <1>5, <1>6, <1>11
  <2>2. i \in from
    BY <1>4, <2>1, Zenon DEF InFile
  <2>3. mem[a] = file.bytes[h.offset + a - h.vaddr]
    BY <1>9, <2>2, Zenon
  <2>4. h.offset + a - h.vaddr = o + k - 1
    BY <1>4, <2>1, Zenon
  <2>5. file.bytes[o + k - 1] = s.data[k]
    <3>1. k \in 1 .. Len(segs[i].data) /\ i \in DOMAIN segs
      BY <2>1, Zenon
    <3> HIDE DEF segs
    <3>2. file = Elf(program.entry, segs)
      BY Zenon DEF segs
    <3>3. ByteAt(file, segs, i, k)
      BY <1>1, <3>1, <3>2, BytesOfData, Zenon
    <3> QED  BY <3>3, Zenon DEF ByteAt
  <2> QED  BY <1>11, <2>3, <2>4, <2>5, Zenon
<1>12. CASE ~(k <= len)
  <2>1. ~InFile(h, a)
    <3>1. a \notin s.vaddr .. s.vaddr + len - 1
      <4> HIDE DEF s, len
      <4> QED  BY <1>5, <1>12
    <3> QED  BY <1>4, <3>1, Zenon DEF InFile
  <2>2. from = {}
    BY <1>10, <2>1, Zenon
  <2> QED  BY <1>9, <1>12, <2>2, Zenon
<1> QED  BY <1>11, <1>12, Zenon
\* elf() of build.rs and the loader agree: whatever segments a program has, its
\* file is accepted, only a lack of frames can keep it from being loaded, and
\* then every byte of every segment is at its address.
THEOREM BuiltProgramsAlwaysLoad == Spec => []BuiltProgramsLoad
<1>1. Init => LoadInv
  BY InitLoadInv, Zenon
<1>2. LoadInv /\ [Next]_vars => LoadInv'
  BY NextLoadInv, Zenon
<1>3. Init => BuiltInv
  BY Zenon DEF Init, BuiltInv
<1>4. LoadInv /\ LoadInv' /\ BuiltInv /\ [Next]_vars => BuiltInv'
  BY BuiltStep, Zenon
<1>5. ASSUME LoadInv, ImageIsExact, BuiltInv PROVE BuiltProgramsLoad
  <2> SUFFICES ASSUME program # NoProgram PROVE
        /\ error \in {"Ok", "OutOfFrames"}
        /\ phase = "loaded" =>
             \A i \in DOMAIN program.segments :
               LET s == program.segments[i] IN
               \A k \in 1 .. s.memsz :
                 mem[s.vaddr + k - 1] = IF k <= Len(s.data) THEN s.data[k] ELSE 0
    BY Zenon DEF BuiltProgramsLoad
  <2>1. /\ program \in Programs /\ file = Elf(program.entry, program.segments)
        /\ error \in {"Ok", "OutOfFrames"}
    BY <1>5, Zenon DEF BuiltInv
  <2> QED  BY <1>5, <2>1, BuiltBytes, Zenon
<1> QED
  BY <1>1, <1>2, <1>3, <1>4, <1>5, LoadedImageIsExact, PTL DEF Spec
============================================================================
