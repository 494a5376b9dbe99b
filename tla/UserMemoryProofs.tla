-------------------------- MODULE UserMemoryProofs --------------------------
(***************************************************************************)
(* What system calls do to user memory, for every layout, page size, frame *)
(* of a page, permission of a page, pointer and length: validation is      *)
(* exact, what was validated is copied to the end, and a copy moves the    *)
(* bytes of its range and touches no other byte.                           *)
(***************************************************************************)
EXTENDS UserMemory, WellFoundedInduction, TLAPS

-----------------------------------------------------------------------------
(* Arithmetic *)

\* What the layout says of the constants.
LEMMA Constants ==
  /\ PageSize \in Nat \ {0} /\ ChunkSize \in Nat \ {0}
  /\ Word \in Nat /\ UserBase \in Nat /\ StackTop \in Nat /\ StatusSize \in Nat
  /\ MaxPathLen \in Nat /\ FileLen \in Nat
  /\ UserBase < StackTop /\ StatusSize < Word
  /\ UserBase % PageSize = 0 /\ StackTop % PageSize = 0
  /\ Frame \in [UserPages -> Nat]
  /\ \A q, r \in UserPages : Frame[q] = Frame[r] => q = r
  /\ Pointers \subseteq 0 .. Word - 1 /\ Lengths \subseteq 0 .. Word - 1
BY UserMemoryAssumption, Zenon

\* The quarters of the range of a register, and user memory in the first.
LEMMA Quarters == Quarter \in Nat /\ 4 * Quarter = Word /\ StackTop <= Quarter
<1>1. Word \in Nat /\ Word % 4 = 0 /\ StackTop <= Word \div 4
  BY UserMemoryAssumption, Zenon
<1>2. Word \div 4 \in Nat /\ 4 * (Word \div 4) = Word
  BY <1>1
<1> QED
  BY <1>1, <1>2, Zenon DEF Quarter

\* A number is its quotient times d and its remainder.
LEMMA Quotient ==
  ASSUME NEW n \in Nat, NEW d \in Nat \ {0}
  PROVE  /\ n \div d \in Nat /\ n % d \in Nat /\ n % d < d
         /\ n = (n \div d) * d + (n % d)
OBVIOUS

\* Multiples of d are at least d apart.
LEMMA NextMultiple ==
  ASSUME NEW a \in Nat, NEW b \in Nat, NEW d \in Nat \ {0}
  PROVE  /\ a * d \in Nat /\ b * d \in Nat
         /\ a < b => a * d + d <= b * d
         /\ a <= b => a * d <= b * d
OBVIOUS

\* A multiple of d is its quotient times d.
LEMMA Multiple ==
  ASSUME NEW n \in Nat, NEW d \in Nat \ {0}, n % d = 0
  PROVE  n \div d \in Nat /\ (n \div d) * d = n
OBVIOUS

\* There is one way to write a number as a multiple of d and a remainder.
LEMMA OneQuotient ==
  ASSUME NEW q \in Nat, NEW r \in Nat, NEW d \in Nat \ {0}, r < d, NEW n, n = q * d + r
  PROVE  n \in Nat /\ n \div d = q /\ n % d = r
<1>1. n \in Nat
  BY NextMultiple
<1>2. /\ n \div d \in Nat /\ n % d \in Nat /\ n % d < d
      /\ n = (n \div d) * d + (n % d)
  BY <1>1, Quotient, Zenon
<1>3. n \div d = q
  <2> DEFINE p == n \div d
  <2>1. /\ p * d \in Nat /\ q * d \in Nat
        /\ p < q => p * d + d <= q * d
        /\ q < p => q * d + d <= p * d
    BY <1>2, NextMultiple, Zenon
  <2>2. n = p * d + (n % d) /\ n = q * d + r /\ n % d \in Nat /\ n % d < d /\ p \in Nat
    BY <1>2, Zenon
  <2> HIDE DEF p
  <2>3. p = q
    BY <2>1, <2>2
  <2> QED
    BY <2>3, Zenon DEF p
<1> QED
  BY <1>1, <1>2, <1>3, NextMultiple

\* The page and the place in it that an address has.
LEMMA PageAndPlace ==
  ASSUME NEW q \in Nat, NEW r \in Nat, r < PageSize, NEW n, n = q * PageSize + r
  PROVE  n \in Nat /\ n \div PageSize = q /\ n % PageSize = r
<1>1. PageSize \in Nat \ {0}
  BY Constants, Zenon
<1> QED
  BY <1>1, OneQuotient

\* The smaller of two numbers.
LEMMA MinOfTwo ==
  ASSUME NEW a \in Int, NEW b \in Int
  PROVE  Min({a, b}) = IF a <= b THEN a ELSE b
<1> DEFINE S == {a, b}
<1>1. CASE a <= b
  <2>1. \A x \in S : (\A y \in S : x =< y) <=> x = a
    BY <1>1
  <2> QED
    BY <1>1, <2>1 DEF Min
<1>2. CASE ~(a <= b)
  <2>1. \A x \in S : (\A y \in S : x =< y) <=> x = b
    BY <1>2
  <2> QED
    BY <1>2, <2>1, Zenon DEF Min
<1> QED
  BY <1>1, <1>2, Zenon

-----------------------------------------------------------------------------
(* Frames and physical memory *)

\* A set of naturals has a least element.
LEMMA Least ==
  ASSUME NEW S \in SUBSET Nat, S # {}
  PROVE  \E x \in S : \A y \in S : x <= y
<1>1. PICK x \in S : \A y \in S : ~(<<y, x>> \in OpToRel(<, Nat))
  BY WFMin, NatLessThanWellFounded, Zenon
<1>2. \A y \in S : ~(y < x)
  BY <1>1, Zenon DEF OpToRel
<1> QED
  BY <1>2

\* The frames of the first n pages from page b on have a bound.
LEMMA FramesBelow ==
  ASSUME NEW b \in Nat, NEW n \in Nat, b .. b + n - 1 \subseteq UserPages
  PROVE  \E m \in Nat : \A q \in b .. b + n - 1 : Frame[q] <= m
<1> DEFINE Bounded(k) == \E m \in Nat : \A q \in b .. b + k - 1 : Frame[q] <= m
           S == {k \in 0 .. n : ~Bounded(k)}
<1>1. SUFFICES ASSUME S # {} PROVE FALSE
  <2>1. n \in 0 .. n
    OBVIOUS
  <2> QED
    BY <2>1, Zenon
<1>2. PICK k \in S : \A j \in S : k <= j
  <2>1. S \in SUBSET Nat
    OBVIOUS
  <2> QED
    BY <1>1, <2>1, Least, Zenon
<1>3. k \in 0 .. n /\ ~Bounded(k)
  BY <1>2, Zenon
<1>4. k # 0
  <2>1. b .. b + 0 - 1 = {}
    OBVIOUS
  <2>2. Bounded(0)
    BY <2>1, Zenon
  <2> QED
    BY <1>3, <2>2, Zenon
<1>5. k - 1 \in 0 .. n /\ Bounded(k - 1)
  <2>1. k - 1 \in 0 .. n /\ ~(k <= k - 1)
    BY <1>3, <1>4
  <2> QED
    BY <1>2, <2>1, Zenon
<1>6. PICK m \in Nat : \A q \in b .. b + (k - 1) - 1 : Frame[q] <= m
  BY <1>5, Zenon
<1> DEFINE last == b + k - 1
<1>7. last \in UserPages /\ Frame[last] \in Nat
  BY <1>3, <1>4, Constants
<1>8. \A q \in b .. b + k - 1 : q = last \/ q \in b .. b + (k - 1) - 1
  BY <1>3, <1>4
<1>9. \A q \in b .. b + k - 1 : Frame[q] \in Nat
  BY <1>3, Constants
<1> HIDE DEF last
<1>10. m + Frame[last] \in Nat /\ \A q \in b .. b + k - 1 : Frame[q] <= m + Frame[last]
  BY <1>6, <1>7, <1>8, <1>9
<1>11. Bounded(k)
  BY <1>10, Zenon
<1> QED
  BY <1>3, <1>11, Zenon

\* The frames have a largest one.
LEMMA LargestFrame ==
  LET S == {Frame[q] : q \in UserPages}
  IN  Max(S) \in Nat /\ \A q \in UserPages : Frame[q] <= Max(S)
<1> DEFINE S == {Frame[q] : q \in UserPages}
           b == UserBase \div PageSize
           n == (StackTop \div PageSize) - (UserBase \div PageSize)
           B == {m \in Nat : \A x \in S : x <= m}
<1>1. b \in Nat /\ n \in Nat \ {0} /\ UserPages = b .. b + n - 1
  <2> DEFINE t == StackTop \div PageSize
  <2>1. b \in Nat /\ b * PageSize = UserBase /\ t \in Nat /\ t * PageSize = StackTop
    BY Constants, Multiple, Zenon
  <2>2. UserPages = b .. t - 1 /\ n = t - b
    BY Zenon DEF UserPages
  <2> HIDE DEF b, t
  <2>3. b < t
    <3>1. t <= b => t * PageSize <= b * PageSize
      BY <2>1, Constants, NextMultiple, Zenon
    <3> QED
      BY <2>1, <3>1, Constants
  <2> HIDE DEF n
  <2> QED
    BY <2>1, <2>2, <2>3
<1> HIDE DEF b, n
<1>2. S \in SUBSET Nat
  BY Constants, Zenon
<1>3. PICK y \in S : TRUE
  <2>1. b \in UserPages
    BY <1>1
  <2> QED
    BY <2>1, Zenon
<1>4. B # {}
  <2>1. PICK m \in Nat : \A q \in b .. b + n - 1 : Frame[q] <= m
    BY <1>1, FramesBelow, Zenon
  <2>2. \A x \in S : x <= m
    BY <1>1, <2>1, Zenon
  <2> QED
    BY <2>2, Zenon
<1>5. PICK x \in B : \A m \in B : x <= m
  <2>1. B \in SUBSET Nat
    BY Zenon
  <2> QED
    BY <1>4, <2>1, Least, Zenon
<1>6. x \in Nat /\ (\A z \in S : z <= x) /\ \A m \in Nat : (\A z \in S : z <= m) => x <= m
  BY <1>5, Zenon
<1>7. x \in S /\ \A z \in S : x >= z
  <2> HIDE DEF S
  <2>1. ASSUME x \notin S PROVE FALSE
    <3>1. \A z \in S : z < x
      BY <1>2, <1>6, <2>1
    <3>2. x - 1 \in Nat
      BY <1>2, <1>3, <1>6, <3>1
    <3>3. \A z \in S : z <= x - 1
      BY <1>2, <1>6, <3>1
    <3>4. x <= x - 1
      BY <1>6, <3>2, <3>3, Zenon
    <3> QED
      BY <1>6, <3>4
  <2> QED
    BY <1>2, <1>6, <2>1, Zenon
<1>8. Max(S) \in S /\ \A z \in S : Max(S) >= z
  BY <1>7, Zenon DEF Max
<1>9. \A q \in UserPages : Frame[q] \in S
  BY Zenon
<1> HIDE DEF S
<1> QED
  BY <1>2, <1>8, <1>9, Zenon DEF S

UserAddresses == UserBase .. StackTop - 1

\* A user address lies in a user page, and its byte in physical memory.
LEMMA Translated ==
  ASSUME NEW a \in UserAddresses
  PROVE  /\ a \in Nat /\ a \div PageSize \in UserPages
         /\ Frame[a \div PageSize] \in Nat /\ a % PageSize \in Nat /\ a % PageSize < PageSize
         /\ Translate(a) = Frame[a \div PageSize] * PageSize + (a % PageSize)
         /\ Translate(a) \in Nat /\ Translate(a) \in PhysMem
<1> DEFINE q == a \div PageSize
           r == a % PageSize
           b == UserBase \div PageSize
           t == StackTop \div PageSize
<1>1. a \in Nat /\ UserBase <= a /\ a < StackTop
  BY Constants DEF UserAddresses
<1>2. q \in Nat /\ r \in Nat /\ r < PageSize /\ a = q * PageSize + r
  BY <1>1, Constants, Quotient, Zenon
<1>3. b \in Nat /\ b * PageSize = UserBase /\ t \in Nat /\ t * PageSize = StackTop
  BY Constants, Multiple, Zenon
<1>4. UserPages = b .. t - 1
  BY Zenon DEF UserPages
<1>5. Translate(a) = Frame[q] * PageSize + r
  BY Zenon DEF Translate
<1> HIDE DEF q, r, b, t
<1>6. q \in UserPages
  <2>1. /\ q * PageSize \in Nat
        /\ q < b => q * PageSize + PageSize <= b * PageSize
        /\ t <= q => t * PageSize <= q * PageSize
    BY <1>2, <1>3, Constants, NextMultiple, Zenon
  <2> QED
    BY <1>1, <1>2, <1>3, <1>4, <2>1, Constants
<1>7. Frame[q] \in Nat
  BY <1>6, Constants, Zenon
<1>8. Translate(a) \in Nat
  BY <1>2, <1>5, <1>7, Constants, OneQuotient, Zenon
<1>9. Translate(a) \in PhysMem
  <2> DEFINE top == Max({Frame[p] : p \in UserPages})
  <2>1. top \in Nat /\ Frame[q] <= top
    BY <1>6, LargestFrame, Zenon
  <2>2. PhysMem = 0 .. (top + 2) * PageSize - 1
    BY Zenon DEF PhysMem
  <2> HIDE DEF top
  <2>3. Frame[q] * PageSize + PageSize <= (top + 2) * PageSize /\ (top + 2) * PageSize \in Nat
        /\ Frame[q] * PageSize \in Nat
    BY <1>7, <2>1, Constants, NextMultiple
  <2> QED
    BY <1>2, <1>5, <1>8, <2>2, <2>3, Constants
<1> QED
  BY <1>1, <1>2, <1>5, <1>6, <1>7, <1>8, <1>9, Zenon DEF q, r

\* Two user addresses with the same byte are equal.
LEMMA TranslateOnce ==
  ASSUME NEW a \in UserAddresses, NEW b \in UserAddresses, Translate(a) = Translate(b)
  PROVE  a = b
<1> DEFINE fa == Frame[a \div PageSize]
           fb == Frame[b \div PageSize]
<1>1. /\ a \in Nat /\ a \div PageSize \in UserPages /\ fa \in Nat /\ a % PageSize \in Nat
      /\ a % PageSize < PageSize /\ Translate(a) = fa * PageSize + (a % PageSize)
  BY Translated, Zenon
<1>2. /\ b \in Nat /\ b \div PageSize \in UserPages /\ fb \in Nat /\ b % PageSize \in Nat
      /\ b % PageSize < PageSize /\ Translate(b) = fb * PageSize + (b % PageSize)
  BY Translated, Zenon
<1> HIDE DEF fa, fb
<1>3. Translate(a) \div PageSize = fa /\ Translate(a) % PageSize = a % PageSize
  BY <1>1, PageAndPlace, Zenon
<1>4. Translate(b) \div PageSize = fb /\ Translate(b) % PageSize = b % PageSize
  BY <1>2, PageAndPlace, Zenon
<1>5. a \div PageSize = b \div PageSize /\ a % PageSize = b % PageSize
  <2>1. fa = fb
    BY <1>3, <1>4, Zenon
  <2> QED
    BY <1>1, <1>2, <1>3, <1>4, <2>1, Constants, Zenon DEF fa, fb
<1>6. a = (a \div PageSize) * PageSize + (a % PageSize)
  BY <1>1, Constants, Quotient, Zenon
<1>7. b = (b \div PageSize) * PageSize + (b % PageSize)
  BY <1>2, Constants, Quotient, Zenon
<1> QED
  BY <1>5, <1>6, <1>7, Zenon

\* Within a page, addresses and bytes go up together.
LEMMA WithinPage ==
  ASSUME NEW a \in UserAddresses, NEW k \in Nat, (a % PageSize) + k < PageSize
  PROVE  /\ a + k \in UserAddresses
         /\ (a + k) \div PageSize = a \div PageSize
         /\ Translate(a + k) = Translate(a) + k
<1> DEFINE q == a \div PageSize
           r == a % PageSize
           t == StackTop \div PageSize
<1>1. a \in Nat /\ UserBase <= a /\ a < StackTop
  BY Constants DEF UserAddresses
<1>2. q \in Nat /\ r \in Nat /\ r + k \in Nat /\ r + k < PageSize /\ a = q * PageSize + r
  BY <1>1, Constants, Quotient
<1>3. t \in Nat /\ t * PageSize = StackTop
  BY Constants, Multiple, Zenon
<1>4. Translate(a) = Frame[q] * PageSize + r /\ Frame[q] \in Nat
  BY Translated, Zenon
<1> HIDE DEF q, r, t
<1>5. a + k = q * PageSize + (r + k)
  BY <1>1, <1>2, Constants, NextMultiple
<1>6. (a + k) \div PageSize = q /\ (a + k) % PageSize = r + k
  <2> DEFINE e == r + k
             n == a + k
  <2>1. e \in Nat /\ e < PageSize /\ n = q * PageSize + e
    BY <1>2, <1>5, Zenon
  <2> HIDE DEF e, n
  <2>2. n \div PageSize = q /\ n % PageSize = e
    BY <1>2, <2>1, PageAndPlace, Zenon
  <2> QED
    BY <2>2, Zenon DEF e, n
<1>7. a + k \in UserAddresses
  <2>1. /\ q * PageSize \in Nat
        /\ t <= q => t * PageSize <= q * PageSize
        /\ q < t => q * PageSize + PageSize <= t * PageSize
    BY <1>2, <1>3, Constants, NextMultiple, Zenon
  <2> QED
    BY <1>1, <1>2, <1>3, <1>5, <2>1, Constants DEF UserAddresses
<1>8. Translate(a + k) = Frame[q] * PageSize + (r + k)
  BY <1>6, Zenon DEF Translate
<1>9. Frame[q] * PageSize \in Nat
  BY <1>4, Constants, NextMultiple, Zenon
<1> QED
  BY <1>2, <1>4, <1>6, <1>7, <1>8, <1>9 DEF q

-----------------------------------------------------------------------------
(* Validation *)

Perms == perm \in [UserPages -> {"none", "r", "rw"}]

\* A byte passes the check of validate_user_byte exactly when it is usable.
LEMMA UsableByte ==
  ASSUME Perms, NEW a \in Nat, NEW access \in Access
  PROVE  ValidByte(a, access) <=> Usable(a, access)
<1>1. a \in UserBase .. StackTop - 1 <=> UserBase <= a /\ a < StackTop
  BY Constants
<1>2. ASSUME a \in UserAddresses
      PROVE  PermOf(a) \in {"none", "r", "rw"}
  <2>1. a \div PageSize \in UserPages
    BY <1>2, Translated, Zenon
  <2> QED
    BY <2>1, Zenon DEF Perms, PermOf
<1>3. access = "Read" \/ access = "Write"
  BY Zenon DEF Access
<1> QED
  BY <1>1, <1>2, <1>3, Zenon DEF ValidByte, Usable, UserAddresses

\* The bytes of a page that is in user memory share a permission.
LEMMA PageOfByte ==
  ASSUME Perms, NEW a \in UserAddresses, NEW b \in UserAddresses,
         a \div PageSize = b \div PageSize, NEW access
  PROVE  Usable(a, access) <=> Usable(b, access)
<1>1. PermOf(a) = PermOf(b)
  BY Zenon DEF PermOf
<1> QED
  BY <1>1, Zenon DEF Usable, UserAddresses

\* Where a user page starts.
LEMMA PageStart ==
  ASSUME NEW q \in UserPages
  PROVE  q \in Nat /\ q * PageSize \in UserAddresses /\ (q * PageSize) \div PageSize = q
<1> DEFINE b == UserBase \div PageSize
           t == StackTop \div PageSize
           n == q * PageSize
<1>1. b \in Nat /\ b * PageSize = UserBase /\ t \in Nat /\ t * PageSize = StackTop
  BY Constants, Multiple, Zenon
<1>2. UserPages = b .. t - 1
  BY Zenon DEF UserPages
<1> HIDE DEF b, t
<1>3. q \in Nat /\ b <= q /\ q < t
  BY <1>1, <1>2
<1>4. /\ q * PageSize \in Nat /\ b * PageSize <= q * PageSize
      /\ q * PageSize + PageSize <= t * PageSize
  BY <1>1, <1>3, Constants, NextMultiple, Zenon
<1>5. n \in UserAddresses
  BY <1>1, <1>4, Constants DEF UserAddresses
<1>6. 0 \in Nat /\ 0 < PageSize /\ n = q * PageSize + 0
  BY <1>4, Constants
<1> HIDE DEF n
<1>7. n \div PageSize = q
  BY <1>3, <1>6, PageAndPlace, Zenon
<1> QED
  BY <1>3, <1>5, <1>7, Zenon DEF n

\* AlignDown finds the start of the page of an address.
LEMMA AlignDownIsStart ==
  ASSUME NEW a \in UserAddresses
  PROVE  /\ AlignDown(a) = (a \div PageSize) * PageSize
         /\ AlignDown(a) \in Nat /\ AlignDown(a) <= a /\ a < AlignDown(a) + PageSize
<1> DEFINE q == a \div PageSize
           r == a % PageSize
<1>1. a \in Nat
  BY Translated, Zenon
<1>2. q \in Nat /\ r \in Nat /\ r < PageSize /\ a = q * PageSize + r
  BY <1>1, Constants, Quotient, Zenon
<1>3. AlignDown(a) = q * PageSize
  BY Zenon DEF AlignDown
<1> HIDE DEF q, r
<1>4. q * PageSize \in Nat
  BY <1>2, Constants, NextMultiple, Zenon
<1> QED
  BY <1>1, <1>2, <1>3, <1>4, Constants DEF q

\* What validate_user_range looks at, one byte of each page that the range
\* touches, decides for every byte of the range.
LEMMA RangeIsExact ==
  ASSUME Perms, NEW a \in 0 .. Word - 1, NEW len \in 0 .. Word - 1, NEW access \in Access
  PROVE  ValidRange(a, len, access) <=> \A b \in Span(a, len) : Usable(b, access)
<1> DEFINE end == CheckedEnd(a, len)
           starts == {q * PageSize : q \in UserPages}
           Checked == \A page \in starts :
                        AlignDown(a) <= page /\ page < end => ValidByte(page, access)
<1>1. a \in Nat /\ len \in Nat /\ Word \in Nat
  BY Constants
<1>2. end = IF a + len <= Word THEN a + len ELSE Word
  BY <1>1, MinOfTwo DEF CheckedEnd
<1>3. ValidRange(a, len, access) <=>
        len = 0 \/ (end # Word /\ UserBase <= a /\ end <= StackTop /\ Checked)
  BY Zenon DEF ValidRange
<1>4. \A b : b \in Span(a, len) <=> b \in Nat /\ a <= b /\ b < a + len
  BY <1>1 DEF Span
<1>5. \A page \in starts : page \in UserAddresses /\ page \in Nat
  <2>1. \A q \in UserPages : q * PageSize \in UserAddresses
    BY PageStart, Zenon
  <2>2. \A x \in UserAddresses : x \in Nat
    BY Translated, Zenon
  <2> QED
    BY <2>1, <2>2, Zenon
<1>6. CASE len = 0
  BY <1>1, <1>3, <1>4, <1>6
<1>7. ASSUME len # 0, end # Word, UserBase <= a, end <= StackTop, Checked,
             NEW b \in Span(a, len)
      PROVE  Usable(b, access)
  <2>1. b \in UserAddresses /\ a \in UserAddresses /\ b \in Nat /\ a <= b /\ b < end
    BY <1>1, <1>2, <1>4, <1>7, Constants DEF UserAddresses
  <2> DEFINE q == b \div PageSize
             page == q * PageSize
  <2>2. q \in UserPages
    BY <2>1, Translated, Zenon
  <2>3. page \in UserAddresses /\ page \div PageSize = q /\ page \in starts
    BY <2>2, PageStart, Zenon
  <2>4. page <= b /\ AlignDown(a) <= page
    <3> DEFINE p == a \div PageSize
    <3>1. AlignDown(b) = page /\ page \in Nat /\ page <= b /\ b < page + PageSize
      BY <2>1, AlignDownIsStart, Zenon
    <3>2. AlignDown(a) = p * PageSize /\ AlignDown(a) \in Nat /\ AlignDown(a) <= a
      BY <2>1, AlignDownIsStart, Zenon
    <3>3. p \in Nat /\ q \in Nat
      <4>1. p \in UserPages
        BY <2>1, Translated, Zenon
      <4> QED
        BY <2>2, <4>1, PageStart, Zenon
    <3> HIDE DEF p, q
    <3>4. q < p => q * PageSize + PageSize <= p * PageSize
      BY <3>3, Constants, NextMultiple, Zenon
    <3>5. p <= q => p * PageSize <= q * PageSize
      BY <3>3, Constants, NextMultiple, Zenon
    <3> QED
      BY <1>1, <2>1, <3>1, <3>2, <3>3, <3>4, <3>5, Constants
  <2>5. ValidByte(page, access)
    <3>1. page \in Nat /\ b \in Nat /\ end \in Int
      BY <1>1, <1>2, <1>5, <2>1, <2>3
    <3>2. page < end
      BY <2>1, <2>4, <3>1
    <3> QED
      BY <1>7, <2>3, <2>4, <3>2, Zenon
  <2>6. Usable(page, access)
    BY <1>5, <2>3, <2>5, UsableByte, Zenon
  <2> QED
    BY <2>1, <2>3, <2>6, PageOfByte, Zenon
<1>8. ASSUME len # 0, \A b \in Span(a, len) : Usable(b, access)
      PROVE  end # Word /\ UserBase <= a /\ end <= StackTop /\ Checked
  <2>1. a \in Span(a, len) /\ a + len - 1 \in Span(a, len)
    BY <1>1, <1>4, <1>8
  <2>2. a \in UserAddresses /\ a + len - 1 \in UserAddresses
    BY <1>8, <2>1, Zenon DEF Usable, UserAddresses
  <2>3. UserBase <= a /\ a + len <= StackTop /\ StackTop < Word
    BY <1>1, <2>2, Quarters, Constants DEF UserAddresses
  <2>4. end = a + len /\ end # Word /\ end <= StackTop
    BY <1>1, <1>2, <2>3, Constants
  <2>5. ASSUME NEW page \in starts, AlignDown(a) <= page, page < end
        PROVE  ValidByte(page, access)
    <3>1. PICK q \in UserPages : page = q * PageSize
      BY <2>5, Zenon
    <3>2. page \in UserAddresses /\ page \div PageSize = q /\ page \in Nat /\ q \in Nat
      BY <1>5, <2>5, <3>1, PageStart, Zenon
    <3>3. CASE a <= page
      <4>1. page \in Span(a, len)
        BY <1>4, <2>4, <2>5, <3>2, <3>3, Zenon
      <4> QED
        BY <1>8, <3>2, <4>1, UsableByte, Zenon
    <3>4. CASE page < a
      <4> DEFINE p == a \div PageSize
      <4>1. /\ AlignDown(a) = p * PageSize /\ AlignDown(a) \in Nat
            /\ a < AlignDown(a) + PageSize
        BY <2>2, AlignDownIsStart, Zenon
      <4>2. p \in UserPages
        BY <2>2, Translated, Zenon
      <4>3. p \in Nat
        BY <4>2, PageStart, Zenon
      <4> HIDE DEF p
      <4>4. /\ p < q => p * PageSize + PageSize <= q * PageSize
            /\ q < p => q * PageSize + PageSize <= p * PageSize
        BY <3>2, <4>3, Constants, NextMultiple, Zenon
      <4>5. p = q
        BY <1>1, <2>5, <3>1, <3>2, <3>4, <4>1, <4>3, <4>4, Constants
      <4>6. Usable(a, access)
        BY <1>8, <2>1, Zenon
      <4>7. a \div PageSize = page \div PageSize
        BY <3>2, <4>5, Zenon DEF p
      <4>8. Usable(page, access)
        BY <2>2, <3>2, <4>6, <4>7, PageOfByte, Zenon
      <4> QED
        BY <3>2, <4>8, UsableByte, Zenon
    <3> QED
      BY <1>1, <3>2, <3>3, <3>4
  <2> QED
    BY <2>3, <2>4, <2>5, Zenon
<1> QED
  BY <1>3, <1>6, <1>7, <1>8, Zenon

-----------------------------------------------------------------------------
(***************************************************************************)
(* The invariant.  The bytes that a copy has moved are those from `start`  *)
(* on: of write, what was sent and what is in the buffer; of open, what is *)
(* in the buffer; of read and waitpid, the first `done` bytes of the       *)
(* range, and physical memory has changed nowhere else.                    *)
(***************************************************************************)
FromUser == {"write", "open"}
ToUser == {"read", "waitpid"}
Checked == {"write", "waitpid"}

\* n bytes of user memory from address a on.
Image(a, n) == [k \in 1 .. n |-> Translate(a + k - 1)]

InUser(a, n) == \A b \in Span(a, n) : b \in UserAddresses

Untouched == phys = [x \in PhysMem |-> x]

\* copy_from_user has fetched `done` bytes after those that were sent.
FetchedSoFar ==
  /\ Untouched
  /\ Len(out) \in Nat /\ done \in Nat /\ Len(out) + done <= call.len
  /\ InUser(start, Len(out) + done)
  /\ out = Image(start, Len(out))
  /\ buffer = Image(start + Len(out), done)
  /\ call.op = "open" => Len(out) = 0

\* copy_to_user has stored `done` bytes.
StoredSoFar ==
  /\ out = <<>> /\ buffer = <<>>
  /\ done \in Nat /\ done <= call.len
  /\ phys \in [PhysMem -> Int]
  /\ \A b \in Span(start, done) :
       b \in UserAddresses /\ Usable(b, "Write") /\ phys[Translate(b)] = -(b - start + 1)
  /\ \A x \in PhysMem : phys[x] # x => \E b \in Span(start, done) : Translate(b) = x

Validated == \A b \in Span(start, call.len) : Usable(b, ValidateAccess(call.op))

Complete ==
  /\ call.op = "write" => Len(out) = call.len
  /\ call.op # "write" => done = call.len

MemoryInv ==
  /\ Perms
  /\ call \in Calls
  /\ start \in 0 .. Word - 1
  /\ phase \in {"dispatch", "validate", "copy", "returned", "panic"}
  /\ call.op \in FromUser => FetchedSoFar
  /\ call.op \in ToUser => StoredSoFar
  /\ phase \notin {"copy", "returned"} => done = 0 /\ out = <<>> /\ buffer = <<>>
  /\ phase = "validate" => call.op \in Checked
  /\ phase = "copy" /\ call.op \in Checked => Validated
  /\ phase # "returned" => ret = 0
  /\ ret \in {-EFAULT, call.len, 0}
  /\ phase = "returned" /\ ret # -EFAULT => ret = call.len /\ Complete

\* What a call is.
LEMMA CallTypes ==
  ASSUME call \in Calls
  PROVE  /\ call.op \in FromUser \/ call.op \in ToUser
         /\ ~(call.op \in FromUser /\ call.op \in ToUser)
         /\ call.ptr \in 0 .. Word - 1 /\ call.len \in 0 .. Word - 1
         /\ call.len \in Nat
<1>1. /\ call.op \in {"write", "open", "read", "waitpid"}
      /\ call.ptr \in Pointers /\ call.len \in Lengths \cup {StatusSize}
  BY Zenon DEF Calls
<1>2. call.ptr \in 0 .. Word - 1 /\ call.len \in 0 .. Word - 1
  <2>1. StatusSize \in 0 .. Word - 1
    BY Constants
  <2> QED
    BY <1>1, <2>1, Constants, Zenon
<1> QED
  BY <1>1, <1>2, Constants DEF FromUser, ToUser

\* Sequences with the same elements are equal.
LEMMA SameElements ==
  ASSUME NEW s \in Seq(Nat), NEW t \in Seq(Nat), Len(s) = Len(t),
         \A k \in 1 .. Len(s) : s[k] = t[k]
  PROVE  s = t
OBVIOUS

\* The first bytes of user memory, from address a on.
LEMMA ImageParts ==
  ASSUME NEW a \in Nat, NEW m \in Nat, NEW n \in Nat, InUser(a, m + n)
  PROVE  /\ Image(a, m) \in Seq(Nat) /\ Len(Image(a, m)) = m
         /\ Image(a + m, n) \in Seq(Nat) /\ Len(Image(a + m, n)) = n
         /\ Image(a, m) \o Image(a + m, n) = Image(a, m + n)
<1>1. ASSUME NEW k \in 1 .. m + n PROVE Translate(a + k - 1) \in Nat
  <2>1. a + k - 1 \in Span(a, m + n)
    BY DEF Span
  <2> QED
    BY <2>1, Translated, Zenon DEF InUser
<1>2. \A k \in 1 .. m : Translate(a + k - 1) \in Nat
  <2>1. \A k \in 1 .. m : k \in 1 .. m + n
    OBVIOUS
  <2> QED
    BY <1>1, <2>1, Zenon
<1>3. \A k \in 1 .. n : a + m + k - 1 = a + (m + k) - 1 /\ m + k \in 1 .. m + n
  OBVIOUS
<1>4. \A k \in 1 .. n : Translate(a + m + k - 1) \in Nat
  BY <1>1, <1>3, Zenon
<1>5. Image(a, m) \in Seq(Nat) /\ Len(Image(a, m)) = m
  BY <1>2 DEF Image
<1>6. Image(a + m, n) \in Seq(Nat) /\ Len(Image(a + m, n)) = n
  BY <1>4 DEF Image
<1>7. Image(a, m + n) \in Seq(Nat) /\ Len(Image(a, m + n)) = m + n
  BY <1>1 DEF Image
<1> DEFINE both == Image(a, m) \o Image(a + m, n)
<1>8. /\ both \in Seq(Nat) /\ Len(both) = m + n
      /\ \A k \in 1 .. m : both[k] = Image(a, m)[k]
      /\ \A k \in 1 .. n : both[m + k] = Image(a + m, n)[k]
  <2> DEFINE s == Image(a, m)
             t == Image(a + m, n)
  <2>1. s \in Seq(Nat) /\ t \in Seq(Nat) /\ Len(s) = m /\ Len(t) = n
    BY <1>5, <1>6, Zenon
  <2> HIDE DEF s, t
  <2>2. /\ s \o t \in Seq(Nat) /\ Len(s \o t) = m + n
        /\ \A k \in 1 .. m : (s \o t)[k] = s[k]
        /\ \A k \in 1 .. n : (s \o t)[m + k] = t[k]
    BY <2>1
  <2> QED
    BY <2>2, Zenon DEF s, t
<1> HIDE DEF both
<1>9. ASSUME NEW k \in 1 .. m + n PROVE both[k] = Image(a, m + n)[k]
  <2>1. Image(a, m + n)[k] = Translate(a + k - 1)
    BY Zenon DEF Image
  <2>2. CASE k \in 1 .. m
    BY <1>8, <2>1, <2>2, Zenon DEF Image
  <2>3. CASE k - m \in 1 .. n
    <3> DEFINE j == k - m
    <3>1. j \in 1 .. n /\ m + j = k /\ a + m + j - 1 = a + k - 1
      BY <2>3
    <3> HIDE DEF j
    <3>2. Image(a + m, n)[j] = Translate(a + m + j - 1)
      BY <3>1, Zenon DEF Image
    <3> QED
      BY <1>8, <2>1, <3>1, <3>2, Zenon
  <2> QED
    BY <2>2, <2>3
<1>10. both = Image(a, m + n)
  BY <1>7, <1>8, <1>9, SameElements, Zenon
<1> QED
  BY <1>5, <1>6, <1>10, Zenon DEF both

\* The same, for the sequence alone.
LEMMA ImageJoins ==
  ASSUME NEW a \in Nat, NEW m \in Nat, NEW n \in Nat, InUser(a, m + n)
  PROVE  Image(a, m) \o Image(a + m, n) = Image(a, m + n)
BY ImageParts

\* How many bytes there are.
LEMMA ImageLength ==
  ASSUME NEW a \in Nat, NEW m \in Nat, InUser(a, m)
  PROVE  Len(Image(a, m)) = m
BY DEF Image

\* No bytes.
LEMMA NoBytes ==
  ASSUME NEW a \in Nat
  PROVE  Image(a, 0) = <<>> /\ Span(a, 0) = {} /\ InUser(a, 0)
<1>1. 1 .. 0 = {} /\ Span(a, 0) = {}
  BY DEF Span
<1>2. Image(a, 0) = <<>>
  BY <1>1 DEF Image
<1> QED
  BY <1>1, <1>2, Zenon DEF InUser

\* What one turn of a copy loop moves is not empty and lies within a page.
LEMMA ChunkFits ==
  ASSUME NEW a \in Nat, NEW left \in Nat \ {0}
  PROVE  /\ Chunk(a, left) \in Nat \ {0} /\ Chunk(a, left) <= left
         /\ (a % PageSize) + Chunk(a, left) <= PageSize
<1> DEFINE r == a % PageSize
           room == PageSize - r
<1>1. r \in Nat /\ r < PageSize
  BY Constants, Quotient, Zenon
<1> HIDE DEF r
<1>2. room \in Int /\ 0 < room /\ r + room = PageSize
  BY <1>1, Constants
<1> HIDE DEF room
<1>3. Chunk(a, left) = IF left <= room THEN left ELSE room
  <2>1. Chunk(a, left) = Min({left, room})
    BY Zenon DEF Chunk, room, r
  <2> QED
    BY <1>2, <2>1, MinOfTwo
<1> QED
  BY <1>1, <1>2, <1>3, Constants DEF r

\* The addresses that one turn moves.
LEMMA ChunkInPage ==
  ASSUME NEW a \in UserAddresses, NEW n \in Nat, (a % PageSize) + n <= PageSize,
         NEW b \in Span(a, n)
  PROVE  /\ b \in UserAddresses /\ b \in Nat /\ b - a \in Nat /\ b - a < n
         /\ b \div PageSize = a \div PageSize
         /\ Translate(b) = Translate(a) + (b - a)
<1> DEFINE k == b - a
           r == a % PageSize
<1>1. a \in Nat /\ r \in Nat
  BY Translated, Zenon
<1>2. k \in Nat /\ k < n /\ b \in Nat /\ a + k = b
  BY <1>1 DEF Span
<1> HIDE DEF k, r
<1>3. r + k < PageSize
  BY <1>1, <1>2, Constants DEF r
<1>4. /\ a + k \in UserAddresses
      /\ (a + k) \div PageSize = a \div PageSize
      /\ Translate(a + k) = Translate(a) + k
  BY <1>2, <1>3, WithinPage, Zenon DEF r
<1> QED
  BY <1>2, <1>4, Zenon DEF k

\* A turn of copy_from_user fetches the bytes of user memory.
LEMMA FetchedBytes ==
  ASSUME Untouched, NEW a \in UserAddresses, NEW n \in Nat, (a % PageSize) + n <= PageSize
  PROVE  Fetched(a, n) = Image(a, n) /\ InUser(a, n)
<1>1. InUser(a, n)
  BY ChunkInPage, Zenon DEF InUser
<1>2. a \in Nat
  BY Translated, Zenon
<1>3. ASSUME NEW k \in 1 .. n
      PROVE  phys[Translate(a) + k - 1] = Translate(a + k - 1)
  <2> DEFINE b == a + k - 1
  <2>1. b \in Span(a, n) /\ b - a = k - 1
    BY <1>2 DEF Span
  <2>2. b \in UserAddresses /\ Translate(b) = Translate(a) + (k - 1)
    BY <2>1, ChunkInPage, Zenon
  <2>3. Translate(b) \in PhysMem
    BY <2>2, Translated, Zenon
  <2>4. phys[Translate(b)] = Translate(b)
    BY <2>3, Zenon DEF Untouched
  <2>5. Translate(a) \in Nat
    BY Translated, Zenon
  <2>6. Translate(a) + k - 1 = Translate(a) + (k - 1)
    BY <2>5, Zenon
  <2> QED
    BY <2>2, <2>4, <2>6, Zenon
<1> QED
  BY <1>1, <1>3, Zenon DEF Fetched, Image

\* Two ranges next to each other.
LEMMA SpanParts ==
  ASSUME NEW a \in Nat, NEW m \in Nat, NEW n \in Nat
  PROVE  \A b : b \in Span(a, m + n) <=> b \in Span(a, m) \/ b \in Span(a + m, n)
BY DEF Span

-----------------------------------------------------------------------------
(* The steps *)

\* A turn of copy_from_user.
LEMMA FetchStep ==
  ASSUME FetchedSoFar, call.len \in Nat, start \in Nat, NEW count \in Nat,
         Len(out) + done + count <= call.len,
         LET a == start + Len(out) + done
         IN  /\ a \in UserAddresses /\ (a % PageSize) + count <= PageSize
             /\ buffer' = buffer \o Fetched(a, count),
         done' = done + count, UNCHANGED <<phys, call, start, out>>
  PROVE  FetchedSoFar'
<1> DEFINE m == Len(out)
           s == start + m
           a == start + Len(out) + done
<1>1. /\ Untouched /\ m \in Nat /\ done \in Nat /\ InUser(start, m + done)
      /\ out = Image(start, m) /\ buffer = Image(s, done) /\ (call.op = "open" => m = 0)
  BY Zenon DEF FetchedSoFar
<1>2. Fetched(a, count) = Image(a, count) /\ InUser(a, count)
  BY <1>1, FetchedBytes, Zenon
<1>3. s \in Nat /\ a = s + done
  BY <1>1
<1>4. InUser(start, m + (done + count))
  <2>1. m + (done + count) = (m + done) + count /\ a = start + (m + done) /\ m + done \in Nat
    BY <1>1
  <2>2. InUser(start, (m + done) + count)
    BY <1>1, <1>2, <2>1, SpanParts, Zenon DEF InUser
  <2> QED
    BY <2>1, <2>2, Zenon
<1>5. InUser(s, done + count)
  <2>1. done + count \in Nat
    BY <1>1
  <2> QED
    BY <1>1, <1>4, <2>1, SpanParts, Zenon DEF InUser
<1>6. buffer' = Image(s, done + count)
  <2>1. buffer' = Image(s, done) \o Image(a, count)
    BY <1>1, <1>2, Zenon
  <2> HIDE DEF s, a
  <2>2. s \in Nat /\ done \in Nat
    BY <1>1, <1>3, Zenon
  <2>3. Image(s, done) \o Image(s + done, count) = Image(s, done + count)
    BY <1>5, <2>2, ImageJoins, Zenon
  <2> QED
    BY <1>3, <2>1, <2>3, Zenon
<1>7. done' \in Nat /\ m + done' <= call.len
  <2> HIDE DEF m
  <2> QED
    BY <1>1 DEF m
<1>8. /\ Untouched' /\ Len(out') = m /\ out' = out
      /\ call' = call /\ start' = start /\ m + done' = m + (done + count)
  BY <1>1, Zenon DEF Untouched
<1> HIDE DEF m
<1> QED
  BY <1>1, <1>4, <1>6, <1>7, <1>8, Zenon DEF FetchedSoFar, InUser, s

\* The bytes that write has fetched go to the serial port.
LEMMA FlushStep ==
  ASSUME FetchedSoFar, call.len \in Nat, start \in Nat, call.op = "write",
         out' = out \o buffer, buffer' = <<>>, done' = 0,
         UNCHANGED <<phys, call, start>>
  PROVE  FetchedSoFar'
<1> DEFINE m == Len(out)
           s == start + m
<1>1. /\ Untouched /\ m \in Nat /\ done \in Nat /\ InUser(start, m + done)
      /\ out = Image(start, m) /\ buffer = Image(s, done) /\ m + done <= call.len
  BY Zenon DEF FetchedSoFar
<1>2. out' = Image(start, m + done)
  <2>1. Image(start, m) \o Image(start + m, done) = Image(start, m + done)
    BY <1>1, ImageJoins, Zenon
  <2> QED
    BY <1>1, <2>1, Zenon
<1> HIDE DEF m
<1>3. m + done \in Nat
  BY <1>1
<1>4. Len(out') = m + done
  BY <1>1, <1>2, <1>3, ImageLength, Zenon
<1> DEFINE n == m + done
<1>5. n \in Nat /\ n + 0 = n /\ n <= call.len /\ start + n \in Nat
  BY <1>1, <1>3
<1>6. out' = Image(start, n) /\ Len(out') = n /\ InUser(start, n)
  BY <1>1, <1>2, <1>4, Zenon
<1> HIDE DEF n
<1>7. /\ Untouched' /\ call' = call /\ start' = start /\ n + done' = n
      /\ 0 \in Nat
  BY <1>1, <1>5, Zenon DEF Untouched
<1>8. Image(start + n, 0) = <<>>
  BY <1>5, NoBytes, Zenon
<1>9. call.op # "open"
  BY Zenon
<1> QED
  BY <1>5, <1>6, <1>7, <1>8, <1>9, Zenon DEF FetchedSoFar, InUser

\* A turn of copy_to_user.
LEMMA StoreStep ==
  ASSUME StoredSoFar, Perms, call.len \in Nat, start \in Nat, NEW count \in Nat,
         done + count <= call.len,
         LET a == start + done
             to == Translate(a)
         IN  /\ ValidByte(a, "Write") /\ (a % PageSize) + count <= PageSize
             /\ phys' = [x \in PhysMem |->
                           IF x \in to .. to + count - 1
                           THEN -(done + x - to + 1) ELSE phys[x]],
         done' = done + count, UNCHANGED <<perm, call, start, buffer, out>>
  PROVE  StoredSoFar'
<1> DEFINE a == start + done
           to == Translate(a)
<1>1. /\ done \in Nat /\ a \in Nat /\ out = <<>> /\ buffer = <<>>
      /\ phys \in [PhysMem -> Int] /\ a + count = start + (done + count)
  BY DEF StoredSoFar
<1>2. /\ ValidByte(a, "Write") /\ (a % PageSize) + count <= PageSize
      /\ phys' = [x \in PhysMem |->
                    IF x \in to .. to + count - 1
                    THEN -(done + x - to + 1) ELSE phys[x]]
  BY Zenon
<1>3. a \in UserAddresses /\ Usable(a, "Write")
  <2>1. "Write" \in Access
    BY Zenon DEF Access
  <2>2. Usable(a, "Write")
    BY <1>1, <1>2, <2>1, UsableByte, Zenon
  <2> QED
    BY <2>2, Zenon DEF Usable, UserAddresses
<1>4. to \in Nat
  BY <1>3, Translated, Zenon
<1> HIDE DEF a, to
<1> DEFINE moved == to .. to + count - 1
<1>5. ASSUME NEW b \in Span(a, count)
      PROVE  /\ b \in UserAddresses /\ b \in Nat /\ Usable(b, "Write")
             /\ Translate(b) = to + (b - a) /\ Translate(b) \in moved
             /\ Translate(b) \in PhysMem /\ Translate(b) - to = b - a
  <2>1. /\ b \in UserAddresses /\ b \in Nat /\ b - a \in Nat /\ b - a < count
        /\ b \div PageSize = a \div PageSize /\ Translate(b) = to + (b - a)
    BY <1>2, <1>3, ChunkInPage, Zenon DEF to
  <2>2. Usable(b, "Write")
    BY <1>3, <2>1, PageOfByte, Zenon
  <2>3. Translate(b) \in moved /\ Translate(b) - to = b - a
    BY <1>4, <2>1
  <2> QED
    BY <2>1, <2>2, <2>3, Translated, Zenon
<1>6. ASSUME NEW x \in moved
      PROVE  \E b \in Span(a, count) : Translate(b) = x
  <2> DEFINE b == a + (x - to)
  <2>1. b \in Span(a, count) /\ to + (b - a) = x
    BY <1>1, <1>4 DEF Span
  <2> HIDE DEF b
  <2> QED
    BY <1>5, <2>1, Zenon
<1>7. \A x \in PhysMem :
        /\ x \in moved => phys'[x] = -(done + x - to + 1)
        /\ x \notin moved => phys'[x] = phys[x]
  BY <1>2, Zenon
<1>8. PhysMem \subseteq Int
  BY DEF PhysMem
<1>9. phys' \in [PhysMem -> Int]
  <2>1. ASSUME NEW x \in PhysMem PROVE phys'[x] \in Int
    <3>1. x \in Int /\ phys[x] \in Int
      BY <1>1, <1>8
    <3>2. -(done + x - to + 1) \in Int
      BY <1>1, <1>4, <3>1
    <3> QED
      BY <1>7, <3>1, <3>2, Zenon
  <2>2. phys' = [x \in PhysMem |-> phys'[x]]
    BY <1>2, Zenon
  <2> QED
    BY <2>1, <2>2, Zenon
<1> HIDE DEF moved
<1>10. \A b : b \in Span(start, done + count) <=> b \in Span(start, done) \/ b \in Span(a, count)
  BY <1>1, SpanParts, Zenon DEF a
<1>11. ASSUME NEW b \in Span(start, done)
       PROVE  b \in UserAddresses /\ Usable(b, "Write") /\ phys'[Translate(b)] = -(b - start + 1)
  <2>1. /\ b \in UserAddresses /\ Usable(b, "Write")
        /\ phys[Translate(b)] = -(b - start + 1)
    BY Zenon DEF StoredSoFar
  <2>2. b \notin Span(a, count)
    BY <1>1 DEF Span, a
  <2>3. Translate(b) \notin moved
    BY <1>5, <1>6, <2>1, <2>2, TranslateOnce, Zenon
  <2>4. Translate(b) \in PhysMem
    BY <2>1, Translated, Zenon
  <2> QED
    BY <1>7, <2>1, <2>3, <2>4, Zenon
<1>12. ASSUME NEW b \in Span(a, count)
       PROVE  b \in UserAddresses /\ Usable(b, "Write") /\ phys'[Translate(b)] = -(b - start + 1)
  <2> DEFINE x == Translate(b)
  <2>1. x \in moved /\ x \in PhysMem /\ x - to = b - a /\ b \in Nat /\ x \in Int
    BY <1>5, <1>8, Zenon
  <2> HIDE DEF x
  <2>2. phys'[x] = -(done + x - to + 1)
    BY <1>7, <2>1, Zenon
  <2>3. -(done + x - to + 1) = -(b - start + 1)
    BY <1>1, <1>4, <2>1 DEF a
  <2> QED
    BY <1>5, <2>2, <2>3, Zenon DEF x
<1>13. ASSUME NEW x \in PhysMem, phys'[x] # x
       PROVE  \E b \in Span(start, done + count) : Translate(b) = x
  <2>1. CASE x \in moved
    BY <1>6, <1>10, <2>1, Zenon
  <2>2. CASE x \notin moved
    <3>1. phys[x] # x
      BY <1>7, <1>13, <2>2, Zenon
    <3>2. \E b \in Span(start, done) : Translate(b) = x
      BY <3>1, Zenon DEF StoredSoFar
    <3> QED
      BY <1>10, <3>2, Zenon
  <2> QED
    BY <2>1, <2>2, Zenon
<1>14. /\ done' \in Nat /\ done' <= call'.len /\ done' = done + count /\ start' = start
       /\ out' = <<>> /\ buffer' = <<>>
  BY <1>1
<1>15. \A b : Usable(b, "Write")' <=> Usable(b, "Write")
  BY Zenon DEF Usable, PermOf
<1>16. ASSUME NEW b \in Span(start, done)'
       PROVE  /\ b \in UserAddresses /\ Usable(b, "Write")'
              /\ phys'[Translate(b)] = -(b - start' + 1)
  <2>1. b \in Span(start, done + count)
    BY <1>14, <1>16, Zenon DEF Span
  <2> QED
    BY <1>10, <1>11, <1>12, <1>14, <1>15, <2>1, Zenon
<1>17. ASSUME NEW x \in PhysMem, phys'[x] # x
       PROVE  \E b \in Span(start, done)' : Translate(b) = x
  BY <1>13, <1>14, <1>17, Zenon DEF Span
<1> QED
  BY <1>9, <1>14, <1>16, <1>17, Zenon DEF StoredSoFar

\* No step changes the permissions or the call.
LEMMA KeepsCall ==
  ASSUME [Next]_vars
  PROVE  perm' = perm /\ call' = call
BY Zenon DEF Next, vars, Dispatch, Validate, CopyFromUser, CopyToUser, Return, Goto

\* Where nothing that a copy loop has done is touched.
LEMMA CopyStays ==
  ASSUME UNCHANGED <<perm, phys, call, start, done, buffer, out>>
  PROVE  /\ FetchedSoFar' <=> FetchedSoFar
         /\ StoredSoFar' <=> StoredSoFar
         /\ Validated' <=> Validated
         /\ Complete' <=> Complete
         /\ Perms' <=> Perms
<1>1. \A b, access : Usable(b, access)' <=> Usable(b, access)
  BY Zenon DEF Usable, PermOf
<1>2. FetchedSoFar' <=> FetchedSoFar
  BY Zenon DEF FetchedSoFar, Untouched, InUser, Span
<1>3. StoredSoFar' <=> StoredSoFar
  BY <1>1, Zenon DEF StoredSoFar, Span
<1>4. Validated' <=> Validated
  BY <1>1, Zenon DEF Validated, Span
<1> QED
  BY <1>2, <1>3, <1>4, Zenon DEF Complete, Perms

\* Before the first turn of a loop it does not matter where the range starts.
LEMMA NothingCopied ==
  ASSUME done = 0, out = <<>>, buffer = <<>>, start \in Nat, start' \in Nat,
         UNCHANGED <<perm, phys, call, done, buffer, out>>
  PROVE  (FetchedSoFar => FetchedSoFar') /\ (StoredSoFar => StoredSoFar')
<1>1. Len(out) = 0 /\ start + 0 = start /\ start' + 0 = start' /\ 0 + 0 = 0
  <2>1. Len(<<>>) = 0
    BY Zenon
  <2>2. Len(out) = 0
    BY <2>1, Zenon
  <2>3. \A n \in Nat : n + 0 = n
    OBVIOUS
  <2>4. 0 \in Nat
    BY Zenon
  <2> QED
    BY <2>2, <2>3, <2>4, Zenon
<1>2. /\ Image(start', 0) = <<>> /\ Span(start', 0) = {} /\ InUser(start', 0)
      /\ Span(start, 0) = {}
  BY NoBytes, Zenon
<1>3. ASSUME FetchedSoFar PROVE FetchedSoFar'
  <2>1. Untouched' /\ Len(out)' = 0 /\ done' = 0 /\ call' = call
    BY <1>1, <1>3, Zenon DEF FetchedSoFar, Untouched
  <2>2. 0 \in Nat /\ 0 + 0 <= call.len
    <3>1. Len(out) + done <= call.len
      BY <1>3, Zenon DEF FetchedSoFar
    <3> QED
      BY <1>1, <3>1, Zenon
  <2>3. InUser(start', 0 + 0) /\ start' + 0 = start'
    BY <1>1, <1>2, Zenon
  <2>4. InUser(start, Len(out) + done)'
    <3>1. InUser(start, Len(out) + done)' <=> InUser(start', Len(out)' + done')
      BY Zenon DEF InUser, Span
    <3> QED
      BY <2>1, <2>3, <3>1, Zenon
  <2>5. out' = Image(start, Len(out))' /\ buffer' = Image(start + Len(out), done)'
    BY <1>2, <2>1, <2>3, Zenon
  <2> QED
    BY <2>1, <2>2, <2>4, <2>5, Zenon DEF FetchedSoFar
<1>4. ASSUME StoredSoFar PROVE StoredSoFar'
  <2>1. Span(start, done)' = {} /\ Span(start, done) = {}
    BY <1>2, Zenon
  <2> QED
    BY <1>4, <2>1, Zenon DEF StoredSoFar
<1> QED
  BY <1>3, <1>4, Zenon

\* VirtAddr::new keeps a register value in range.
LEMMA AddressInRange ==
  ASSUME NEW value \in 0 .. Word - 1
  PROVE  VirtAddr(value) \in 0 .. Word - 1
BY Quarters, Constants DEF VirtAddr, SignExtends

\* What MemoryInv says, in the form in which the steps use it.
LEMMA InvFacts ==
  ASSUME MemoryInv
  PROVE  /\ Perms /\ call.len \in Nat /\ call.len \in 0 .. Word - 1
         /\ call.ptr \in 0 .. Word - 1
         /\ start \in Nat /\ start \in 0 .. Word - 1
         /\ call.op \in FromUser \/ call.op \in ToUser
         /\ call.op \in FromUser => FetchedSoFar
         /\ call.op \in ToUser => StoredSoFar
<1>1. Perms /\ call \in Calls /\ start \in 0 .. Word - 1
      /\ (call.op \in FromUser => FetchedSoFar) /\ (call.op \in ToUser => StoredSoFar)
  BY Zenon DEF MemoryInv
<1>2. start \in Nat
  BY <1>1, Constants
<1> QED
  BY <1>1, <1>2, CallTypes, Zenon

\* dispatch makes an address of the pointer.
LEMMA DispatchStep ==
  ASSUME MemoryInv, Dispatch
  PROVE  MemoryInv'
<1>1. /\ phase = "dispatch" /\ start' = VirtAddr(call.ptr) /\ call' = call
      /\ UNCHANGED <<perm, phys, call, done, buffer, out, ret>>
      /\ \/ phase' = "panic"
         \/ phase' = "copy" /\ call.op \notin {"write", "waitpid"}
         \/ phase' = "validate" /\ call.op \in {"write", "waitpid"}
  BY Zenon DEF Dispatch, Goto
<1>2. /\ done = 0 /\ out = <<>> /\ buffer = <<>> /\ ret = 0
      /\ ret \in {-EFAULT, call.len, 0} /\ call \in Calls
  <2>1. phase \notin {"copy", "returned"}
    BY <1>1, Zenon
  <2> QED
    BY <2>1, Zenon DEF MemoryInv
<1>3. start' \in 0 .. Word - 1 /\ start' \in Nat
  <2>1. start' \in 0 .. Word - 1
    BY <1>1, InvFacts, AddressInRange, Zenon
  <2> QED
    BY <2>1, Constants
<1>4. (FetchedSoFar => FetchedSoFar') /\ (StoredSoFar => StoredSoFar')
  BY <1>1, <1>2, <1>3, InvFacts, NothingCopied, Zenon
<1>5. (call.op \in FromUser => FetchedSoFar)' /\ (call.op \in ToUser => StoredSoFar)'
  BY <1>1, <1>4, InvFacts, Zenon
<1>6. Perms'
  BY <1>1, InvFacts, Zenon DEF Perms
<1>7. /\ phase' \in {"dispatch", "validate", "copy", "returned", "panic"}
      /\ phase' # "returned"
      /\ phase' = "validate" => call.op \in Checked
      /\ phase' = "copy" => call.op \notin Checked
  BY <1>1 DEF Checked
<1> QED
  BY <1>1, <1>2, <1>3, <1>5, <1>6, <1>7, Zenon DEF MemoryInv

\* A step that returns.
LEMMA ReturnStep ==
  ASSUME MemoryInv, NEW value, Return(value),
         value = -EFAULT \/ (value = call.len /\ Complete)
  PROVE  MemoryInv'
<1>1. /\ UNCHANGED <<perm, phys, call, start, done, buffer, out>>
      /\ phase' = "returned" /\ ret' = value
  BY Zenon DEF Return
<1>2. /\ FetchedSoFar' <=> FetchedSoFar
      /\ StoredSoFar' <=> StoredSoFar
      /\ Validated' <=> Validated
      /\ Complete' <=> Complete
      /\ Perms' <=> Perms
  BY <1>1, CopyStays, Zenon
<1>3. /\ phase' \in {"dispatch", "validate", "copy", "returned", "panic"}
      /\ phase' \in {"copy", "returned"} /\ phase' # "validate" /\ phase' # "copy"
      /\ ret' \in {-EFAULT, call.len, 0}
      /\ ret' # -EFAULT => ret' = call.len /\ Complete
  BY <1>1, Zenon
<1>4. /\ Perms /\ call \in Calls /\ start \in 0 .. Word - 1
      /\ call.op \in FromUser => FetchedSoFar
      /\ call.op \in ToUser => StoredSoFar
  BY Zenon DEF MemoryInv
<1>5. /\ call' = call /\ start' = start
  BY <1>1, Zenon
<1> QED
  BY <1>1, <1>2, <1>3, <1>4, <1>5, Zenon DEF MemoryInv

\* validate_user_range runs before the copy of write and waitpid.
LEMMA ValidateStep ==
  ASSUME MemoryInv, Validate
  PROVE  MemoryInv'
<1> DEFINE access == ValidateAccess(call.op)
<1>1. phase = "validate" /\ access \in Access
  BY DEF Validate, ValidateAccess, Access
<1>2. ValidRange(start, call.len, access) <=> Validated
  BY <1>1, InvFacts, RangeIsExact, Zenon DEF Validated
<1>3. CASE ValidRange(start, call.len, access)
  <2>1. /\ UNCHANGED <<perm, phys, call, start, done, buffer, out>>
        /\ phase' = "copy" /\ ret' = ret /\ call' = call /\ start' = start
    BY <1>3, Zenon DEF Validate, Goto
  <2>2. /\ FetchedSoFar' <=> FetchedSoFar
        /\ StoredSoFar' <=> StoredSoFar
        /\ Validated' <=> Validated
        /\ Perms' <=> Perms
    BY <2>1, CopyStays, Zenon
  <2>3. /\ phase' \in {"dispatch", "validate", "copy", "returned", "panic"}
        /\ phase' \in {"copy", "returned"} /\ phase' # "validate" /\ phase' # "returned"
        /\ phase # "returned"
    BY <1>1, <2>1, Zenon
  <2>4. /\ Perms /\ call \in Calls /\ start \in 0 .. Word - 1 /\ ret = 0
        /\ call.op \in FromUser => FetchedSoFar
        /\ call.op \in ToUser => StoredSoFar
        /\ ret \in {-EFAULT, call.len, 0}
    BY <2>3, Zenon DEF MemoryInv
  <2> QED
    BY <1>2, <1>3, <2>1, <2>2, <2>3, <2>4, Zenon DEF MemoryInv
<1>4. CASE ~ValidRange(start, call.len, access)
  <2>1. Return(-EFAULT)
    BY <1>4, Zenon DEF Validate
  <2> QED
    BY <2>1, ReturnStep, Zenon
<1> QED
  BY <1>3, <1>4, Zenon

\* A turn of the loop of copy_to_user or copy_from_user, other than the last.
LEMMA TurnStep ==
  ASSUME MemoryInv, phase = "copy", UNCHANGED <<perm, call, start, phase, ret>>,
         call.op \in FromUser => FetchedSoFar',
         call.op \in ToUser => StoredSoFar'
  PROVE  MemoryInv'
<1>1. /\ perm' = perm /\ call' = call /\ start' = start /\ phase' = phase /\ ret' = ret
  BY Zenon
<1>2. Perms' <=> Perms
  BY <1>1, Zenon DEF Perms
<1>3. Validated' <=> Validated
  BY <1>1, Zenon DEF Validated, Span, Usable, PermOf
<1>4. phase' \in {"copy", "returned"} /\ phase' # "validate" /\ phase' # "returned"
      /\ phase # "returned"
  BY <1>1, Zenon
<1> QED
  BY <1>1, <1>2, <1>3, <1>4, Zenon DEF MemoryInv

\* What copy_from_user wants to have fetched does not exceed what is left.
LEMMA WantedFits ==
  ASSUME MemoryInv, call.op \in FromUser
  PROVE  LET wanted == IF call.op = "write" THEN WriteChunk(call.len - Len(out)) ELSE call.len
         IN  wanted \in Nat /\ Len(out) + wanted <= call.len
<1> DEFINE m == Len(out)
           len == call.len
<1>1. /\ m \in Nat /\ done \in Nat /\ len \in Nat /\ m + done <= len
      /\ call.op = "open" => m = 0
  BY InvFacts, Zenon DEF FetchedSoFar
<1>2. call.op = "write" \/ call.op = "open"
  BY Zenon DEF FromUser
<1> HIDE DEF m, len
<1>3. len - m \in Nat
  BY <1>1
<1>4. WriteChunk(len - m) = IF ChunkSize <= len - m THEN ChunkSize ELSE len - m
  BY <1>3, Constants, MinOfTwo DEF WriteChunk
<1>5. WriteChunk(len - m) \in Nat /\ m + WriteChunk(len - m) <= len
  BY <1>1, <1>3, <1>4, Constants
<1>6. call.op = "open" => m + len <= len
  BY <1>1
<1> QED
  BY <1>1, <1>2, <1>5, <1>6, Zenon DEF m, len

\* copy_from_user, and what write does with its bytes.
LEMMA CopyFromUserStep ==
  ASSUME MemoryInv, CopyFromUser
  PROVE  MemoryInv'
<1> DEFINE m == Len(out)
           wanted == IF call.op = "write" THEN WriteChunk(call.len - Len(out)) ELSE call.len
           a == start + Len(out) + done
           count == Chunk(a, wanted - done)
<1>1. phase = "copy" /\ call.op \in FromUser /\ call.op \notin ToUser
  BY Zenon DEF CopyFromUser, FromUser, ToUser
<1>2. /\ FetchedSoFar /\ m \in Nat /\ done \in Nat /\ call.len \in Nat /\ start \in Nat
      /\ m + done <= call.len /\ Perms
  BY <1>1, InvFacts, Zenon DEF FetchedSoFar
<1>3. wanted \in Nat /\ m + wanted <= call.len
  BY <1>1, WantedFits, Zenon
<1>4. \/ done < wanted /\ ~ValidByte(a, "Read") /\ Return(-EFAULT)
      \/ /\ done < wanted /\ ValidByte(a, "Read")
         /\ buffer' = buffer \o Fetched(a, count) /\ done' = done + count
         /\ UNCHANGED <<perm, phys, call, start, phase, out, ret>>
      \/ /\ call.op = "write" /\ out' = out \o buffer /\ buffer' = <<>> /\ done' = 0
         /\ UNCHANGED <<perm, phys, call, start, phase, ret>>
      \/ ~(done < wanted) /\ ~(call.op = "write" /\ m < call.len) /\ Return(call.len)
  BY Zenon DEF CopyFromUser
<1>5. CASE done < wanted /\ ~ValidByte(a, "Read") /\ Return(-EFAULT)
  BY <1>5, ReturnStep, Zenon
<1>6. CASE /\ done < wanted /\ ValidByte(a, "Read")
           /\ buffer' = buffer \o Fetched(a, count) /\ done' = done + count
           /\ UNCHANGED <<perm, phys, call, start, phase, out, ret>>
  <2>1. wanted - done \in Nat \ {0} /\ a \in Nat
    <3> HIDE DEF wanted, m
    <3> QED
      BY <1>2, <1>3, <1>6 DEF m
  <2>2. /\ count \in Nat \ {0} /\ count <= wanted - done
        /\ (a % PageSize) + count <= PageSize
    BY <2>1, ChunkFits, Zenon
  <2>3. a \in UserAddresses
    <3>1. Usable(a, "Read")
      <4>1. "Read" \in Access
        BY DEF Access
      <4> QED
        BY <1>2, <1>6, <2>1, <4>1, UsableByte, Zenon
    <3> QED
      BY <3>1, Zenon DEF Usable, UserAddresses
  <2>4. count \in Nat /\ m + done + count <= call.len
    <3> HIDE DEF wanted, m, count
    <3> QED
      BY <1>2, <1>3, <2>2
  <2>5. FetchedSoFar'
    <3> HIDE DEF count
    <3> QED
      BY <1>2, <1>6, <2>2, <2>3, <2>4, FetchStep, Zenon
  <2> QED
    BY <1>1, <1>6, <2>5, TurnStep, Zenon
<1>7. CASE /\ call.op = "write" /\ out' = out \o buffer /\ buffer' = <<>> /\ done' = 0
           /\ UNCHANGED <<perm, phys, call, start, phase, ret>>
  <2>1. FetchedSoFar'
    BY <1>2, <1>7, FlushStep, Zenon
  <2> QED
    BY <1>1, <1>7, <2>1, TurnStep, Zenon
<1>8. CASE ~(done < wanted) /\ ~(call.op = "write" /\ m < call.len) /\ Return(call.len)
  <2>1. Complete
    <3>1. CASE call.op = "write"
      <4> HIDE DEF m, wanted
      <4>1. m = call.len
        BY <1>2, <1>8, <3>1
      <4> QED
        BY <3>1, <4>1, Zenon DEF Complete, m
    <3>2. CASE call.op # "write"
      <4>1. wanted = call.len
        BY <3>2, Zenon
      <4> HIDE DEF m, wanted
      <4>2. done = call.len
        BY <1>2, <1>8, <4>1
      <4> QED
        BY <3>2, <4>2, Zenon DEF Complete
    <3> QED
      BY <3>1, <3>2, Zenon
  <2> QED
    BY <1>8, <2>1, ReturnStep, Zenon
<1> QED
  BY <1>4, <1>5, <1>6, <1>7, <1>8, Zenon

\* copy_to_user.
LEMMA CopyToUserStep ==
  ASSUME MemoryInv, CopyToUser
  PROVE  MemoryInv'
<1> DEFINE a == start + done
           count == Chunk(a, call.len - done)
           to == Translate(a)
<1>1. phase = "copy" /\ call.op \in ToUser /\ call.op \notin FromUser /\ call.op # "write"
  BY Zenon DEF CopyToUser, FromUser, ToUser
<1>2. /\ StoredSoFar /\ done \in Nat /\ call.len \in Nat /\ start \in Nat
      /\ done <= call.len /\ Perms
  BY <1>1, InvFacts, Zenon DEF StoredSoFar
<1>3. \/ done < call.len /\ ~ValidByte(a, "Write") /\ Return(-EFAULT)
      \/ /\ done < call.len /\ ValidByte(a, "Write")
         /\ phys' = [x \in PhysMem |->
                       IF x \in to .. to + count - 1
                       THEN -(done + x - to + 1) ELSE phys[x]]
         /\ done' = done + count
         /\ UNCHANGED <<perm, call, start, phase, buffer, out, ret>>
      \/ ~(done < call.len) /\ Return(call.len)
  BY Zenon DEF CopyToUser
<1>4. CASE done < call.len /\ ~ValidByte(a, "Write") /\ Return(-EFAULT)
  BY <1>4, ReturnStep, Zenon
<1>5. CASE /\ done < call.len /\ ValidByte(a, "Write")
           /\ phys' = [x \in PhysMem |->
                         IF x \in to .. to + count - 1
                         THEN -(done + x - to + 1) ELSE phys[x]]
           /\ done' = done + count
           /\ UNCHANGED <<perm, call, start, phase, buffer, out, ret>>
  <2>1. call.len - done \in Nat \ {0} /\ a \in Nat
    BY <1>2, <1>5
  <2>2. /\ count \in Nat \ {0} /\ count <= call.len - done
        /\ (a % PageSize) + count <= PageSize
    BY <2>1, ChunkFits, Zenon
  <2>3. count \in Nat /\ done + count <= call.len
    <3> HIDE DEF count
    <3> QED
      BY <1>2, <2>2
  <2>4. StoredSoFar'
    <3> HIDE DEF count
    <3> QED
      BY <1>2, <1>5, <2>2, <2>3, StoreStep, Zenon
  <2> QED
    BY <1>1, <1>5, <2>4, TurnStep, Zenon
<1>6. CASE ~(done < call.len) /\ Return(call.len)
  <2>1. done = call.len
    BY <1>2, <1>6
  <2> QED
    BY <1>1, <1>6, <2>1, ReturnStep, Zenon DEF Complete
<1> QED
  BY <1>3, <1>4, <1>5, <1>6, Zenon

\* A call that has not begun.
LEMMA InitMemoryInv ==
  ASSUME Init
  PROVE  MemoryInv
<1>1. /\ Perms /\ Untouched /\ call \in Calls /\ start = 0 /\ phase = "dispatch"
      /\ done = 0 /\ buffer = <<>> /\ out = <<>> /\ ret = 0
  BY Zenon DEF Init, Perms, Untouched
<1>2. /\ Len(out) = 0 /\ Len(out) + done = 0 /\ start + Len(out) = 0 /\ 0 \in Nat
      /\ start \in 0 .. Word - 1
  <2>1. Len(<<>>) = 0
    BY Zenon
  <2>2. Len(out) = 0
    BY <1>1, <2>1, Zenon
  <2>3. 0 + 0 = 0 /\ 0 \in Nat
    OBVIOUS
  <2>4. StatusSize \in Nat /\ StatusSize < Word /\ Word \in Nat
    BY Constants, Zenon
  <2>5. 0 \in 0 .. Word - 1
    BY <2>4
  <2> QED
    BY <1>1, <2>2, <2>3, <2>5, Zenon
<1>3. call.len \in Nat /\ 0 <= call.len
  <2>1. call.len \in Nat
    BY <1>1, CallTypes, Zenon
  <2> QED
    BY <2>1
<1>4. Image(0, 0) = <<>> /\ Span(0, 0) = {} /\ InUser(0, 0)
  BY <1>2, NoBytes, Zenon
<1>5. FetchedSoFar
  BY <1>1, <1>2, <1>3, <1>4, Zenon DEF FetchedSoFar
<1>6. phys \in [PhysMem -> Int] /\ \A x \in PhysMem : phys[x] = x
  <2>1. PhysMem \subseteq Int
    BY DEF PhysMem
  <2> QED
    BY <1>1, <2>1, Zenon DEF Untouched
<1>7. Span(start, done) = {}
  BY <1>1, <1>4, Zenon
<1>8. StoredSoFar
  BY <1>1, <1>2, <1>3, <1>6, <1>7, Zenon DEF StoredSoFar
<1>9. /\ phase \in {"dispatch", "validate", "copy", "returned", "panic"}
      /\ phase \notin {"copy", "returned"} /\ phase # "validate" /\ phase # "copy"
      /\ phase # "returned" /\ ret \in {-EFAULT, call.len, 0}
  BY <1>1
<1> QED
  BY <1>1, <1>2, <1>5, <1>8, <1>9, Zenon DEF MemoryInv

\* MemoryInv is inductive.
LEMMA NextMemoryInv ==
  ASSUME MemoryInv, [Next]_vars
  PROVE  MemoryInv'
<1>1. CASE Next
  BY <1>1, DispatchStep, ValidateStep, CopyFromUserStep, CopyToUserStep, Zenon DEF Next
<1>2. CASE UNCHANGED vars
  <2>1. /\ UNCHANGED <<perm, phys, call, start, done, buffer, out>>
        /\ phase' = phase /\ ret' = ret /\ call' = call /\ start' = start
        /\ done' = done /\ buffer' = buffer /\ out' = out
    BY <1>2, Zenon DEF vars
  <2>2. /\ FetchedSoFar' <=> FetchedSoFar
        /\ StoredSoFar' <=> StoredSoFar
        /\ Validated' <=> Validated
        /\ Complete' <=> Complete
        /\ Perms' <=> Perms
    BY <2>1, CopyStays, Zenon
  <2> QED
    BY <2>1, <2>2, Zenon DEF MemoryInv
<1> QED
  BY <1>1, <1>2, Zenon

\* MemoryInv holds in every reachable state.
LEMMA MemoryInvHolds == Spec => []MemoryInv
<1>1. Init => MemoryInv
  BY InitMemoryInv, Zenon
<1>2. MemoryInv /\ [Next]_vars => MemoryInv'
  BY NextMemoryInv, Zenon
<1> QED
  BY <1>1, <1>2, PTL DEF Spec

-----------------------------------------------------------------------------
(* The results *)

\* validate_user_range, which looks at one byte of each page, accepts exactly
\* the ranges of which every byte may be accessed, for every pointer and length
\* that fit in registers and every choice of mapped pages.
THEOREM ValidationAcceptsUsableRanges == Spec => []ValidationIsExact
<1>1. ASSUME MemoryInv PROVE ValidationIsExact
  BY <1>1, InvFacts, RangeIsExact, Zenon DEF ValidationIsExact
<1> QED
  BY <1>1, MemoryInvHolds, PTL

\* What TypeOK asks of the number of bytes.
LEMMA CountsInRange ==
  ASSUME MemoryInv
  PROVE  done \in 0 .. call.len /\ Len(buffer) <= call.len /\ Len(out) <= call.len
<1>1. call.len \in Nat /\ start \in Nat
  BY InvFacts, Zenon
<1>2. CASE call.op \in FromUser
  <2> DEFINE m == Len(out)
             s == start + m
  <2>1. /\ m \in Nat /\ done \in Nat /\ m + done <= call.len /\ buffer = Image(s, done)
        /\ InUser(start, m + done)
    BY <1>2, InvFacts, Zenon DEF FetchedSoFar
  <2> HIDE DEF m
  <2>2. s \in Nat
    BY <1>1, <2>1
  <2>3. Len(Image(s, done)) = done
    <3>1. InUser(s, done)
      BY <1>1, <2>1, SpanParts, Zenon DEF InUser
    <3> QED
      BY <2>1, <2>2, <3>1, ImageLength, Zenon
  <2>4. Len(buffer) = done
    BY <2>1, <2>3, Zenon
  <2> HIDE DEF s
  <2>5. done \in 0 .. call.len /\ done <= call.len /\ m <= call.len
    BY <1>1, <2>1
  <2> QED
    BY <2>4, <2>5, Zenon DEF m
<1>3. CASE call.op \in ToUser
  <2>1. out = <<>> /\ buffer = <<>> /\ done \in Nat /\ done <= call.len
    BY <1>3, InvFacts, Zenon DEF StoredSoFar
  <2>2. Len(<<>>) = 0 /\ 0 <= call.len /\ done \in 0 .. call.len
    BY <1>1, <2>1
  <2> QED
    BY <2>1, <2>2, Zenon
<1> QED
  BY <1>2, <1>3, InvFacts, Zenon

\* What changes in physical memory.
LEMMA ChangesInRange ==
  ASSUME MemoryInv, NEW x \in PhysMem, phys[x] # x
  PROVE  \E a \in UserBase .. StackTop - 1 :
           a \in Span(start, call.len) /\ Usable(a, "Write") /\ Translate(a) = x
<1>1. call.op \in FromUser => phys[x] = x
  BY InvFacts, Zenon DEF FetchedSoFar, Untouched
<1>2. StoredSoFar
  BY <1>1, InvFacts, Zenon
<1>3. PICK b \in Span(start, done) : Translate(b) = x
  BY <1>2, Zenon DEF StoredSoFar
<1>4. b \in UserAddresses /\ Usable(b, "Write") /\ done \in Nat /\ done <= call.len
  BY <1>2, Zenon DEF StoredSoFar
<1>5. start \in Nat /\ call.len \in Nat
  BY InvFacts, Zenon
<1>6. b \in Span(start, call.len)
  BY <1>4, <1>5 DEF Span
<1> QED
  BY <1>3, <1>4, <1>6, Zenon DEF UserAddresses

\* A call that succeeds has moved exactly the bytes of its range, in order and
\* through frames that need not be adjacent, and no call changes a byte of
\* physical memory outside its range or one the program may not write.
THEOREM CopiesMoveTheirRange == Spec => []TransferIsExact
<1>1. ASSUME MemoryInv PROVE TransferIsExact
  <2>1. TypeOK
    <3>1. DOMAIN phys = PhysMem
      <4>1. Untouched => DOMAIN phys = PhysMem
        BY Zenon DEF Untouched
      <4>2. StoredSoFar => DOMAIN phys = PhysMem
        BY Zenon DEF StoredSoFar
      <4> QED
        BY <1>1, <4>1, <4>2, InvFacts, Zenon DEF FetchedSoFar
    <3>2. ret \in {-EFAULT} \cup 0 .. Word - 1
      <4>1. ret \in {-EFAULT, call.len, 0} /\ call.len \in 0 .. Word - 1
        BY <1>1, InvFacts, Zenon DEF MemoryInv
      <4>2. 0 \in 0 .. Word - 1
        BY <4>1, Constants
      <4> QED
        BY <4>1, <4>2, Zenon
    <3> QED
      BY <1>1, <3>1, <3>2, CountsInRange, Zenon DEF MemoryInv, Perms, TypeOK
  <2>2. ASSUME phase = "returned", ret # -EFAULT
        PROVE  /\ call.op = "write" => out = Image(start, call.len)
               /\ call.op = "open" => buffer = Image(start, call.len)
               /\ call.op \in {"read", "waitpid"} =>
                    \A a \in Span(start, call.len) : phys[Translate(a)] = -(a - start + 1)
    <3>1. Complete /\ start \in Nat
      BY <1>1, <2>2, InvFacts, Zenon DEF MemoryInv
    <3>2. ASSUME call.op = "write" PROVE out = Image(start, call.len)
      <4>1. call.op \in FromUser
        BY <3>2, Zenon DEF FromUser
      <4> QED
        BY <1>1, <3>1, <3>2, <4>1, InvFacts, Zenon DEF FetchedSoFar, Complete
    <3>3. ASSUME call.op = "open" PROVE buffer = Image(start, call.len)
      <4>1. call.op \in FromUser /\ call.op # "write" /\ start + 0 = start
        BY <3>1, <3>3 DEF FromUser
      <4>2. done = call.len /\ Len(out) = 0 /\ buffer = Image(start + Len(out), done)
        BY <1>1, <3>1, <3>3, <4>1, InvFacts, Zenon DEF FetchedSoFar, Complete
      <4> QED
        BY <4>1, <4>2, Zenon
    <3>4. ASSUME call.op \in {"read", "waitpid"}
          PROVE  \A a \in Span(start, call.len) : phys[Translate(a)] = -(a - start + 1)
      <4>1. call.op \in ToUser /\ call.op # "write"
        BY <3>4, Zenon DEF ToUser
      <4> QED
        BY <1>1, <3>1, <4>1, InvFacts, Zenon DEF StoredSoFar, Complete
    <3> QED
      BY <3>2, <3>3, <3>4, Zenon
  <2>3. call.op \in {"write", "open", "read", "waitpid"}
    BY <1>1, InvFacts DEF FromUser, ToUser
  <2>4. ASSUME phase = "returned", ret # -EFAULT
        PROVE  LET bytes == Span(start, call.len) IN
               CASE call.op = "write" ->
                      out = [k \in 1 .. call.len |-> Translate(start + k - 1)]
                 [] call.op = "open" ->
                      buffer = [k \in 1 .. call.len |-> Translate(start + k - 1)]
                 [] call.op \in {"read", "waitpid"} ->
                      \A a \in bytes : phys[Translate(a)] = -(a - start + 1)
    <3>1. /\ call.op = "write" => out = [k \in 1 .. call.len |-> Translate(start + k - 1)]
          /\ call.op = "open" => buffer = [k \in 1 .. call.len |-> Translate(start + k - 1)]
      BY <2>2, <2>4, Zenon DEF Image
    <3> QED
      BY <2>2, <2>3, <2>4, <3>1, Zenon
  <2> QED
    BY <1>1, <2>1, <2>4, ChangesInRange, Zenon DEF TransferIsExact
<1> QED
  BY <1>1, MemoryInvHolds, PTL

\* A copy whose range was validated does not fail: every byte the loops still
\* have to move passes the check that each turn makes again.
THEOREM ValidatedCopiesAlwaysFinish == Spec => ValidatedCopiesFinish
<1>1. ASSUME MemoryInv, [Next]_vars, phase = "copy", call.op \in {"write", "waitpid"}
      PROVE  ret' # -EFAULT
  <2>1. /\ Validated /\ Perms /\ start \in Nat /\ call.len \in Nat /\ ret = 0
        /\ call.op \in FromUser => FetchedSoFar
        /\ call.op \in ToUser => StoredSoFar
    <3>1. call.op \in Checked /\ phase # "returned"
      BY <1>1 DEF Checked
    <3> QED
      BY <1>1, <3>1, InvFacts, Zenon DEF MemoryInv
  <2>2. ret # -EFAULT /\ call.len # -EFAULT
    BY <2>1 DEF EFAULT
  <2>3. ASSUME NEW k \in Nat, k < call.len, NEW access \in Access, access = ValidateAccess(call.op)
        PROVE  ValidByte(start + k, access)
    <3>1. start + k \in Span(start, call.len) /\ start + k \in Nat
      BY <2>1, <2>3 DEF Span
    <3>2. Usable(start + k, access)
      BY <2>1, <2>3, <3>1, Zenon DEF Validated
    <3> QED
      BY <2>1, <3>1, <3>2, UsableByte, Zenon
  <2>4. "Read" \in Access /\ "Write" \in Access
    BY Zenon DEF Access
  <2>5. CASE CopyFromUser
    <3> DEFINE m == Len(out)
               wanted == IF call.op = "write" THEN WriteChunk(call.len - Len(out)) ELSE call.len
               a == start + Len(out) + done
    <3>1. call.op = "write" /\ call.op \in FromUser /\ ValidateAccess(call.op) = "Read"
      BY <1>1, <2>5 DEF CopyFromUser, FromUser, ValidateAccess
    <3>2. wanted \in Nat /\ m + wanted <= call.len /\ m \in Nat /\ done \in Nat
      BY <1>1, <2>1, <3>1, WantedFits, Zenon DEF FetchedSoFar
    <3>3. ASSUME done < wanted PROVE ValidByte(a, "Read")
      <4> HIDE DEF wanted, m
      <4>1. m + done \in Nat /\ m + done < call.len /\ a = start + (m + done)
        BY <2>1, <3>2, <3>3 DEF m
      <4> QED
        BY <2>3, <2>4, <3>1, <4>1, Zenon
    <3>4. ret' = ret \/ Return(call.len)
      BY <2>5, <3>3, Zenon DEF CopyFromUser
    <3> QED
      BY <2>2, <3>4, Zenon DEF Return
  <2>6. CASE CopyToUser
    <3>1. ValidateAccess(call.op) = "Write" /\ call.op \in ToUser
      BY <1>1, <2>6, Zenon DEF CopyToUser, ToUser, ValidateAccess
    <3>2. done \in Nat
      BY <2>1, <3>1, Zenon DEF StoredSoFar
    <3>3. done < call.len => ValidByte(start + done, "Write")
      BY <2>3, <2>4, <3>1, <3>2, Zenon
    <3>4. ret' = ret \/ Return(call.len)
      BY <2>6, <3>3, Zenon DEF CopyToUser
    <3> QED
      BY <2>2, <3>4, Zenon DEF Return
  <2>7. CASE UNCHANGED vars
    BY <2>2, <2>7, Zenon DEF vars
  <2>8. ~Dispatch /\ ~Validate
    BY <1>1, Zenon DEF Dispatch, Validate
  <2> QED
    BY <1>1, <2>5, <2>6, <2>7, <2>8, Zenon DEF Next
<1>2. MemoryInv /\ [Next]_vars =>
        [phase = "copy" /\ call.op \in {"write", "waitpid"} => ret' # -EFAULT]_vars
  BY <1>1, Zenon
<1> QED
  BY <1>2, MemoryInvHolds, PTL DEF Spec, ValidatedCopiesFinish
==============================================================================
