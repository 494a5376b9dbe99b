---------------------------- MODULE ConsoleProofs ----------------------------
(***************************************************************************)
(* Text output, for any size of the screen and of the output buffer, any   *)
(* text and any lengths of writes: the screen shows the last lines of the  *)
(* text with the cursor where the next byte belongs, and the output buffer *)
(* holds exactly the beginning of what was sent.                           *)
(***************************************************************************)
EXTENDS Console, FiniteSetTheorems, TLAPS

-----------------------------------------------------------------------------
(* The inductive invariants *)

\* The output buffer holds what was sent, as much as fits.
BufferInv ==
  /\ sent \in Seq(Printable)
  /\ bytes \in [1 .. Capacity -> Printable \cup {Space}]
  /\ len \in 0 .. Capacity
  /\ len <= Len(sent)
  /\ len < Capacity => len = Len(sent)
  /\ \A i \in 1 .. len : bytes[i] = sent[i]

\* A writer whose cursor is on the screen, or just right of it.
Cells == Bytes \cup {Block, Space, Bios}
IsWriter(w) ==
  w \in [cells : [Rows -> [Columns -> Cells]], row : Rows, column : 0 .. Width]

\* The paragraphs and lines of a text t: what Console says of `text`.
NewlinesIn(t) == {k \in 1 .. Len(t) : t[k] = Newline}

BeforeIn(t, k) == Max({0} \cup {j \in NewlinesIn(t) : j < k})

OffsetIn(t, k) == k - BeforeIn(t, k) - 1

FullBefore(t, k) == OffsetIn(t, k) > 0 /\ OffsetIn(t, k) % Width = 0

BreaksIn(t) == NewlinesIn(t) \cup {k \in 1 .. Len(t) : FullBefore(t, k)}

LineIn(t, k) == Cardinality({j \in BreaksIn(t) : j <= k})

LastLine(t) == Cardinality(BreaksIn(t))

\* The bytes of the last paragraph, and the cursor's column after them.
Rest(t) == OffsetIn(t, Len(t) + 1)

ColumnAfter(n) == IF n = 0 THEN 0 ELSE ((n - 1) % Width) + 1

\* The places of the bytes that are seen, their lines, their columns and how
\* they look.
SeenIn(t) == (1 .. Len(t)) \ NewlinesIn(t)

Lines(t) == [k \in SeenIn(t) |-> LineIn(t, k)]

ColumnsIn(t) == [k \in SeenIn(t) |-> OffsetIn(t, k) % Width]

Looks(t) == [k \in SeenIn(t) |-> Shown(t[k])]

\* A screen scrolled for a cursor on line ln shows the bytes of K, and what was
\* there before or blanks where none of them is.
Shows(w, ln, K, line, col, look) ==
  /\ w.row = ln - ScrolledBy(ln)
  /\ \A r \in Rows, c \in Columns :
       /\ \A k \in K : line[k] = r + ScrolledBy(ln) /\ col[k] = c
                     => w.cells[r][c] = look[k]
       /\ (\A k \in K : ~(line[k] = r + ScrolledBy(ln) /\ col[k] = c))
            => w.cells[r][c] = IF r + ScrolledBy(ln) < Height THEN Bios ELSE Space

\* Every byte of K stands before the cursor.
Precede(K, line, col, ln, c) ==
  \A k \in K : line[k] < ln \/ (line[k] = ln /\ col[k] < c)

\* A writer shows a text, and what was printed stands before the cursor.
Writes(w, t) ==
  /\ IsWriter(w)
  /\ t \in Seq(Bytes)
  /\ BeforeIn(t, Len(t) + 1) \in 0 .. Len(t)
  /\ Lines(t) \in [SeenIn(t) -> Nat] /\ ColumnsIn(t) \in [SeenIn(t) -> Columns]
  /\ Precede(SeenIn(t), Lines(t), ColumnsIn(t), LastLine(t), ColumnAfter(Rest(t)))
  /\ Shows(w, LastLine(t), SeenIn(t), Lines(t), ColumnsIn(t), Looks(t))
  /\ w.column = ColumnAfter(Rest(t))

ScreenInv == Writes([cells |-> cells, row |-> row, column |-> column], text)

-----------------------------------------------------------------------------
(* Operators *)

\* The sizes are numbers.
LEMMA Sizes ==
  /\ Height \in Nat /\ Height > 0 /\ Width \in Nat /\ Width > 0
  /\ Capacity \in Nat /\ Capacity > 0
BY ConsoleAssumption

\* The lesser of two numbers.
LEMMA Lesser ==
  ASSUME NEW a \in Int, NEW b \in Int
  PROVE  Min({a, b}) = IF a <= b THEN a ELSE b
<1>1. \E x \in {a, b} : \A y \in {a, b} : x <= y
  OBVIOUS
<1>2. Min({a, b}) \in {a, b} /\ \A y \in {a, b} : Min({a, b}) <= y
  BY <1>1, Zenon DEF Min
<1> QED  BY <1>2

\* A chunk is a sequence of printable bytes.
LEMMA ChunksAreSequences == \A chunk \in Chunks : chunk \in Seq(Printable)
<1> SUFFICES ASSUME NEW n \in 0 .. MaxChunk, NEW chunk \in [1 .. n -> Printable]
             PROVE  chunk \in Seq(Printable)
  BY Zenon DEF Chunks
<1>1. n \in Nat
  BY ConsoleAssumption
<1> QED  BY <1>1

\* What the concatenation of two byte sequences is.
LEMMA Joined ==
  ASSUME NEW s \in Seq(Printable), NEW t \in Seq(Printable)
  PROVE  /\ s \o t \in Seq(Printable) /\ Len(s \o t) = Len(s) + Len(t)
         /\ \A i \in 1 .. Len(s) + Len(t) :
              (s \o t)[i] = IF i <= Len(s) THEN s[i] ELSE t[i - Len(s)]
<1>1. s \o t \in Seq(Printable)
  OBVIOUS
<1>2. Len(s \o t) = Len(s) + Len(t)
  OBVIOUS
<1>3. ASSUME NEW i \in 1 .. Len(s) + Len(t)
      PROVE  (s \o t)[i] = IF i <= Len(s) THEN s[i] ELSE t[i - Len(s)]
  BY <1>3
<1> QED  BY <1>1, <1>2, <1>3, Zenon

-----------------------------------------------------------------------------
(* OutputBuffer *)

\* push_bytes takes the beginning of a chunk, as much as fits.
LEMMA SendStep ==
  ASSUME BufferInv, NEW chunk \in Seq(Printable), Send(chunk)
  PROVE  BufferInv'
<1> DEFINE n == Len(chunk)
           count == Min({Capacity - len, n})
<1>1. /\ sent' = sent \o chunk /\ len' = len + count
      /\ bytes' = [i \in 1 .. Capacity |->
                     IF i \in len + 1 .. len + count THEN chunk[i - len] ELSE bytes[i]]
  BY Zenon DEF Send, PushBytes
<1>2. /\ sent \in Seq(Printable) /\ bytes \in [1 .. Capacity -> Printable \cup {Space}]
      /\ len \in 0 .. Capacity /\ len <= Len(sent)
      /\ len < Capacity => len = Len(sent)
      /\ \A i \in 1 .. len : bytes[i] = sent[i]
  BY Zenon DEF BufferInv
<1>3. n \in Nat /\ Len(sent) \in Nat /\ \A i \in 1 .. n : chunk[i] \in Printable
  OBVIOUS
<1>4. count = IF Capacity - len <= n THEN Capacity - len ELSE n
  <2>1. Capacity - len \in Int /\ n \in Int
    BY <1>2, <1>3, Sizes
  <2> QED  BY <2>1, Lesser, Zenon
<1> HIDE DEF count
<1>5. count \in Nat /\ count <= n /\ len + count <= Capacity
  BY <1>2, <1>3, <1>4, Sizes
<1>6. /\ sent' \in Seq(Printable) /\ Len(sent') = Len(sent) + n
      /\ \A i \in 1 .. Len(sent) + n :
           sent'[i] = IF i <= Len(sent) THEN sent[i] ELSE chunk[i - Len(sent)]
  <2>1. sent \in Seq(Printable) /\ sent' = sent \o chunk
    BY <1>1, <1>2, Zenon
  <2> QED  BY <2>1, Joined
<1> HIDE DEF n
<1>7. /\ len' \in 0 .. Capacity /\ len' <= Len(sent')
      /\ len' < Capacity => len' = Len(sent')
  <2>1. /\ len' = len + count /\ Len(sent') = Len(sent) + n
        /\ len \in 0 .. Capacity /\ len <= Len(sent) /\ n \in Nat /\ Len(sent) \in Nat
        /\ len < Capacity => len = Len(sent)
    BY <1>1, <1>2, <1>3, <1>6, Zenon
  <2>2. count = n \/ len + count = Capacity
    BY <1>4, <2>1, Sizes
  <2> QED  BY <1>5, <2>1, <2>2, Sizes
<1>8. bytes' \in [1 .. Capacity -> Printable \cup {Space}]
  <2>1. ASSUME NEW i \in 1 .. Capacity, i \in len + 1 .. len + count
        PROVE  chunk[i - len] \in Printable
    <3>1. i - len \in 1 .. n
      BY <1>2, <1>3, <1>5, <2>1, Sizes
    <3> QED  BY <1>3, <3>1, Zenon
  <2> QED  BY <1>1, <1>2, <2>1, Zenon
<1>9. ASSUME NEW i \in 1 .. len'
      PROVE  bytes'[i] = sent'[i]
  <2>1. i \in 1 .. len + count /\ i \in 1 .. Capacity /\ i \in Int
    BY <1>1, <1>2, <1>5, <1>9, Sizes
  <2>2. CASE i <= len
    <3>1. i \in 1 .. len /\ i \notin len + 1 .. len + count /\ i <= Len(sent)
          /\ i \in 1 .. Len(sent) + n
      BY <1>2, <1>3, <2>1, <2>2
    <3> QED  BY <1>1, <1>2, <1>6, <2>1, <3>1, Zenon
  <2>3. CASE ~(i <= len)
    <3>1. len = Len(sent) /\ i \in len + 1 .. len + count
      BY <1>2, <1>5, <2>1, <2>3, Sizes
    <3>2. ~(i <= Len(sent)) /\ i \in 1 .. Len(sent) + n
      BY <1>2, <1>3, <1>5, <2>1, <2>3, <3>1
    <3>3. bytes'[i] = chunk[i - len]
      BY <1>1, <2>1, <3>1, Zenon
    <3>4. sent'[i] = chunk[i - Len(sent)]
      BY <1>6, <3>2, Zenon
    <3> QED  BY <3>1, <3>3, <3>4, Zenon
  <2> QED  BY <2>2, <2>3, Zenon
<1> QED  BY <1>6, <1>7, <1>8, <1>9, Zenon DEF BufferInv

\* Every step keeps what the output buffer holds.
LEMMA NextBufferInv == BufferInv /\ [Next]_vars => BufferInv'
<1> SUFFICES ASSUME BufferInv, [Next]_vars
             PROVE  BufferInv'
  OBVIOUS
<1>1. ASSUME UNCHANGED buffer
      PROVE  BufferInv'
  <2>1. bytes' = bytes /\ len' = len /\ sent' = sent
    BY <1>1, Zenon DEF buffer
  <2> QED  BY <2>1, Zenon DEF BufferInv
<1>2. CASE UNCHANGED vars
  BY <1>1, <1>2, Zenon DEF vars, buffer
<1>3. CASE \E byte \in Bytes : Write(byte)
  BY <1>1, <1>3, Zenon DEF Write
<1>4. CASE \E chunk \in Chunks : Send(chunk)
  BY <1>4, ChunksAreSequences, SendStep, Zenon
<1>5. CASE Clear
  <2>1. len' = 0 /\ sent' = <<>> /\ bytes' = bytes
    BY <1>5, Zenon DEF Clear
  <2>2. <<>> \in Seq(Printable) /\ Len(<<>>) = 0 /\ 0 \in 0 .. Capacity /\ 0 <= 0
        /\ \A i : i \notin 1 .. 0
    BY Sizes
  <2>3. bytes \in [1 .. Capacity -> Printable \cup {Space}]
    BY Zenon DEF BufferInv
  <2> QED  BY <2>1, <2>2, <2>3, Zenon DEF BufferInv
<1> QED  BY <1>2, <1>3, <1>4, <1>5, Zenon DEF Next

\* The output buffer is empty at boot.
LEMMA InitBufferInv == Init => BufferInv
<1> SUFFICES ASSUME Init
             PROVE  BufferInv
  OBVIOUS
<1>1. bytes = [i \in 1 .. Capacity |-> Space] /\ len = 0 /\ sent = <<>>
  BY Zenon DEF Init
<1>2. <<>> \in Seq(Printable) /\ Len(<<>>) = 0 /\ 0 \in 0 .. Capacity /\ 0 <= 0
      /\ \A i : i \notin 1 .. 0
  BY Sizes
<1> QED  BY <1>1, <1>2, Zenon DEF BufferInv

\* What is remembered, place by place.
LEMMA RememberedBytes ==
  ASSUME BufferInv
  PROVE  /\ Remembered \in Seq(Printable) /\ Len(Remembered) = len
         /\ \A i \in 1 .. len : Remembered[i] = bytes[i]
<1>1. /\ sent \in Seq(Printable) /\ len \in 0 .. Capacity /\ len <= Len(sent)
      /\ len < Capacity => len = Len(sent)
      /\ \A i \in 1 .. len : bytes[i] = sent[i]
  BY Zenon DEF BufferInv
<1>2. Len(sent) \in Nat
  BY <1>1
<1>3. Min({Len(sent), Capacity}) = len
  <2>1. Min({Len(sent), Capacity}) = IF Len(sent) <= Capacity THEN Len(sent) ELSE Capacity
    <3>1. Len(sent) \in Int /\ Capacity \in Int
      BY <1>2, Sizes
    <3> QED  BY <3>1, Lesser, Zenon
  <2> QED  BY <1>1, <1>2, <2>1, Sizes
<1>4. Remembered = SubSeq(sent, 1, len)
  BY <1>3, Zenon DEF Remembered
<1>5. ASSUME NEW s \in Seq(Printable), NEW n \in Nat, n <= Len(s)
      PROVE  /\ SubSeq(s, 1, n) \in Seq(Printable)
             /\ Len(SubSeq(s, 1, n)) = n
             /\ \A i \in 1 .. n : SubSeq(s, 1, n)[i] = s[i]
  BY <1>5
<1>6. len \in Nat
  BY <1>1, Sizes
<1>7. /\ SubSeq(sent, 1, len) \in Seq(Printable)
      /\ Len(SubSeq(sent, 1, len)) = len
      /\ \A i \in 1 .. len : SubSeq(sent, 1, len)[i] = sent[i]
  BY <1>1, <1>5, <1>6, Zenon
<1> QED  BY <1>1, <1>4, <1>7, Zenon

\* A part of the buffer is a sequence of bytes.
LEMMA PartOfBuffer ==
  ASSUME BufferInv, NEW i \in Nat, NEW n \in Nat, i + n <= Capacity
  PROVE  /\ SubSeq(bytes, i + 1, i + n) \in Seq(Printable \cup {Space})
         /\ Len(SubSeq(bytes, i + 1, i + n)) = n
         /\ \A j \in 1 .. n : SubSeq(bytes, i + 1, i + n)[j] = bytes[i + j]
<1> DEFINE B == Printable \cup {Space}
<1>1. bytes \in [1 .. Capacity -> B] /\ Capacity \in Nat
  BY Sizes, Zenon DEF BufferInv
<1> HIDE DEF B
<1>2. bytes \in Seq(B) /\ Len(bytes) = Capacity
  BY <1>1
<1>3. ASSUME NEW s \in Seq(B), i + n <= Len(s)
      PROVE  /\ SubSeq(s, i + 1, i + n) \in Seq(B)
             /\ Len(SubSeq(s, i + 1, i + n)) = n
             /\ \A j \in 1 .. n : SubSeq(s, i + 1, i + n)[j] = s[i + j]
  BY <1>3
<1>4. i + n <= Len(bytes)
  BY <1>2, Zenon
<1> QED  BY <1>2, <1>3, <1>4, Zenon DEF B

\* Sequences of the same length with the same bytes are the same.
LEMMA SameSequence ==
  ASSUME NEW B, NEW s \in Seq(B), NEW t \in Seq(B), Len(s) = Len(t),
         \A j \in 1 .. Len(s) : s[j] = t[j]
  PROVE  s = t
OBVIOUS
\* The buffer's content is what is remembered.
LEMMA BufferContent ==
  ASSUME BufferInv
  PROVE  SubSeq(bytes, 1, len) = Remembered
<1>1. len \in Nat /\ len <= Capacity /\ 0 \in Nat
  BY Sizes DEF BufferInv
<1> DEFINE B == Printable \cup {Space}
<1>2. /\ SubSeq(bytes, 0 + 1, 0 + len) \in Seq(B)
      /\ Len(SubSeq(bytes, 0 + 1, 0 + len)) = len
      /\ \A j \in 1 .. len : SubSeq(bytes, 0 + 1, 0 + len)[j] = bytes[0 + j]
  BY <1>1, PartOfBuffer
<1> HIDE DEF B
<1>3. 0 + 1 = 1 /\ 0 + len = len /\ \A j \in 1 .. len : 0 + j = j
  BY <1>1
<1>4. /\ SubSeq(bytes, 1, len) \in Seq(B) /\ Len(SubSeq(bytes, 1, len)) = len
      /\ \A j \in 1 .. len : SubSeq(bytes, 1, len)[j] = bytes[j]
  BY <1>2, <1>3, Zenon
<1>5. Seq(Printable) \subseteq Seq(B)
  BY DEF B
<1>6. /\ Remembered \in Seq(B) /\ Len(Remembered) = len
      /\ \A i \in 1 .. len : Remembered[i] = bytes[i]
  BY <1>5, RememberedBytes, Zenon
<1> QED  BY <1>4, <1>6, SameSequence, Zenon

\* output_contains finds a needle exactly where it occurs in what is
\* remembered, however long the needle is.
LEMMA ContainsIsExact ==
  ASSUME BufferInv, NEW needle \in Seq(Printable)
  PROVE  Contains(needle) <=>
           \E i \in 0 .. Len(Remembered) - Len(needle) :
             \A j \in 1 .. Len(needle) : Remembered[i + j] = needle[j]
<1> DEFINE n == Len(needle)
           B == Printable \cup {Space}
<1>1. len \in Nat /\ len <= Capacity /\ n \in Nat /\ needle \in Seq(B)
  BY Sizes DEF BufferInv
<1>2. Len(Remembered) = len /\ \A i \in 1 .. len : Remembered[i] = bytes[i]
  BY RememberedBytes, Zenon
<1>3. ASSUME NEW i \in 0 .. len - n
      PROVE  SubSeq(bytes, i + 1, i + n) = needle
             <=> \A j \in 1 .. n : Remembered[i + j] = needle[j]
  <2>1. i \in Nat /\ i + n <= Capacity
    BY <1>1, <1>3, Sizes
  <2>2. /\ SubSeq(bytes, i + 1, i + n) \in Seq(B)
        /\ Len(SubSeq(bytes, i + 1, i + n)) = n
        /\ \A j \in 1 .. n : SubSeq(bytes, i + 1, i + n)[j] = bytes[i + j]
    BY <1>1, <2>1, PartOfBuffer, Zenon
  <2>3. ASSUME NEW j \in 1 .. n
        PROVE  bytes[i + j] = Remembered[i + j]
    <3>1. i + j \in 1 .. len
      BY <1>1, <2>3
    <3> QED  BY <1>2, <3>1, Zenon
  <2> DEFINE part == SubSeq(bytes, i + 1, i + n)
  <2>4. ASSUME \A j \in 1 .. n : part[j] = needle[j]
        PROVE  part = needle
    <3>1. Len(part) = Len(needle) /\ \A j \in 1 .. Len(part) : part[j] = needle[j]
      BY <2>2, <2>4, Zenon
    <3> QED  BY <1>1, <2>2, <3>1, SameSequence, Zenon
  <2> QED  BY <2>2, <2>3, <2>4, Zenon
<1>4. needle = <<>> => n = 0
  OBVIOUS
<1>5. n = 0 => needle = <<>>
  OBVIOUS
<1> HIDE DEF n, B
<1>6. Contains(needle)
      <=> \/ needle = <<>>
          \/ /\ n <= len
             /\ \E i \in 0 .. len - n : SubSeq(bytes, i + 1, i + n) = needle
  BY Zenon DEF Contains, n
<1>7. n = 0 => 0 \in 0 .. len - n /\ \A j : j \notin 1 .. n
  BY <1>1
<1>8. ASSUME NEW i \in 0 .. len - n
      PROVE  n <= len
  BY <1>1
<1>9. Contains(needle) <=> \E i \in 0 .. len - n : SubSeq(bytes, i + 1, i + n) = needle
  <2>1. ASSUME n = 0
        PROVE  SubSeq(bytes, 0 + 1, 0 + n) = needle
    BY <1>3, <1>7, <2>1, Zenon
  <2> QED  BY <1>4, <1>6, <1>7, <1>8, <2>1, Zenon
<1>10. Contains(needle)
       <=> \E i \in 0 .. len - n : \A j \in 1 .. n : Remembered[i + j] = needle[j]
  BY <1>3, <1>9, Zenon
<1> QED  BY <1>2, <1>10, Zenon DEF n

\* The output buffer holds the beginning of what was sent since it was
\* cleared, as much as fits, and output_contains finds exactly what occurs
\* there, for every capacity and every length of the writes.
THEOREM BufferIsExactTheorem == Spec => []BufferIsExact
<1>1. BufferInv => BufferIsExact
  BY BufferContent, ContainsIsExact, ChunksAreSequences, Zenon DEF BufferIsExact
<1> QED  BY <1>1, InitBufferInv, NextBufferInv, PTL DEF Spec
-----------------------------------------------------------------------------
(* Writer *)

\* The greater of two numbers.
LEMMA Greater ==
  ASSUME NEW a \in Int, NEW b \in Int
  PROVE  Max({a, b}) = IF a <= b THEN b ELSE a
<1>1. \E x \in {a, b} : \A y \in {a, b} : x >= y
  OBVIOUS
<1>2. Max({a, b}) \in {a, b} /\ \A y \in {a, b} : Max({a, b}) >= y
  BY <1>1, Zenon DEF Max
<1> QED  BY <1>2

\* How far the screen is scrolled.
LEMMA Scrolling ==
  ASSUME NEW ln \in Nat
  PROVE  /\ ScrolledBy(ln) \in Nat
         /\ ScrolledBy(ln) = IF ln < Height THEN 0 ELSE ln - (Height - 1)
<1>1. 0 \in Int /\ ln - (Height - 1) \in Int
  BY Sizes
<1>2. ScrolledBy(ln) = IF 0 <= ln - (Height - 1) THEN ln - (Height - 1) ELSE 0
  BY <1>1, Greater, Zenon DEF ScrolledBy
<1> QED  BY <1>2, Sizes

\* The fields of a writer.
LEMMA WriterFields ==
  ASSUME NEW w, IsWriter(w)
  PROVE  /\ w.cells \in [Rows -> [Columns -> Cells]] /\ w.row \in Rows
         /\ w.column \in 0 .. Width
BY DEF IsWriter

\* A new line above the last row moves the cursor only.
LEMMA NewLineMoves ==
  ASSUME NEW w, IsWriter(w), w.row + 1 < Height
  PROVE  /\ IsWriter(AtNewLine(w)) /\ AtNewLine(w).cells = w.cells
         /\ AtNewLine(w).row = w.row + 1 /\ AtNewLine(w).column = 0
<1>1. AtNewLine(w) = [w EXCEPT !.row = @ + 1, !.column = 0]
  BY Zenon DEF AtNewLine
<1>2. AtNewLine(w) = [cells |-> w.cells, row |-> w.row + 1, column |-> 0]
  BY <1>1 DEF IsWriter
<1>3. w.row + 1 \in Rows /\ 0 \in 0 .. Width
  BY WriterFields, Sizes DEF Rows
<1> HIDE DEF AtNewLine
<1> QED  BY <1>2, <1>3, WriterFields DEF IsWriter

\* A new line on the last row scrolls.
LEMMA NewLineScrolls ==
  ASSUME NEW w, IsWriter(w), ~(w.row + 1 < Height)
  PROVE  /\ IsWriter(AtNewLine(w)) /\ AtNewLine(w).cells = ScrollUp(w.cells)
         /\ AtNewLine(w).row = w.row /\ AtNewLine(w).column = 0
<1>1. AtNewLine(w) = [w EXCEPT !.cells = ScrollUp(@), !.column = 0]
  BY Zenon DEF AtNewLine
<1> DEFINE s == ScrollUp(w.cells)
<1>2. AtNewLine(w) = [cells |-> s, row |-> w.row, column |-> 0]
  BY <1>1 DEF IsWriter
<1>3. s \in [Rows -> [Columns -> Cells]]
  <2>1. w.cells \in [Rows -> [Columns -> Cells]]
    BY WriterFields, Zenon
  <2>2. [col \in Columns |-> Space] \in [Columns -> Cells]
    BY Zenon DEF Cells
  <2> QED  BY <2>1, <2>2, Zenon DEF ScrollUp
<1> HIDE DEF s
<1>4. 0 \in 0 .. Width
  BY Sizes
<1>5. IsWriter(AtNewLine(w))
  BY <1>2, <1>3, <1>4, WriterFields DEF IsWriter
<1>6. AtNewLine(w).cells = s /\ AtNewLine(w).row = w.row /\ AtNewLine(w).column = 0
  BY <1>2
<1> QED  BY <1>5, <1>6, Zenon DEF s

\* A byte put on the screen.
LEMMA PutFields ==
  ASSUME NEW w, IsWriter(w), w.column \in Columns, NEW byte \in Cells
  PROVE  /\ IsWriter(Put(w, byte))
         /\ Put(w, byte).row = w.row /\ Put(w, byte).column = w.column + 1
         /\ Put(w, byte).cells[w.row][w.column] = byte
         /\ \A r \in Rows, c \in Columns :
              ~(r = w.row /\ c = w.column) => Put(w, byte).cells[r][c] = w.cells[r][c]
<1> DEFINE s == [w.cells EXCEPT ![w.row][w.column] = byte]
<1>1. Put(w, byte) = [cells |-> s, row |-> w.row, column |-> w.column + 1]
  <2>1. Put(w, byte) = [w EXCEPT !.cells = s, !.column = @ + 1]
    BY DEF Put
  <2> HIDE DEF s
  <2> QED  BY <2>1 DEF IsWriter
<1>2. w.cells \in [Rows -> [Columns -> Cells]] /\ w.row \in Rows
  BY WriterFields, Zenon
<1>3. /\ s \in [Rows -> [Columns -> Cells]] /\ s[w.row][w.column] = byte
      /\ \A r \in Rows, c \in Columns :
           ~(r = w.row /\ c = w.column) => s[r][c] = w.cells[r][c]
  BY <1>2
<1> HIDE DEF s
<1>4. w.column + 1 \in 0 .. Width
  BY Sizes DEF Columns
<1> DEFINE v == Put(w, byte)
<1>5. v.cells = s /\ v.row = w.row /\ v.column = w.column + 1
  BY <1>1
<1>6. IsWriter(v)
  BY <1>1, <1>2, <1>3, <1>4 DEF IsWriter
<1> QED  BY <1>3, <1>5, <1>6, Zenon
\* What a screen shows, cell by cell.
Cell(w, s, K, line, col, look, r, c) ==
  /\ \A k \in K : line[k] = r + s /\ col[k] = c => w.cells[r][c] = look[k]
  /\ (\A k \in K : ~(line[k] = r + s /\ col[k] = c))
       => w.cells[r][c] = IF r + s < Height THEN Bios ELSE Space

LEMMA CellByCell ==
  ASSUME NEW w, NEW ln, NEW K, NEW line, NEW col, NEW look
  PROVE  Shows(w, ln, K, line, col, look)
         <=> /\ w.row = ln - ScrolledBy(ln)
             /\ \A r \in Rows, c \in Columns :
                  Cell(w, ScrolledBy(ln), K, line, col, look, r, c)
BY Zenon DEF Shows, Cell

\* A new line: the screen shows the same bytes with the cursor a line further
\* down.
LEMMA NewLineShows ==
  ASSUME NEW w, IsWriter(w), NEW ln \in Nat, NEW K, NEW line \in [K -> Nat], NEW col,
         NEW look, Shows(w, ln, K, line, col, look), \A k \in K : line[k] <= ln,
         NEW m \in Nat, m = ln + 1
  PROVE  Shows(AtNewLine(w), m, K, line, col, look)
<1> DEFINE v == AtNewLine(w)
           s == ScrolledBy(ln)
           t == ScrolledBy(m)
<1>1. /\ s \in Nat /\ s = IF ln < Height THEN 0 ELSE ln - (Height - 1)
      /\ t \in Nat /\ t = IF m < Height THEN 0 ELSE m - (Height - 1)
  <2>1. s \in Nat /\ s = IF ln < Height THEN 0 ELSE ln - (Height - 1)
    BY Scrolling, Zenon
  <2>2. t \in Nat /\ t = IF m < Height THEN 0 ELSE m - (Height - 1)
    BY Scrolling, Zenon
  <2> QED  BY <2>1, <2>2, Zenon
<1>2. /\ w.row = ln - s
      /\ \A r \in Rows, c \in Columns : Cell(w, s, K, line, col, look, r, c)
  BY CellByCell, Zenon
<1>3. w.row \in Rows /\ Rows = 0 .. Height - 1
  BY WriterFields, Zenon DEF Rows
<1> HIDE DEF s, t, v
<1>4. CASE w.row + 1 < Height
  <2>1. s = 0 /\ t = s /\ w.row + 1 = m - t
    BY <1>1, <1>2, <1>3, <1>4, Sizes
  <2>2. v.cells = w.cells /\ v.row = w.row + 1
    BY <1>4, NewLineMoves, Zenon DEF v
  <2>3. ASSUME NEW r \in Rows, NEW c \in Columns
        PROVE  Cell(v, t, K, line, col, look, r, c)
    BY <1>2, <2>1, <2>2, Zenon DEF Cell
  <2>4. v.row = m - t
        /\ \A r \in Rows, c \in Columns : Cell(v, t, K, line, col, look, r, c)
    BY <2>1, <2>2, <2>3, Zenon
  <2> QED  BY <2>4, CellByCell, Zenon DEF v, t
<1>5. CASE ~(w.row + 1 < Height)
  <2>1. w.row = Height - 1 /\ t = s + 1 /\ w.row = m - t /\ ln = Height - 1 + s
    BY <1>1, <1>2, <1>3, <1>5, Sizes
  <2>2. v.cells = ScrollUp(w.cells) /\ v.row = w.row
    BY <1>5, NewLineScrolls, Zenon DEF v
  <2>3. ASSUME NEW r \in Rows, NEW c \in Columns
        PROVE  Cell(v, t, K, line, col, look, r, c)
    <3>1. CASE r + 1 \in Rows
      <4>1. v.cells[r] = w.cells[r + 1]
        BY <2>2, <3>1, Zenon DEF ScrollUp
      <4>2. r + t = (r + 1) + s
        BY <1>1, <1>3, <2>1, Sizes
      <4>3. Cell(w, s, K, line, col, look, r + 1, c)
        BY <1>2, <3>1, Zenon
      <4> QED  BY <4>1, <4>2, <4>3, Zenon DEF Cell
    <3>2. CASE r + 1 \notin Rows
      <4>1. v.cells[r][c] = Space
        <5>1. v.cells[r] = [x \in Columns |-> Space]
          BY <2>2, <3>2, Zenon DEF ScrollUp
        <5> QED  BY <5>1, Zenon
      <4>2. r + t = m /\ ~(r + t < Height)
        BY <1>1, <1>3, <2>1, <3>2, Sizes
      <4>3. ASSUME NEW k \in K
            PROVE  line[k] # r + t
        <5>1. line[k] <= ln /\ line[k] \in Nat
          OBVIOUS
        <5> QED  BY <4>2, <5>1
      <4> QED  BY <4>1, <4>2, <4>3, Zenon DEF Cell
    <3> QED  BY <3>1, <3>2, Zenon
  <2>4. v.row = m - t
        /\ \A r \in Rows, c \in Columns : Cell(v, t, K, line, col, look, r, c)
    BY <2>1, <2>2, <2>3, Zenon
  <2> QED  BY <2>4, CellByCell, Zenon DEF v, t
<1> QED  BY <1>4, <1>5, Zenon

\* The functions that describe the bytes, with one byte more.
Grows(K, f, k, x, f2) == (\A j \in K : f2[j] = f[j]) /\ f2[k] = x

\* A byte put where none was: the screen shows it too.
LEMMA PutShows ==
  ASSUME NEW w, IsWriter(w), w.column \in Columns, NEW byte \in Cells, NEW ln \in Nat,
         NEW K, NEW line, NEW col, NEW look, Shows(w, ln, K, line, col, look),
         \A j \in K : ~(line[j] = ln /\ col[j] = w.column),
         NEW k, NEW line2, NEW col2, NEW look2,
         Grows(K, line, k, ln, line2), Grows(K, col, k, w.column, col2),
         Grows(K, look, k, byte, look2)
  PROVE  Shows(Put(w, byte), ln, K \cup {k}, line2, col2, look2)
<1> DEFINE v == Put(w, byte)
           s == ScrolledBy(ln)
<1>1. /\ w.row = ln - s
      /\ \A r \in Rows, c \in Columns : Cell(w, s, K, line, col, look, r, c)
  BY CellByCell, Zenon
<1>2. s \in Nat
  BY Scrolling, Zenon
<1>3. /\ v.row = w.row /\ v.cells[w.row][w.column] = byte
      /\ \A r \in Rows, c \in Columns :
           ~(r = w.row /\ c = w.column) => v.cells[r][c] = w.cells[r][c]
  <2>1. v.row = w.row /\ v.cells[w.row][w.column] = byte
    BY PutFields
  <2>2. ASSUME NEW r \in Rows, NEW c \in Columns, ~(r = w.row /\ c = w.column)
        PROVE  v.cells[r][c] = w.cells[r][c]
    BY PutFields, <2>2
  <2> QED  BY <2>1, <2>2, Zenon
<1>4. /\ line2[k] = ln /\ col2[k] = w.column /\ look2[k] = byte
      /\ \A j \in K : line2[j] = line[j] /\ col2[j] = col[j] /\ look2[j] = look[j]
  BY Zenon DEF Grows
<1> HIDE DEF s, v
<1>5. ASSUME NEW r \in Rows
      PROVE  r + s = ln <=> r = w.row
  BY <1>1, <1>2 DEF Rows
<1>6. ASSUME NEW r \in Rows, NEW c \in Columns
      PROVE  Cell(v, s, K \cup {k}, line2, col2, look2, r, c)
  <2>1. Cell(w, s, K, line, col, look, r, c)
    BY <1>1, Zenon
  <2>2. CASE r = w.row /\ c = w.column
    <3>1. r + s = ln /\ v.cells[r][c] = byte
      BY <1>3, <1>5, <2>2, Zenon
    <3>2. ASSUME NEW j \in K \cup {k}, line2[j] = r + s /\ col2[j] = c
          PROVE  look2[j] = byte
      BY <1>4, <2>2, <3>1, <3>2, Zenon
    <3>3. line2[k] = r + s /\ col2[k] = c /\ k \in K \cup {k}
      BY <1>4, <2>2, <3>1, Zenon
    <3> QED  BY <3>1, <3>2, <3>3, Zenon DEF Cell
  <2>3. CASE ~(r = w.row /\ c = w.column)
    <3>1. v.cells[r][c] = w.cells[r][c]
      BY <1>3, <2>3, Zenon
    <3>2. ~(line2[k] = r + s /\ col2[k] = c)
      BY <1>4, <1>5, <2>3, Zenon
    <3>3. ASSUME NEW j \in K \cup {k}, line2[j] = r + s /\ col2[j] = c
          PROVE  j \in K /\ line[j] = r + s /\ col[j] = c /\ look2[j] = look[j]
      BY <1>4, <3>2, <3>3, Zenon
    <3>4. (\A j \in K \cup {k} : ~(line2[j] = r + s /\ col2[j] = c))
          => \A j \in K : ~(line[j] = r + s /\ col[j] = c)
      BY <1>4, Zenon
    <3> QED  BY <2>1, <3>1, <3>3, <3>4, Zenon DEF Cell
  <2> QED  BY <2>2, <2>3, Zenon
<1> QED  BY <1>1, <1>3, <1>6, CellByCell, Zenon DEF s, v
-----------------------------------------------------------------------------
(* A text with one byte more *)

\* What the longer text is.
LEMMA LongerText ==
  ASSUME NEW t \in Seq(Bytes), NEW byte \in Bytes, NEW u, u = Append(t, byte)
  PROVE  /\ u \in Seq(Bytes) /\ Len(t) \in Nat /\ Len(u) = Len(t) + 1
         /\ u[Len(t) + 1] = byte
         /\ \A k \in 1 .. Len(t) : u[k] = t[k]
OBVIOUS

\* Places in the longer text.
LEMMA Places ==
  ASSUME NEW n \in Nat
  PROVE  /\ 1 .. n + 1 = (1 .. n) \cup {n + 1} /\ n + 1 \notin 1 .. n
         /\ \A k \in 1 .. n : k <= n + 1 /\ ~(n + 1 <= k) /\ ~(n + 1 < k) /\ k < n + 1
         /\ ~(n + 1 < n + 1) /\ n + 1 <= n + 1 /\ n + 1 \in Nat
OBVIOUS

\* Its newlines.
LEMMA LongerNewlines ==
  ASSUME NEW t \in Seq(Bytes), NEW byte \in Bytes, NEW u, u = Append(t, byte)
  PROVE  /\ NewlinesIn(t) \subseteq 1 .. Len(t)
         /\ byte = Newline => NewlinesIn(u) = NewlinesIn(t) \cup {Len(t) + 1}
         /\ byte # Newline => NewlinesIn(u) = NewlinesIn(t)
<1> DEFINE n == Len(t)
<1>1. n \in Nat /\ Len(u) = n + 1 /\ u[n + 1] = byte /\ \A k \in 1 .. n : u[k] = t[k]
  BY LongerText
<1>2. 1 .. n + 1 = (1 .. n) \cup {n + 1}
  BY <1>1, Places, Zenon
<1>3. NewlinesIn(u) = {k \in (1 .. n) \cup {n + 1} : u[k] = Newline}
  BY <1>1, <1>2, Zenon DEF NewlinesIn
<1>4. NewlinesIn(t) = {k \in 1 .. n : t[k] = Newline}
  BY Zenon DEF NewlinesIn
<1> HIDE DEF n
<1>5. NewlinesIn(t) \subseteq 1 .. n
  BY <1>4, Zenon
<1>6. byte = Newline => NewlinesIn(u) = NewlinesIn(t) \cup {n + 1}
  BY <1>1, <1>3, <1>4, Zenon
<1>7. byte # Newline => NewlinesIn(u) = NewlinesIn(t)
  BY <1>1, <1>3, <1>4, Zenon
<1> QED  BY <1>5, <1>6, <1>7, Zenon DEF n

\* A byte's offset does not depend on what follows it.
LEMMA OffsetsStay ==
  ASSUME NEW t \in Seq(Bytes), NEW byte \in Bytes, NEW u, u = Append(t, byte),
         NEW k \in 1 .. Len(t) + 1
  PROVE  OffsetIn(u, k) = OffsetIn(t, k)
<1>1. Len(t) \in Nat
  OBVIOUS
<1>2. ~(Len(t) + 1 < k)
  BY <1>1
<1>3. {j \in NewlinesIn(u) : j < k} = {j \in NewlinesIn(t) : j < k}
  <2>1. \/ NewlinesIn(u) = NewlinesIn(t) \cup {Len(t) + 1}
        \/ NewlinesIn(u) = NewlinesIn(t)
    BY LongerNewlines, Zenon
  <2> QED  BY <1>2, <2>1, Zenon
<1> QED  BY <1>3, Zenon DEF OffsetIn, BeforeIn

\* The rest after the byte: none after a newline, else a byte more.
LEMMA LongerRest ==
  ASSUME NEW t \in Seq(Bytes), NEW byte \in Bytes, NEW u, u = Append(t, byte),
         BeforeIn(t, Len(t) + 1) \in 0 .. Len(t)
  PROVE  /\ Rest(t) \in Nat /\ BeforeIn(u, Len(u) + 1) \in 0 .. Len(u)
         /\ byte = Newline => Rest(u) = 0
         /\ byte # Newline => Rest(u) = Rest(t) + 1
<1> DEFINE n == Len(t)
           x == BeforeIn(t, n + 1)
           y == BeforeIn(u, n + 1 + 1)
<1>1. n \in Nat /\ Len(u) = n + 1
  BY LongerText
<1>2. NewlinesIn(t) \subseteq 1 .. n
  BY LongerNewlines, Zenon
<1>3. x = Max({0} \cup NewlinesIn(t))
  <2>1. {j \in NewlinesIn(t) : j < n + 1} = NewlinesIn(t)
    BY <1>1, <1>2, Places, Zenon
  <2> QED  BY <2>1, Zenon DEF BeforeIn
<1>4. y = Max({0} \cup {j \in NewlinesIn(u) : j < n + 1 + 1})
  BY Zenon DEF BeforeIn
<1>5. /\ Rest(t) = (n + 1) - x - 1 /\ Rest(u) = (n + 1 + 1) - y - 1
      /\ BeforeIn(u, Len(u) + 1) = y
  BY <1>1, Zenon DEF Rest, OffsetIn
<1>6. x \in 0 .. n
  OBVIOUS
<1> HIDE DEF n, x, y
<1>7. Rest(t) = n - x /\ Rest(t) \in Nat
  BY <1>1, <1>5, <1>6
<1>8. CASE byte = Newline
  <2>1. NewlinesIn(u) = NewlinesIn(t) \cup {n + 1}
    BY <1>8, LongerNewlines, Zenon DEF n
  <2> DEFINE S == {0} \cup {j \in NewlinesIn(u) : j < n + 1 + 1}
  <2>2. n + 1 \in S /\ \A j \in S : j \in Nat /\ n + 1 >= j
    BY <1>1, <1>2, <2>1
  <2>3. y = Max(S)
    BY <1>4, Zenon
  <2> HIDE DEF S
  <2>4. Max(S) \in S /\ \A j \in S : Max(S) >= j
    BY <2>2, Zenon DEF Max
  <2>5. y = n + 1
    BY <1>1, <2>2, <2>3, <2>4
  <2>6. y \in 0 .. n + 1 /\ Rest(u) = 0
    BY <1>1, <1>5, <2>5
  <2> QED  BY <1>1, <1>5, <1>7, <1>8, <2>6, Zenon
<1>9. CASE byte # Newline
  <2>1. NewlinesIn(u) = NewlinesIn(t)
    BY <1>9, LongerNewlines, Zenon
  <2>2. ASSUME NEW j \in NewlinesIn(t)
        PROVE  j < n + 1 + 1
    BY <1>1, <1>2, <2>2
  <2>3. {j \in NewlinesIn(u) : j < n + 1 + 1} = NewlinesIn(t)
    BY <2>1, <2>2, Zenon
  <2>4. y = x
    BY <1>3, <1>4, <2>3, Zenon
  <2>5. y \in 0 .. n + 1 /\ Rest(u) = Rest(t) + 1
    BY <1>1, <1>5, <1>6, <1>7, <2>4
  <2> QED  BY <1>1, <1>5, <1>7, <1>9, <2>5, Zenon
<1> QED  BY <1>8, <1>9, Zenon

\* A line that is full when the byte comes.
Breaking(t, byte) == byte = Newline \/ FullBefore(t, Len(t) + 1)

\* The breaks of the longer text, and so the number of its last line.
LEMMA LongerBreaks ==
  ASSUME NEW t \in Seq(Bytes), NEW byte \in Bytes, NEW u, u = Append(t, byte)
  PROVE  /\ BreaksIn(t) \subseteq 1 .. Len(t)
         /\ Breaking(t, byte) => BreaksIn(u) = BreaksIn(t) \cup {Len(t) + 1}
         /\ ~Breaking(t, byte) => BreaksIn(u) = BreaksIn(t)
<1> DEFINE n == Len(t)
<1>1. n \in Nat /\ Len(u) = n + 1
  BY LongerText
<1>2. 1 .. n + 1 = (1 .. n) \cup {n + 1}
  BY <1>1, Places, Zenon
<1>3. \A k \in (1 .. n) \cup {n + 1} : FullBefore(u, k) <=> FullBefore(t, k)
  BY <1>2, OffsetsStay, Zenon DEF FullBefore
<1>4. BreaksIn(u) = NewlinesIn(u) \cup {k \in (1 .. n) \cup {n + 1} : FullBefore(t, k)}
  <2>1. BreaksIn(u) = NewlinesIn(u) \cup {k \in (1 .. n) \cup {n + 1} : FullBefore(u, k)}
    BY <1>1, <1>2, Zenon DEF BreaksIn
  <2>2. {k \in (1 .. n) \cup {n + 1} : FullBefore(u, k)}
        = {k \in (1 .. n) \cup {n + 1} : FullBefore(t, k)}
    BY <1>3, Zenon
  <2> QED  BY <2>1, <2>2, Zenon
<1>5. BreaksIn(t) = NewlinesIn(t) \cup {k \in 1 .. n : FullBefore(t, k)}
  BY Zenon DEF BreaksIn
<1>6. /\ NewlinesIn(t) \subseteq 1 .. n
      /\ byte = Newline => NewlinesIn(u) = NewlinesIn(t) \cup {n + 1}
      /\ byte # Newline => NewlinesIn(u) = NewlinesIn(t)
  BY LongerNewlines, Zenon
<1> HIDE DEF n
<1>7. BreaksIn(t) \subseteq 1 .. n
  BY <1>5, <1>6, Zenon
<1>8. Breaking(t, byte) <=> byte = Newline \/ FullBefore(t, n + 1)
  BY Zenon DEF Breaking, n
<1>9. Breaking(t, byte) => BreaksIn(u) = BreaksIn(t) \cup {n + 1}
  BY <1>4, <1>5, <1>6, <1>8, Zenon
<1>10. ~Breaking(t, byte) => BreaksIn(u) = BreaksIn(t)
  BY <1>4, <1>5, <1>6, <1>8, Zenon
<1> QED  BY <1>7, <1>9, <1>10, Zenon DEF n

\* The last line after the byte.
Advances(t, byte, u) ==
  /\ Breaking(t, byte) => LastLine(u) = LastLine(t) + 1
  /\ ~Breaking(t, byte) => LastLine(u) = LastLine(t)

\* The last line's number, and the line of the new byte.
LEMMA LongerLines ==
  ASSUME NEW t \in Seq(Bytes), NEW byte \in Bytes, NEW u, u = Append(t, byte)
  PROVE  /\ LastLine(t) \in Nat /\ Advances(t, byte, u)
         /\ LineIn(u, Len(t) + 1) = LastLine(u)
         /\ \A k \in 1 .. Len(t) : LineIn(u, k) = LineIn(t, k)
<1> DEFINE n == Len(t)
<1>1. n \in Nat /\ 1 \in Int /\ n \in Int
  OBVIOUS
<1>2. /\ BreaksIn(t) \subseteq 1 .. n
      /\ Breaking(t, byte) => BreaksIn(u) = BreaksIn(t) \cup {n + 1}
      /\ ~Breaking(t, byte) => BreaksIn(u) = BreaksIn(t)
  BY LongerBreaks, Zenon
<1> HIDE DEF n
<1>3. IsFiniteSet(BreaksIn(t))
  BY <1>1, <1>2, FS_Interval, FS_Subset, Zenon
<1>4. LastLine(t) \in Nat
  BY <1>3, FS_CardinalityType, Zenon DEF LastLine
<1>5. n + 1 \notin BreaksIn(t)
  BY <1>1, <1>2, Places, Zenon
<1>6. Cardinality(BreaksIn(t) \cup {n + 1}) = Cardinality(BreaksIn(t)) + 1
  BY <1>3, <1>5, FS_AddElement, Zenon
<1>7. Breaking(t, byte) => LastLine(u) = LastLine(t) + 1
  BY <1>2, <1>6, Zenon DEF LastLine
<1>8. ~Breaking(t, byte) => LastLine(u) = LastLine(t)
  BY <1>2, Zenon DEF LastLine
<1>9. {j \in BreaksIn(u) : j <= n + 1} = BreaksIn(u)
  <2>1. BreaksIn(u) \subseteq (1 .. n) \cup {n + 1}
    BY <1>2, Zenon
  <2>2. \A k \in (1 .. n) \cup {n + 1} : k <= n + 1
    BY <1>1, Places, Zenon
  <2> QED  BY <2>1, <2>2, Zenon
<1>10. ASSUME NEW k \in 1 .. n
       PROVE  {j \in BreaksIn(u) : j <= k} = {j \in BreaksIn(t) : j <= k}
  <2>1. ~(n + 1 <= k)
    BY <1>1
  <2> QED  BY <1>2, <2>1, Zenon
<1>11. LineIn(u, n + 1) = LastLine(u)
  BY <1>9, Zenon DEF LineIn, LastLine
<1>12. \A k \in 1 .. n : LineIn(u, k) = LineIn(t, k)
  BY <1>10, Zenon DEF LineIn
<1> QED  BY <1>4, <1>7, <1>8, <1>11, <1>12, Zenon DEF n, Advances

\* The column of the next byte, from the cursor's.
LEMMA NextColumn ==
  ASSUME NEW n \in Nat
  PROVE  /\ n % Width \in Columns /\ ColumnAfter(n) \in 0 .. Width
         /\ ColumnAfter(n + 1) = (n % Width) + 1
         /\ ColumnAfter(n) >= Width <=> (n > 0 /\ n % Width = 0)
         /\ ColumnAfter(n) < Width => n % Width = ColumnAfter(n)
<1>1. /\ Width \in Nat \ {0} /\ n \div Width \in Nat /\ n % Width \in 0 .. Width - 1
      /\ n = (n \div Width) * Width + (n % Width)
  BY Sizes
<1>2. ColumnAfter(n + 1) = (n % Width) + 1
  BY <1>1 DEF ColumnAfter
<1>3. CASE n = 0
  <2>1. ColumnAfter(n) = 0
    BY <1>3, Zenon DEF ColumnAfter
  <2>2. n % Width = 0
    BY <1>1, <1>3
  <2> QED  BY <1>1, <1>2, <1>3, <2>1, <2>2 DEF Columns
<1>4. CASE n # 0
  <2> DEFINE m == n - 1
             q == m \div Width
             r == m % Width
             a == n \div Width
             b == n % Width
  <2>1. m \in Nat /\ n = m + 1
    BY <1>4
  <2> HIDE DEF m
  <2>2. q \in Nat /\ r \in 0 .. Width - 1 /\ m = q * Width + r
    BY <1>1, <2>1
  <2>3. a \in Nat /\ b \in 0 .. Width - 1 /\ n = a * Width + b
    BY <1>1
  <2>4. ColumnAfter(n) = r + 1
    BY <1>4, Zenon DEF ColumnAfter, m
  <2> HIDE DEF q, r, a, b
  <2>5. a < q => a * Width + Width <= q * Width
    BY <1>1, <2>2, <2>3
  <2>6. q < a => q * Width + Width <= a * Width
    BY <1>1, <2>2, <2>3
  <2>7. q + 1 < a => q * Width + Width + Width <= a * Width
    BY <1>1, <2>2, <2>3
  <2> DEFINE Q == q * Width
             A == a * Width
  <2>8. Q \in Nat /\ A \in Nat /\ (a = q => A = Q) /\ (a = q + 1 => A = Q + Width)
    BY <1>1, <2>2, <2>3
  <2>9. /\ m = Q + r /\ n = A + b /\ (a < q => A + Width <= Q)
        /\ (q < a => Q + Width <= A) /\ (q + 1 < a => Q + Width + Width <= A)
    BY <2>2, <2>3, <2>5, <2>6, <2>7
  <2> HIDE DEF Q, A
  <2>10. IF r + 1 = Width THEN b = 0 ELSE b = r + 1
    <3>1. a = q \/ a = q + 1
      BY <1>1, <2>1, <2>2, <2>3, <2>8, <2>9
    <3> QED  BY <1>1, <2>1, <2>2, <2>3, <2>8, <2>9, <3>1
  <2>11. ColumnAfter(n) \in 0 .. Width
    BY <1>1, <2>2, <2>4
  <2>12. b \in Columns
    BY <1>1, <2>3 DEF Columns
  <2>13. ColumnAfter(n) >= Width <=> b = 0
    BY <1>1, <2>2, <2>4, <2>10
  <2>14. ColumnAfter(n) < Width => b = ColumnAfter(n)
    BY <1>1, <2>2, <2>4, <2>10
  <2>15. n > 0
    BY <1>4
  <2> QED  BY <1>2, <2>11, <2>12, <2>13, <2>14, <2>15, Zenon DEF b
<1> QED  BY <1>3, <1>4, Zenon

\* A newline changes nothing of what is seen.
LEMMA NewlineSeen ==
  ASSUME NEW t \in Seq(Bytes), NEW u, u = Append(t, Newline)
  PROVE  /\ SeenIn(u) = SeenIn(t) /\ Lines(u) = Lines(t)
         /\ ColumnsIn(u) = ColumnsIn(t) /\ Looks(u) = Looks(t)
<1> DEFINE n == Len(t)
<1>1. Newline \in Bytes
  BY Zenon DEF Bytes
<1>2. n \in Nat /\ Len(u) = n + 1 /\ \A k \in 1 .. n : u[k] = t[k]
  BY <1>1, LongerText
<1>3. 1 .. n + 1 = (1 .. n) \cup {n + 1} /\ n + 1 \notin 1 .. n
  BY <1>2, Places, Zenon
<1>4. NewlinesIn(u) = NewlinesIn(t) \cup {n + 1}
  BY <1>1, LongerNewlines, Zenon
<1>5. SeenIn(u) = SeenIn(t)
  BY <1>2, <1>3, <1>4, Zenon DEF SeenIn
<1>6. ASSUME NEW k \in SeenIn(t)
      PROVE  /\ LineIn(u, k) = LineIn(t, k) /\ OffsetIn(u, k) = OffsetIn(t, k)
             /\ u[k] = t[k]
  <2>1. k \in 1 .. n /\ k \in 1 .. n + 1
    BY <1>3, Zenon DEF SeenIn
  <2> QED  BY <1>1, <1>2, <2>1, LongerLines, OffsetsStay, Zenon
<1> QED  BY <1>5, <1>6, Zenon DEF Lines, ColumnsIn, Looks

\* The bytes seen, with one more on the last line and in the column after the
\* rest.
SeenGrows(t, byte, u, k) ==
  /\ SeenIn(u) = SeenIn(t) \cup {k}
  /\ Lines(u) = [j \in SeenIn(t) \cup {k} |-> LineIn(u, j)]
  /\ ColumnsIn(u) = [j \in SeenIn(t) \cup {k} |-> OffsetIn(u, j) % Width]
  /\ Grows(SeenIn(t), Lines(t), k, LastLine(u), Lines(u))
  /\ Grows(SeenIn(t), ColumnsIn(t), k, Rest(t) % Width, ColumnsIn(u))
  /\ Grows(SeenIn(t), Looks(t), k, Shown(byte), Looks(u))

\* Another byte is seen where it belongs.
LEMMA ByteSeen ==
  ASSUME NEW t \in Seq(Bytes), NEW byte \in Bytes, byte # Newline,
         NEW u, u = Append(t, byte), NEW k, k = Len(t) + 1
  PROVE  SeenGrows(t, byte, u, k)
<1> DEFINE n == Len(t)
<1>1. n \in Nat /\ Len(u) = n + 1 /\ u[n + 1] = byte /\ \A j \in 1 .. n : u[j] = t[j]
  BY LongerText
<1>2. 1 .. n + 1 = (1 .. n) \cup {n + 1} /\ n + 1 \notin 1 .. n
  BY <1>1, Places, Zenon
<1>3. NewlinesIn(u) = NewlinesIn(t) /\ NewlinesIn(t) \subseteq 1 .. n
  BY LongerNewlines, Zenon
<1>4. SeenIn(u) = SeenIn(t) \cup {k}
  BY <1>1, <1>2, <1>3, Zenon DEF SeenIn
<1>5. ASSUME NEW j \in SeenIn(t)
      PROVE  /\ LineIn(u, j) = LineIn(t, j) /\ OffsetIn(u, j) = OffsetIn(t, j)
             /\ u[j] = t[j]
  <2>1. j \in 1 .. n /\ j \in 1 .. n + 1
    BY <1>2, Zenon DEF SeenIn
  <2> QED  BY <1>1, <2>1, LongerLines, OffsetsStay, Zenon
<1>6. LineIn(u, k) = LastLine(u) /\ OffsetIn(u, k) = Rest(t) /\ u[k] = byte
  <2>1. k \in 1 .. n + 1
    BY <1>2, Zenon
  <2>2. OffsetIn(u, k) = OffsetIn(t, k)
    BY <2>1, OffsetsStay, Zenon
  <2> QED  BY <1>1, <2>2, LongerLines, Zenon DEF Rest
<1>7. Grows(SeenIn(t), Lines(t), k, LastLine(u), Lines(u))
  BY <1>4, <1>5, <1>6, Zenon DEF Lines, Grows
<1>8. Grows(SeenIn(t), ColumnsIn(t), k, Rest(t) % Width, ColumnsIn(u))
  BY <1>4, <1>5, <1>6, Zenon DEF ColumnsIn, Grows
<1>9. Grows(SeenIn(t), Looks(t), k, Shown(byte), Looks(u))
  BY <1>4, <1>5, <1>6, Zenon DEF Looks, Grows
<1> QED  BY <1>4, <1>7, <1>8, <1>9, Zenon DEF SeenGrows, Lines, ColumnsIn
-----------------------------------------------------------------------------
(* A write *)

\* A newline of write_byte.
LEMMA NewlineWritten ==
  ASSUME NEW w, NEW t, Writes(w, t), NEW u, u = Append(t, Newline)
  PROVE  Writes(AtNewLine(w), u)
<1> DEFINE ln == LastLine(t)
           m == LastLine(u)
           K == SeenIn(t)
           v == AtNewLine(w)
<1>1. /\ IsWriter(w) /\ t \in Seq(Bytes) /\ BeforeIn(t, Len(t) + 1) \in 0 .. Len(t)
      /\ Lines(t) \in [K -> Nat] /\ ColumnsIn(t) \in [K -> Columns]
      /\ Precede(K, Lines(t), ColumnsIn(t), ln, ColumnAfter(Rest(t)))
      /\ Shows(w, ln, K, Lines(t), ColumnsIn(t), Looks(t))
  BY Zenon DEF Writes
<1>2. Newline \in Bytes /\ Breaking(t, Newline)
  BY Zenon DEF Bytes, Breaking
<1>3. u \in Seq(Bytes)
  BY <1>1, <1>2
<1>4. ln \in Nat /\ m = ln + 1
  <2>1. ln \in Nat /\ Advances(t, Newline, u)
    BY <1>1, <1>2, LongerLines, Zenon
  <2> QED  BY <1>2, <2>1, Zenon DEF Advances
<1>5. /\ SeenIn(u) = K /\ Lines(u) = Lines(t) /\ ColumnsIn(u) = ColumnsIn(t)
      /\ Looks(u) = Looks(t)
  BY <1>1, NewlineSeen, Zenon
<1>6. BeforeIn(u, Len(u) + 1) \in 0 .. Len(u) /\ Rest(u) = 0
  BY <1>1, <1>2, LongerRest, Zenon
<1>7. IsWriter(v) /\ v.column = 0
  BY <1>1, NewLineMoves, NewLineScrolls, Zenon
<1> HIDE DEF ln, m, K, v
<1>8. m \in Nat
  BY <1>4
<1>9. ASSUME NEW k \in K
      PROVE  Lines(t)[k] <= ln /\ Lines(t)[k] < m
  <2>1. Lines(t)[k] < ln \/ Lines(t)[k] = ln
    BY <1>1, Zenon DEF Precede
  <2>2. Lines(t)[k] \in Nat
    BY <1>1, Zenon
  <2> QED  BY <1>4, <2>1, <2>2
<1>10. Shows(v, m, K, Lines(t), ColumnsIn(t), Looks(t))
  BY <1>1, <1>4, <1>8, <1>9, NewLineShows, Zenon DEF v
<1>11. Precede(K, Lines(t), ColumnsIn(t), m, ColumnAfter(Rest(u)))
  BY <1>9, Zenon DEF Precede
<1>12. v.column = ColumnAfter(Rest(u))
  BY <1>6, <1>7, Zenon DEF ColumnAfter
<1> QED  BY <1>1, <1>3, <1>5, <1>6, <1>7, <1>10, <1>11, <1>12, Zenon DEF Writes, m, v

\* The wrap of write_byte leaves the cursor on the line and in the column where
\* the byte belongs.
LEMMA WrappedCursor ==
  ASSUME NEW w, NEW t, Writes(w, t), NEW byte \in Bytes, byte # Newline,
         NEW u, u = Append(t, byte)
  PROVE  /\ IsWriter(Wrapped(w)) /\ Wrapped(w).column = Rest(t) % Width
         /\ Shows(Wrapped(w), LastLine(u), SeenIn(t), Lines(t), ColumnsIn(t), Looks(t))
         /\ Precede(SeenIn(t), Lines(t), ColumnsIn(t), LastLine(u), Rest(t) % Width)
<1> DEFINE ln == LastLine(t)
           m == LastLine(u)
           K == SeenIn(t)
           n == Rest(t)
           v == Wrapped(w)
<1>1. /\ IsWriter(w) /\ t \in Seq(Bytes) /\ BeforeIn(t, Len(t) + 1) \in 0 .. Len(t)
      /\ Lines(t) \in [K -> Nat] /\ ColumnsIn(t) \in [K -> Columns]
      /\ Precede(K, Lines(t), ColumnsIn(t), ln, ColumnAfter(n))
      /\ Shows(w, ln, K, Lines(t), ColumnsIn(t), Looks(t))
      /\ w.column = ColumnAfter(n)
  BY Zenon DEF Writes
<1>2. n \in Nat
  BY <1>1, LongerRest, Zenon
<1>3. Breaking(t, byte) <=> n > 0 /\ n % Width = 0
  BY Zenon DEF Breaking, FullBefore, Rest
<1>4. ln \in Nat /\ (Breaking(t, byte) => m = ln + 1) /\ (~Breaking(t, byte) => m = ln)
  <2>1. ln \in Nat /\ Advances(t, byte, u)
    BY <1>1, LongerLines, Zenon
  <2> QED  BY <2>1, Zenon DEF Advances
<1> HIDE DEF ln, m, K, n, v
<1>5. /\ n % Width \in Columns /\ ColumnAfter(n) \in 0 .. Width
      /\ ColumnAfter(n) >= Width <=> Breaking(t, byte)
      /\ ColumnAfter(n) < Width => n % Width = ColumnAfter(n)
  BY <1>2, <1>3, NextColumn, Zenon
<1>6. CASE Breaking(t, byte)
  <2>1. v = AtNewLine(w) /\ n % Width = 0
    BY <1>1, <1>3, <1>5, <1>6, Zenon DEF v, Wrapped
  <2>2. IsWriter(v) /\ v.column = 0
    BY <1>1, <2>1, NewLineMoves, NewLineScrolls, Zenon
  <2>3. m = ln + 1
    BY <1>4, <1>6, Zenon
  <2>4. m \in Nat
    BY <1>4, <2>3
  <2>5. ASSUME NEW k \in K
        PROVE  Lines(t)[k] <= ln /\ Lines(t)[k] < m
    <3>1. Lines(t)[k] < ln \/ Lines(t)[k] = ln
      BY <1>1, Zenon DEF Precede
    <3>2. Lines(t)[k] \in Nat
      BY <1>1, Zenon
    <3> QED  BY <1>4, <2>3, <3>1, <3>2
  <2>6. Shows(v, m, K, Lines(t), ColumnsIn(t), Looks(t))
    BY <1>1, <1>4, <2>1, <2>3, <2>4, <2>5, NewLineShows, Zenon
  <2>7. Precede(K, Lines(t), ColumnsIn(t), m, n % Width)
    BY <2>5, Zenon DEF Precede
  <2> QED  BY <2>1, <2>2, <2>6, <2>7, Zenon DEF v, m, K, n
<1>7. CASE ~Breaking(t, byte)
  <2>1. ColumnAfter(n) < Width /\ ~(ColumnAfter(n) >= Width)
    BY <1>5, <1>7, Sizes
  <2>2. v = w /\ n % Width = ColumnAfter(n) /\ m = ln
    BY <1>1, <1>4, <1>5, <1>7, <2>1, Zenon DEF v, Wrapped
  <2> QED  BY <1>1, <2>2, Zenon DEF v, m, K, n
<1> QED  BY <1>6, <1>7, Zenon

\* Another byte of write_byte.
LEMMA ByteWritten ==
  ASSUME NEW w, NEW t, Writes(w, t), NEW byte \in Bytes, byte # Newline,
         NEW u, u = Append(t, byte), Shown(byte) \in Cells
  PROVE  Writes(Put(Wrapped(w), Shown(byte)), u)
<1> DEFINE m == LastLine(u)
           K == SeenIn(t)
           k == Len(t) + 1
           c == Rest(t) % Width
           v == Wrapped(w)
           x == Put(v, Shown(byte))
<1>1. /\ t \in Seq(Bytes) /\ BeforeIn(t, Len(t) + 1) \in 0 .. Len(t)
      /\ Lines(t) \in [K -> Nat] /\ ColumnsIn(t) \in [K -> Columns]
  BY Zenon DEF Writes
<1>2. /\ IsWriter(v) /\ v.column = c
      /\ Shows(v, m, K, Lines(t), ColumnsIn(t), Looks(t))
      /\ Precede(K, Lines(t), ColumnsIn(t), m, c)
  BY WrappedCursor, Zenon
<1>3. u \in Seq(Bytes)
  BY <1>1
<1>4. /\ Rest(t) \in Nat /\ BeforeIn(u, Len(u) + 1) \in 0 .. Len(u)
      /\ Rest(u) = Rest(t) + 1
  BY <1>1, LongerRest, Zenon
<1>5. c \in Columns /\ ColumnAfter(Rest(u)) = c + 1
  BY <1>4, NextColumn, Zenon
<1>6. m \in Nat
  <2>1. LastLine(t) \in Nat /\ (m = LastLine(t) + 1 \/ m = LastLine(t))
    BY <1>1, LongerLines, Zenon DEF Advances
  <2> HIDE DEF m
  <2> QED  BY <2>1
<1>7. /\ SeenIn(u) = K \cup {k}
      /\ Lines(u) = [j \in K \cup {k} |-> LineIn(u, j)]
      /\ ColumnsIn(u) = [j \in K \cup {k} |-> OffsetIn(u, j) % Width]
      /\ Grows(K, Lines(t), k, m, Lines(u)) /\ Grows(K, ColumnsIn(t), k, c, ColumnsIn(u))
      /\ Grows(K, Looks(t), k, Shown(byte), Looks(u))
  <2>1. SeenGrows(t, byte, u, k)
    BY <1>1, ByteSeen, Zenon
  <2> QED  BY <2>1, Zenon DEF SeenGrows
<1> HIDE DEF m, K, k, c, v, x
<1>8. ASSUME NEW j \in K
      PROVE  /\ ~(Lines(t)[j] = m /\ ColumnsIn(t)[j] = c)
             /\ Lines(t)[j] < m \/ (Lines(t)[j] = m /\ ColumnsIn(t)[j] < c + 1)
  <2>1. Lines(t)[j] < m \/ (Lines(t)[j] = m /\ ColumnsIn(t)[j] < c)
    BY <1>2, Zenon DEF Precede
  <2>2. Lines(t)[j] \in Nat /\ ColumnsIn(t)[j] \in Columns
    BY <1>1, Zenon
  <2> QED  BY <1>5, <1>6, <2>1, <2>2, Sizes DEF Columns
<1>9. Shows(x, m, K \cup {k}, Lines(u), ColumnsIn(u), Looks(u))
  <2>1. v.column \in Columns /\ \A j \in K : ~(Lines(t)[j] = m /\ ColumnsIn(t)[j] = v.column)
    BY <1>2, <1>5, <1>8, Zenon
  <2>2. Grows(K, ColumnsIn(t), k, v.column, ColumnsIn(u))
    BY <1>2, <1>7, Zenon
  <2> QED  BY <1>2, <1>6, <1>7, <2>1, <2>2, PutShows, Zenon DEF x
<1>10. IsWriter(x) /\ x.column = c + 1
  BY <1>2, <1>5, PutFields, Zenon DEF x
<1>11. Lines(u) \in [K \cup {k} -> Nat]
  BY <1>1, <1>6, <1>7, Zenon DEF Grows
<1>12. ColumnsIn(u) \in [K \cup {k} -> Columns]
  BY <1>1, <1>5, <1>7, Zenon DEF Grows
<1>13. c < c + 1
  BY <1>5, Sizes DEF Columns
<1>14. Precede(K \cup {k}, Lines(u), ColumnsIn(u), m, c + 1)
  BY <1>7, <1>8, <1>13, Zenon DEF Precede, Grows
<1> QED  BY <1>3, <1>4, <1>5, <1>7, <1>9, <1>10, <1>11, <1>12, <1>14, Zenon DEF Writes, m, v, x
\* write_byte, of the byte that is shown: the screen shows the longer text.
LEMMA WriteByteStep ==
  ASSUME NEW w, NEW t, Writes(w, t), NEW byte \in Bytes
  PROVE  Writes(WriteByte(w, Shown(byte)), Append(t, byte))
<1>1. Shown(byte) \in Cells /\ (Shown(byte) = Newline <=> byte = Newline)
  BY DEF Shown, Cells, Bytes, Newline, Other, Block
<1>2. CASE byte = Newline
  BY <1>1, <1>2, NewlineWritten, Zenon DEF WriteByte
<1>3. CASE byte # Newline
  BY <1>1, <1>3, ByteWritten, Zenon DEF WriteByte
<1> QED  BY <1>2, <1>3, Zenon

\* Every step keeps the screen's invariant.
LEMMA NextScreenInv == ScreenInv /\ [Next]_vars => ScreenInv'
<1> SUFFICES ASSUME ScreenInv, [Next]_vars
             PROVE  ScreenInv'
  OBVIOUS
<1>1. ASSUME UNCHANGED screen
      PROVE  ScreenInv'
  <2>1. cells' = cells /\ row' = row /\ column' = column /\ text' = text
    BY <1>1, Zenon DEF screen
  <2> QED  BY <2>1, Zenon DEF ScreenInv
<1>2. CASE UNCHANGED vars
  BY <1>1, <1>2, Zenon DEF vars, screen
<1>3. ASSUME NEW byte \in Bytes, Write(byte)
      PROVE  ScreenInv'
  <2> DEFINE w == WriteByte([cells |-> cells, row |-> row, column |-> column], Shown(byte))
  <2>1. /\ cells' = w.cells /\ row' = w.row /\ column' = w.column
        /\ text' = Append(text, byte)
    BY <1>3, Zenon DEF Write
  <2>2. Writes(w, text')
    BY <2>1, WriteByteStep, Zenon DEF ScreenInv
  <2> HIDE DEF w
  <2>3. w = [cells |-> w.cells, row |-> w.row, column |-> w.column]
    BY <2>2 DEF Writes, IsWriter
  <2> QED  BY <2>1, <2>2, <2>3, Zenon DEF ScreenInv
<1>4. CASE \E chunk \in Chunks : Send(chunk)
  BY <1>1, <1>4, Zenon DEF Send
<1>5. CASE Clear
  BY <1>1, <1>5, Zenon DEF Clear
<1> QED  BY <1>2, <1>3, <1>4, <1>5, Zenon DEF Next

\* Before anything is printed the screen is as it was.
LEMMA InitScreenInv == Init => ScreenInv
<1> SUFFICES ASSUME Init
             PROVE  ScreenInv
  OBVIOUS
<1> DEFINE blank == [r \in Rows |-> [c \in Columns |-> Bios]]
           w == [cells |-> blank, row |-> 0, column |-> 0]
           t == <<>>
<1>1. cells = blank /\ row = 0 /\ column = 0 /\ text = t
  BY Zenon DEF Init
<1>2. t \in Seq(Bytes) /\ Len(t) = 0 /\ 1 .. Len(t) = {}
  OBVIOUS
<1>3. NewlinesIn(t) = {} /\ BreaksIn(t) = {} /\ SeenIn(t) = {}
  BY <1>2, Zenon DEF NewlinesIn, BreaksIn, SeenIn
<1>4. BeforeIn(t, Len(t) + 1) = 0
  <2>1. BeforeIn(t, Len(t) + 1) = Max({0, 0})
    BY <1>3 DEF BeforeIn
  <2>2. 0 \in Int /\ 0 <= 0
    OBVIOUS
  <2> QED  BY <2>1, <2>2, Greater, Zenon
<1>5. Rest(t) = 0 /\ BeforeIn(t, Len(t) + 1) \in 0 .. Len(t)
  BY <1>2, <1>4 DEF Rest, OffsetIn
<1>6. LastLine(t) = 0
  BY <1>3, FS_EmptySet, Zenon DEF LastLine
<1>7. Lines(t) \in [SeenIn(t) -> Nat] /\ ColumnsIn(t) \in [SeenIn(t) -> Columns]
  BY <1>3, Zenon DEF Lines, ColumnsIn
<1>8. /\ w.cells = blank /\ w.row = 0 /\ w.column = 0
  OBVIOUS
<1>9. IsWriter(w)
  <2>1. blank \in [Rows -> [Columns -> Cells]]
    BY Zenon DEF Cells
  <2>2. 0 \in Rows /\ 0 \in 0 .. Width
    BY Sizes DEF Rows
  <2> HIDE DEF blank
  <2> QED  BY <2>1, <2>2 DEF IsWriter
<1>10. Shows(w, LastLine(t), SeenIn(t), Lines(t), ColumnsIn(t), Looks(t))
  <2>1. 0 \in Nat /\ 0 < Height
    BY Sizes
  <2>2. ScrolledBy(0) = 0
    BY <2>1, Scrolling, Zenon
  <2>3. w.row = 0 - ScrolledBy(0) /\ \A r \in Rows : r + ScrolledBy(0) < Height
    BY <1>8, <2>2, Sizes DEF Rows
  <2>4. \A r \in Rows, c \in Columns : w.cells[r][c] = Bios
    BY <1>8, Zenon
  <2> HIDE DEF w, t
  <2> QED  BY <1>3, <1>6, <2>3, <2>4, Zenon DEF Shows
<1>11. Precede(SeenIn(t), Lines(t), ColumnsIn(t), LastLine(t), ColumnAfter(Rest(t)))
  BY <1>3, Zenon DEF Precede
<1>12. w.column = ColumnAfter(Rest(t))
  BY <1>5, <1>8, Zenon DEF ColumnAfter
<1> HIDE DEF w, t
<1>13. Writes(w, t)
  BY <1>2, <1>5, <1>7, <1>9, <1>10, <1>11, <1>12, Zenon DEF Writes
<1> QED  BY <1>1, <1>13, Zenon DEF ScreenInv, w

\* What Console says of `text`, in terms of the text's own lines.
LEMMA OfTheText ==
  /\ Newlines = NewlinesIn(text) /\ Breaks = BreaksIn(text)
  /\ CursorLine = LastLine(text) /\ CursorColumn = ColumnAfter(Rest(text))
  /\ \A k : LineOf(k) = LineIn(text, k) /\ Offset(k) = OffsetIn(text, k)
<1>1. Newlines = NewlinesIn(text)
  BY Zenon DEF Newlines, NewlinesIn
<1>2. \A k : Offset(k) = OffsetIn(text, k)
  BY <1>1, Zenon DEF Offset, OffsetIn, Before, BeforeIn
<1>3. Breaks = BreaksIn(text)
  BY <1>1, <1>2, Zenon DEF Breaks, BreaksIn, FullBefore
<1>4. CursorLine = LastLine(text) /\ \A k : LineOf(k) = LineIn(text, k)
  BY <1>3, Zenon DEF CursorLine, LastLine, LineOf, LineIn
<1>5. CursorColumn = ColumnAfter(Rest(text))
  BY <1>2, Zenon DEF CursorColumn, ColumnAfter, Rest
<1> QED  BY <1>1, <1>2, <1>3, <1>4, <1>5, Zenon

\* The invariants imply what the run checks of the screen.
LEMMA ScreenInvShowsTail == ScreenInv /\ BufferInv => ScreenShowsTail
<1> SUFFICES ASSUME ScreenInv, BufferInv
             PROVE  ScreenShowsTail
  OBVIOUS
<1> DEFINE w == [cells |-> cells, row |-> row, column |-> column]
<1>1. /\ IsWriter(w) /\ text \in Seq(Bytes)
      /\ Shows(w, LastLine(text), SeenIn(text), Lines(text), ColumnsIn(text), Looks(text))
      /\ w.column = ColumnAfter(Rest(text))
  BY Zenon DEF ScreenInv, Writes
<1>2. w.cells = cells /\ w.row = row /\ w.column = column
  OBVIOUS
<1> HIDE DEF w
<1>3. TypeOK
  <2>1. cells \in [Rows -> [Columns -> Cells]] /\ row \in Rows /\ column \in 0 .. Width
    BY <1>1, <1>2, WriterFields, Zenon
  <2>2. DOMAIN cells = Rows /\ \A r \in Rows : DOMAIN cells[r] = Columns
    BY <2>1, Zenon
  <2>3. sent \in Seq(Printable) /\ DOMAIN bytes = 1 .. Capacity /\ len \in 0 .. Capacity
    BY Zenon DEF BufferInv
  <2> QED  BY <1>1, <2>1, <2>2, <2>3, Zenon DEF TypeOK
<1>4. SeenIn(text) = (1 .. Len(text)) \ Newlines /\ Scrolled = ScrolledBy(LastLine(text))
  BY OfTheText, Zenon DEF SeenIn, Scrolled
<1>5. row = CursorLine - Scrolled /\ column = CursorColumn
  BY <1>1, <1>2, <1>4, OfTheText, Zenon DEF Shows
<1>6. ASSUME NEW k \in SeenIn(text)
      PROVE  /\ Lines(text)[k] = LineOf(k) /\ ColumnsIn(text)[k] = ColumnOf(k)
             /\ Looks(text)[k] = Shown(text[k])
  BY OfTheText, Zenon DEF Lines, ColumnsIn, Looks, ColumnOf
<1>7. ASSUME NEW r \in Rows, NEW c \in Columns
      PROVE  LET here == {k \in (1 .. Len(text)) \ Newlines :
                            LineOf(k) = r + Scrolled /\ ColumnOf(k) = c}
             IN  /\ \A k \in here : cells[r][c] = Shown(text[k])
                 /\ here = {} => cells[r][c] = IF r + Scrolled < Height THEN Bios ELSE Space
  <2>1. /\ \A k \in SeenIn(text) : LineOf(k) = r + Scrolled /\ ColumnOf(k) = c
                                   => cells[r][c] = Shown(text[k])
        /\ (\A k \in SeenIn(text) : ~(LineOf(k) = r + Scrolled /\ ColumnOf(k) = c))
             => cells[r][c] = IF r + Scrolled < Height THEN Bios ELSE Space
    <3>1. Cell(w, Scrolled, SeenIn(text), Lines(text), ColumnsIn(text), Looks(text), r, c)
      BY <1>1, <1>4, CellByCell, Zenon
    <3>2. ASSUME NEW k \in SeenIn(text), LineOf(k) = r + Scrolled /\ ColumnOf(k) = c
          PROVE  cells[r][c] = Shown(text[k])
      BY <1>2, <1>6, <3>1, <3>2, Zenon DEF Cell
    <3>3. ASSUME \A k \in SeenIn(text) : ~(LineOf(k) = r + Scrolled /\ ColumnOf(k) = c)
          PROVE  cells[r][c] = IF r + Scrolled < Height THEN Bios ELSE Space
      BY <1>2, <1>6, <3>1, <3>3, Zenon DEF Cell
    <3> QED  BY <3>2, <3>3, Zenon
  <2> QED  BY <1>4, <2>1, Zenon
<1> QED  BY <1>3, <1>5, <1>7, Zenon DEF ScreenShowsTail

\* The screen shows the last lines of the text, each byte in its place, and the
\* cursor is where the next byte belongs, for every size of the screen and
\* every text.
THEOREM ScreenShowsTailTheorem == Spec => []ScreenShowsTail
BY InitBufferInv, NextBufferInv, InitScreenInv, NextScreenInv, ScreenInvShowsTail, PTL
   DEF Spec
==============================================================================
