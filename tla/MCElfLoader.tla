----------------------------- MODULE MCElfLoader -----------------------------
(***************************************************************************)
(* ElfLoader for TLC: pages of 4 bytes, a load window of four pages, words *)
(* below 64.                                                               *)
(***************************************************************************)
EXTENDS ElfLoader

Contents(len) == [o \in 0 .. len - 1 |-> o + 1]

Header(len, entry, phoff, ph) ==
  [len |-> len, magic |-> TRUE, class |-> TRUE, data |-> TRUE, version |-> TRUE,
   type |-> TRUE, machine |-> TRUE, ehsize |-> TRUE, phentsize |-> TRUE,
   entry |-> entry, phoff |-> phoff, ph |-> ph, bytes |-> Contents(len)]

Ph(flags, offset, vaddr, filesz, memsz, align) ==
  [load |-> TRUE, flags |-> flags, offset |-> offset, vaddr |-> vaddr,
   filesz |-> filesz, memsz |-> memsz, align |-> align]

R == 4
RW == 6
RX == 5

Good == Ph(RX, PageSize, LoadStart, 3, 5, PageSize)

\* One field of the header wrong, or no program headers, or too short, or a
\* table of program headers that ends beyond the file or beyond 2^64.
Headers ==
  LET good == Header(8, LoadStart, HeaderSize, <<Good>>) IN
  {good} \cup
  {[good EXCEPT !.magic = FALSE], [good EXCEPT !.class = FALSE],
   [good EXCEPT !.data = FALSE], [good EXCEPT !.version = FALSE],
   [good EXCEPT !.type = FALSE], [good EXCEPT !.machine = FALSE],
   [good EXCEPT !.ehsize = FALSE], [good EXCEPT !.phentsize = FALSE],
   [good EXCEPT !.ph = <<>>]} \cup
  {Header(len, LoadStart, phoff, <<Good>>) :
     len \in 0 .. 8, phoff \in {0, HeaderSize, 7, 8, Word - 1}}

\* One segment, with every field also at its limits.
OneSegment ==
  {Header(len, entry, HeaderSize, <<Ph(flags, offset, vaddr, filesz, memsz, align)>>) :
     len \in {9, 12}, entry \in {LoadStart, LoadStart + 4},
     flags \in {RW, RX, 8 + RX}, offset \in {0, 4, 6, Word - 4},
     vaddr \in {LoadStart - 4, LoadStart, LoadStart + 2, LoadEnd - 4, Word - 4},
     filesz \in {0, 4, 5, Word - 1}, memsz \in {0, 1, 4, 5, 16, 17, Word - 1},
     align \in {1, PageSize}}

NotLoad == {Header(8, LoadStart, HeaderSize, <<[Good EXCEPT !.load = FALSE]>>)}

\* Up to three segments in every order, apart, adjacent, overlapping, nested.
Pieces ==
  {Ph(flags, 4, vaddr, filesz, memsz, PageSize) :
     flags \in {RW, RX}, vaddr \in {LoadStart, LoadStart + 4, LoadStart + 8},
     filesz \in {0, 3, 5}, memsz \in {3, 9}}

TwoSegments ==
  {Header(9, LoadStart + 1, HeaderSize, <<a, b>>) : a \in Pieces, b \in Pieces}

SmallPieces ==
  {Ph(RX, 4, vaddr, 2, memsz, PageSize) :
     vaddr \in {LoadStart, LoadStart + 4, LoadStart + 8}, memsz \in {2, 5}}

ThreeSegments ==
  {Header(9, LoadStart + 1, HeaderSize, <<a, b, c>>) :
     a \in SmallPieces, b \in SmallPieces, c \in SmallPieces}

AllFiles == Headers \cup OneSegment \cup NotLoad \cup TwoSegments \cup ThreeSegments

\* The shapes of the test programs of build.rs: code alone, code with a segment
\* of zeros, with data and zeros, with data over a page; in either order.
Data(n) == [k \in 1 .. n |-> 10 + k]
Code(n) == [vaddr |-> LoadStart, flags |-> RX, memsz |-> n, data |-> [k \in 1 .. n |-> 30 + k]]
DataAt(flags, n, memsz) ==
  [vaddr |-> LoadStart + 8, flags |-> flags, memsz |-> memsz, data |-> Data(n)]

Fixtures ==
  LET code == {Code(n) : n \in 1 .. 8}
      data == {DataAt(flags, n, memsz) : flags \in {R, RW}, n \in 0 .. 4, memsz \in {4}}
  IN  {[entry |-> LoadStart, segments |-> <<c>>] : c \in code} \cup
      {[entry |-> LoadStart, segments |-> <<c, d>>] : c \in code, d \in data} \cup
      {[entry |-> LoadStart, segments |-> <<d, c>>] : c \in code, d \in data}
=============================================================================
