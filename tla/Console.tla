------------------------------ MODULE Console ------------------------------
(***************************************************************************)
(* Text output: the screen writer of src/src/vga_buffer.rs, with its       *)
(* cursor, wrapping and scrolling, and the buffer of src/src/serial.rs     *)
(* that remembers what was sent to the serial port.  The ghosts `text` and *)
(* `sent` are all that was printed and sent; the properties say what must  *)
(* be seen of them.                                                        *)
(***************************************************************************)
EXTENDS Integers, Sequences, FiniteSets, FiniteSetsExt

CONSTANTS Height, Width,   \* BUFFER_HEIGHT, BUFFER_WIDTH
          Capacity,        \* OUTPUT_BUFFER_SIZE
          Printable,       \* some bytes of 0x20..=0x7e
          MaxText,         \* bound: bytes printed
          MaxSent,         \* bound: bytes sent between two clear()
          MaxChunk         \* bound: bytes of one write_bytes

Newline == "newline"
Other == "other"           \* a byte the screen does not show
Block == "block"           \* 0xfe, shown instead
Space == "space"
Bios == "bios"             \* what was on the screen before
Bytes == Printable \cup {Newline, Other}

ASSUME ConsoleAssumption ==
  /\ {Height, Width, Capacity} \subseteq Nat \ {0}
  /\ {MaxText, MaxSent, MaxChunk} \subseteq Nat
  /\ Printable \cap {Newline, Other, Block, Space, Bios} = {}

VARIABLES cells,        \* row, column -> byte
          row, column,  \* Writer
          text,         \* all that was printed
          bytes, len,   \* OutputBuffer
          sent          \* all that was sent since the last clear()

screen == <<cells, row, column, text>>
buffer == <<bytes, len, sent>>
vars == <<cells, row, column, text, bytes, len, sent>>

Rows == 0 .. Height - 1
Columns == 0 .. Width - 1

-----------------------------------------------------------------------------
(* Writer *)

ScrollUp(c) ==
  [r \in Rows |-> IF r + 1 \in Rows THEN c[r + 1] ELSE [col \in Columns |-> Space]]

\* new_line; both write_byte and a wrap use it.
AtNewLine(w) ==
  IF w.row + 1 < Height THEN [w EXCEPT !.row = @ + 1, !.column = 0]
  ELSE [w EXCEPT !.cells = ScrollUp(@), !.column = 0]

\* The wrap of write_byte: only when something follows the full line.
Wrapped(w) == IF w.column >= Width THEN AtNewLine(w) ELSE w

\* The write_cell and the cursor of write_byte.
Put(w, byte) ==
  [w EXCEPT !.cells[w.row][w.column] = byte, !.column = @ + 1]

Shown(byte) == IF byte = Other THEN Block ELSE byte

\* WriteByte with a mistake: the wrap comes with the last column.
WrapEarly(w, byte) ==
  IF byte = Newline THEN AtNewLine(w) ELSE Wrapped(Put(w, byte))

WriteByte(w, byte) ==
  IF byte = Newline THEN AtNewLine(w) ELSE Put(Wrapped(w), byte)

\* write_string, a byte at a time.
Write(byte) ==
  LET w == WriteByte([cells |-> cells, row |-> row, column |-> column], Shown(byte)) IN
  /\ Len(text) < MaxText
  /\ cells' = w.cells /\ row' = w.row /\ column' = w.column
  /\ text' = Append(text, byte)
  /\ UNCHANGED buffer

-----------------------------------------------------------------------------
(* OutputBuffer *)

PushBytes(chunk) ==
  LET count == Min({Capacity - len, Len(chunk)}) IN
  /\ bytes' = [i \in 1 .. Capacity |->
                 IF i \in len + 1 .. len + count THEN chunk[i - len] ELSE bytes[i]]
  /\ len' = len + count

\* write_bytes.
Send(chunk) ==
  /\ Len(sent) + Len(chunk) <= MaxSent
  /\ PushBytes(chunk)
  /\ sent' = sent \o chunk
  /\ UNCHANGED screen

\* clear_output_buffer; the bytes stay where they are.
Clear ==
  /\ len' = 0
  /\ sent' = <<>>
  /\ UNCHANGED <<screen, bytes>>

\* OutputBuffer::contains with a mistake: old bytes are searched too.
ContainsAnywhere(needle) ==
  \E i \in 0 .. Capacity - Len(needle) : SubSeq(bytes, i + 1, i + Len(needle)) = needle

Contains(needle) ==
  \/ needle = <<>>
  \/ /\ Len(needle) <= len
     /\ \E i \in 0 .. len - Len(needle) : SubSeq(bytes, i + 1, i + Len(needle)) = needle

Chunks == UNION {[1 .. n -> Printable] : n \in 0 .. MaxChunk}

Init ==
  /\ cells = [r \in Rows |-> [c \in Columns |-> Bios]]
  /\ row = 0 /\ column = 0 /\ text = <<>>
  /\ bytes = [i \in 1 .. Capacity |-> Space]
  /\ len = 0 /\ sent = <<>>

Next ==
  \/ \E byte \in Bytes : Write(byte)
  \/ \E chunk \in Chunks : Send(chunk)
  \/ Clear

Spec == Init /\ [][Next]_vars

-----------------------------------------------------------------------------
(* What is seen.  A paragraph is what stands between two newlines; it is   *)
(* broken into lines of Width bytes.                                       *)

Newlines == {k \in 1 .. Len(text) : text[k] = Newline}

\* The newline before place k, or 0, and the bytes of the paragraph before k.
Before(k) == Max({0} \cup {j \in Newlines : j < k})

Offset(k) == k - Before(k) - 1

\* Where a line begins after another: at a newline, for what follows it, and
\* at a byte that follows a full line.
Breaks ==
  Newlines \cup {k \in 1 .. Len(text) : Offset(k) > 0 /\ Offset(k) % Width = 0}

\* The line and column of the byte at place k.
LineOf(k) == Cardinality({j \in Breaks : j <= k})

ColumnOf(k) == Offset(k) % Width

\* The line and column of the cursor: a full line keeps it, just right of the
\* last column.
CursorLine == Cardinality(Breaks)

CursorColumn ==
  LET n == Offset(Len(text) + 1) IN IF n = 0 THEN 0 ELSE ((n - 1) % Width) + 1

ScrolledBy(line) == Max({0, line - (Height - 1)})

Scrolled == ScrolledBy(CursorLine)

\* The type of every variable; the cursor stays on the screen, or just right
\* of it.
TypeOK ==
  /\ DOMAIN cells = Rows /\ \A r \in Rows : DOMAIN cells[r] = Columns
  /\ row \in Rows /\ column \in 0 .. Width
  /\ text \in Seq(Bytes) /\ sent \in Seq(Printable)
  /\ DOMAIN bytes = 1 .. Capacity /\ len \in 0 .. Capacity

\* The variables have their types.  The screen of vga_buffer.rs shows the last
\* lines of the text, each byte in its place, blanks in the rest of the lines
\* that scrolled in, and what was there before in the others; and the cursor is
\* where the next byte belongs: a line that is exactly full does not scroll
\* before something follows it, and a newline after it takes no line more.
ScreenShowsTail ==
  /\ TypeOK
  /\ \A r \in Rows, c \in Columns :
       LET here == {k \in (1 .. Len(text)) \ Newlines :
                      LineOf(k) = r + Scrolled /\ ColumnOf(k) = c}
       IN  /\ \A k \in here : cells[r][c] = Shown(text[k])
           /\ here = {} => cells[r][c] = IF r + Scrolled < Height THEN Bios ELSE Space
  /\ row = CursorLine - Scrolled
  /\ column = CursorColumn

Remembered == SubSeq(sent, 1, Min({Len(sent), Capacity}))

\* The output buffer of serial.rs holds the beginning of what was sent since it
\* was cleared, as much as fits, cut in the middle of a write if need be; and
\* output_contains finds exactly what occurs there, never bytes from before the
\* last clear, although clear leaves them in place.
BufferIsExact ==
  /\ SubSeq(bytes, 1, len) = Remembered
  /\ \A needle \in Chunks :
       Contains(needle) <=>
         \E i \in 0 .. Len(Remembered) - Len(needle) :
           \A j \in 1 .. Len(needle) : Remembered[i + j] = needle[j]

=============================================================================
