------------------------------ MODULE Console ------------------------------
(***************************************************************************)
(* The text console of src/kernel/gpu.c: gpu_putc, its cursor, and what it *)
(* leaves in the framebuffer.                                              *)
(*                                                                         *)
(* A strip is one row of pixels of one character cell, 8 pixels or 24      *)
(* bytes; fb gives the contents of the framebuffer strip by strip, in the  *)
(* order of their addresses, so that the strip to the right of the last    *)
(* column is the first one of the pixel row below, as in memory.  A pixel  *)
(* row holds Cols strips: fbinfo.pitch is 3 * fbinfo.width and the width a *)
(* multiple of 8, 640.  The screen is white, the background kernel_main    *)
(* sets and the colour of what a glyph leaves blank.                       *)
(***************************************************************************)
EXTENDS Integers

CONSTANTS
  Cols,    \* chars_width, 640 / 8
  Rows,    \* num_rows, 480 / 8
  Height,  \* CHAR_HEIGHT, 8
  Word,    \* 2^32, where uint32_t wraps
  Glyphs,  \* characters drawn with some black pixel in every row
  Blank,   \* the space
  Smear    \* what is no character

Stride == 192  \* bytes a character's x offset is multiplied by before the shift
Strips == Rows * Height * Cols

ASSUME ConsoleAssumption ==
  /\ Cols \in Nat \ {0} /\ Rows \in Nat \ {0} /\ Height \in Nat \ {0}
  /\ Word \in Nat /\ Word > Stride * (Strips + 2)
  /\ Blank \notin Glyphs /\ Smear \notin Glyphs \cup {Blank}

White == <<Blank, 0>>
Ink   == {White} \cup (Glyphs \X (0 .. Height - 1))

VARIABLES
  fb,                \* strips of the framebuffer
  chars_x, chars_y,  \* the cursor, of fbinfo
  outside,           \* a pixel was written outside the framebuffer
  tidy               \* so far no character was drawn right of the last
                     \* column, and none erased left of the first one

vars == <<fb, chars_x, chars_y, outside, tidy>>

TypeOK ==
  /\ fb \in [0 .. Strips - 1 -> Ink]
  /\ chars_x \in 0 .. Word - 1 /\ chars_y \in 0 .. Word - 1
  /\ outside \in BOOLEAN /\ tidy \in BOOLEAN

\* framebuffer_init and framebuffer_set_background.
Init ==
  /\ fb = [a \in 0 .. Strips - 1 |-> White]
  /\ chars_x = 0 /\ chars_y = 0
  /\ outside = FALSE /\ tidy = TRUE

-----------------------------------------------------------------------------
Slice(g, h) == IF g = Blank THEN White ELSE <<g, h>>

\* Mutant of Address: BYTES_PER_PIXEL as a number and not as COLORDEPTH/8.
AddressWhole(x, y, h) ==
  (y * Height + h) * Cols + (IF x = Word - 1 THEN 0 - 1 ELSE x)

\* write_pixel: x*BYTES_PER_PIXEL is x*24/8, and x*24 wraps before it is
\* divided.
Address(x, y, h) == (y * Height + h) * Cols + ((x * Stride) % Word) \div Stride

\* The addresses a character at (x, y) is drawn to.
Cell(x, y) == {Address(x, y, h) : h \in 0 .. Height - 1}

Drawn(f, g, x, y) ==
  [a \in 0 .. Strips - 1 |->
     IF \E h \in 0 .. Height - 1 : a = Address(x, y, h)
     THEN Slice(g, CHOOSE h \in 0 .. Height - 1 : a = Address(x, y, h))
     ELSE f[a]]

\* Mutant of Scrolled: the last row not filled with the background.
ScrolledOnly(f) ==
  [a \in 0 .. Strips - 1 |-> IF a < Strips - Height * Cols THEN f[a + Height * Cols] ELSE f[a]]

\* Every character row moved up by one, the last one filled with white.
Scrolled(f) ==
  [a \in 0 .. Strips - 1 |-> IF a < Strips - Height * Cols THEN f[a + Height * Cols] ELSE White]

\* Mutant of Row: chars_y not decremented after the shift.
RowKept == chars_y

\* The screen and the cursor's row after the scroll that gpu_putc starts with.
Screen == IF chars_y >= Rows THEN Scrolled(fb) ELSE fb
Row    == IF chars_y >= Rows THEN chars_y - 1 ELSE chars_y

\* Mutant of MoveTo: a test for equality.
MoveToExact(x) ==
  IF x = Cols + 1 THEN chars_x' = 0 /\ chars_y' = Row + 1
                  ELSE chars_x' = x /\ chars_y' = Row

\* The end of gpu_putc: the next line from one past the width on.
MoveTo(x) ==
  IF x > Cols THEN chars_x' = 0 /\ chars_y' = Row + 1
              ELSE chars_x' = x /\ chars_y' = Row

\* Mutant of Left: a signed cursor.
LeftSigned(x) == x - 1

Left(x) == (x - 1) % Word

Draw(g, x) ==
  /\ fb' = Drawn(Screen, g, x, Row)
  /\ outside' = (outside \/ ~ Cell(x, Row) \subseteq 0 .. Strips - 1)

-----------------------------------------------------------------------------
\* gpu_putc of a character with a glyph.
PutChar(g) ==
  /\ Draw(g, chars_x)
  /\ MoveTo((chars_x + 1) % Word)
  /\ tidy' = (tidy /\ chars_x < Cols)

\* gpu_putc of 0x08 or 0x7F.
Erase ==
  LET x == Left(chars_x) IN
  /\ Draw(Blank, x)
  /\ MoveTo(x)
  /\ tidy' = (tidy /\ chars_x > 0)

\* gpu_putc of '\n' or '\r'.
NewLine ==
  /\ fb' = Screen
  /\ chars_x' = 0 /\ chars_y' = Row + 1
  /\ UNCHANGED <<outside, tidy>>

Next == (\E g \in Glyphs \cup {Blank} : PutChar(g)) \/ Erase \/ NewLine

Spec == Init /\ [][Next]_vars

-----------------------------------------------------------------------------
\* Whatever is printed or erased, the cursor stays on the screen, with one
\* column and one row to spare: an erase in column 0 takes the column to
\* 2^32-1, and the test for the right edge brings it back.
CursorOnScreen == chars_x \in 0 .. Cols /\ chars_y \in 0 .. Rows

\* Pixels go outside the framebuffer only after a character too many on a
\* line or an erase in column 0.
TidyStaysInside == tidy => ~ outside

\* The strips of a line of cells.
LineOf(f, r) == [a \in 0 .. Height * Cols - 1 |-> f[r * Height * Cols + a]]

\* No character, wherever it is drawn, damages a line above the cursor's: what
\* was printed is there until it scrolls off.
LinesAboveKept ==
  [][\A r \in 0 .. Rows - 1 : r < Row => LineOf(fb', r) = LineOf(Screen, r)]_vars

\* What a cell of the screen shows: a glyph, blank, or neither.
CellShows(f, r, c) ==
  IF \E g \in Glyphs \cup {Blank} :
       \A h \in 0 .. Height - 1 : f[(r * Height + h) * Cols + c] = Slice(g, h)
  THEN CHOOSE g \in Glyphs \cup {Blank} :
         \A h \in 0 .. Height - 1 : f[(r * Height + h) * Cols + c] = Slice(g, h)
  ELSE Smear

\* The page on the screen, with the scroll that is due already done.
Page == [r \in 0 .. Rows - 1 |-> [c \in 0 .. Cols - 1 |-> CellShows(Screen, r, c)]]

Term == INSTANCE Terminal WITH page <- Page, line <- IF chars_y >= Rows THEN Rows - 1 ELSE chars_y,
                               col <- chars_x

\* As long as it is tidy, gpu_putc is the abstract terminal: what is printed
\* appears where the cursor is, and lines scroll up whole and in order.
ShowsPage == Term!Init /\ [][tidy' => Term!Next]_<<Page, Row, chars_x>>
=============================================================================
